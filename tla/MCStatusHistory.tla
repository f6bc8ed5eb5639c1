--------------------------- MODULE MCStatusHistory ---------------------------
(* The instance of StatusHistory that TLC checks: a reservation without a   *)
(* startTime, one that starts before and one that starts after its first    *)
(* operation.                                                               *)
EXTENDS StatusHistory

MCStartTimes == {NoTime, 0, 4}
=============================================================================
