------------------------------ MODULE MCReserve ------------------------------
(***************************************************************************)
(* Requests with one globalReservationId are alike: nothing in Reserve     *)
(* tells them apart but the order in which they come.  Only safety and     *)
(* steps are checked with this module.                                     *)
(***************************************************************************)
EXTENDS Reserve, TLC

MCSymmetry == Permutations(Keyed)
=============================================================================
