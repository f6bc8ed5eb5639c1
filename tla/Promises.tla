-------------------------------- MODULE Promises --------------------------------
(***************************************************************************)
(* What the proxy promises to those who ask it for an operation, and       *)
(* nothing of how: every request is answered once, only a request that was *)
(* accepted can be owed a result, a result is owed once, and when it comes *)
(* it is one that ends the operation.  A request that joins an operation   *)
(* in progress is accepted and owed nothing of its own; one that finds its *)
(* operation done is owed a repeat of what is known.  A restart may forget *)
(* what is owed and leaves who was waiting for an answer without one.      *)
(*                                                                         *)
(* ConnectionOps and Reserve implement this module.                        *)
(***************************************************************************)
EXTENDS Naturals

CONSTANTS
    Askers,     \* the requests
    Outcomes,   \* of each request, the statuses that end its operation
    Shown       \* the statuses a reservation can have

VARIABLES
    answer,     \* what each request was answered
    owed,       \* what each request still has to be sent
    told,       \* the results sent: the request each is about, the status, and whether that
                \* request had been sent one before
    restarts

vars == <<answer, owed, told, restarts>>

Answers == {"none", "asked", "accepted", "refused", "failed", "lost"}

TypeOK ==
    /\ answer \in [Askers -> Answers]
    /\ owed \in [Askers -> {"nothing", "result", "repeat"}]
    /\ told \subseteq Askers \X Shown \X BOOLEAN
    /\ restarts \in Nat

Init ==
    /\ answer = [r \in Askers |-> "none"]
    /\ owed = [r \in Askers |-> "nothing"]
    /\ told = {}
    /\ restarts = 0

Ask(r) ==
    /\ answer[r] = "none"
    /\ answer' = [answer EXCEPT ![r] = "asked"]
    /\ UNCHANGED <<owed, told, restarts>>

Accept(r, due) ==
    /\ answer[r] = "asked"
    /\ answer' = [answer EXCEPT ![r] = "accepted"]
    /\ owed' = [owed EXCEPT ![r] = due]
    /\ UNCHANGED <<told, restarts>>

TurnDown(r, how) ==
    /\ answer[r] = "asked"
    /\ answer' = [answer EXCEPT ![r] = how]
    /\ UNCHANGED <<owed, told, restarts>>

HasBeenTold(r) == \E one \in told : one[1] = r

Tell(r, status) ==
    /\ owed[r] # "nothing"
    /\ owed[r] = "result" => status \in Outcomes[r]
    /\ told' = told \union {<<r, status, HasBeenTold(r)>>}
    /\ owed' = [owed EXCEPT ![r] = "nothing"]
    /\ UNCHANGED <<answer, restarts>>

Restart(forgotten) ==
    /\ restarts' = restarts + 1
    /\ answer' = [r \in Askers |-> IF answer[r] = "asked" THEN "lost" ELSE answer[r]]
    /\ owed' = [r \in Askers |-> IF r \in forgotten THEN "nothing" ELSE owed[r]]
    /\ UNCHANGED told

Next ==
    \/ \E r \in Askers :
          \/ Ask(r)
          \/ \E due \in {"nothing", "result", "repeat"} : Accept(r, due)
          \/ \E how \in {"refused", "failed"} : TurnDown(r, how)
          \/ \E status \in Shown : Tell(r, status)
    \/ \E forgotten \in SUBSET Askers : Restart(forgotten)

Spec == Init /\ [][Next]_vars

=============================================================================
