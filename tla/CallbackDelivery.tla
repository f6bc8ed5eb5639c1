-------------------------- MODULE CallbackDelivery --------------------------
(***************************************************************************)
(* _send_callback: the delivery of results to one callbackURL.  The result *)
(* is serialised when the delivery first runs and posted up to Attempts    *)
(* times, Delay apart, while the requester answers 409: it accepts a       *)
(* result only while its process awaits one.  Any other answer, and any    *)
(* failure of the exchange, ends the delivery.                             *)
(*                                                                         *)
(* An exchange can fail although the request arrives, at once or later.    *)
(* Time is counted from the first attempt of each delivery, and only as    *)
(* far as the last attempt can be.                                         *)
(***************************************************************************)
EXTENDS Naturals, FiniteSets

CONSTANTS
    Deliveries,     \* the calls of _send_callback for this callbackURL
    Attempts,       \* _CALLBACK_ATTEMPTS
    Delay,          \* _CALLBACK_RETRY_DELAY_SECONDS
    MaxSteps,       \* bound on the steps of the requester's process that await a result
    MaxWrites       \* bound on the changes of the stored reservation

ASSUME DeliveryAssumption ==
    /\ Attempts \in Nat \ {0} /\ Delay \in Nat \ {0}
    /\ MaxSteps \in Nat /\ MaxWrites \in Nat

VARIABLES
    stored,     \* the version of the stored reservation
    phase,      \* where each delivery is
    attempt,    \* how often it has posted
    payload,    \* the version of the reservation it posts
    left,       \* what is left of its sleep
    age,        \* the time since its first attempt
    exchange,   \* external: what has become of the request it posted last
    awaiting,   \* external: the requester's process awaits a result
    steps,      \* external: how many steps of that process have awaited one
    readyAge,   \* the age of each delivery when the requester first awaited a result
    accepted    \* external: the results taken, with the step of the process that took each

proxyVars == <<phase, attempt, payload, left>>
requesterVars == <<awaiting, steps, accepted>>
vars == <<stored, proxyVars, age, exchange, requesterVars, readyAge>>

Ended == {"delivered", "rejected", "failed", "gaveUp"}
Window == (Attempts - 1) * Delay
Oldest == Attempts * Delay
Never == Oldest + 1

Exchanges == [at : {"none", "sent", "success", "409", "error"}, version : 0..MaxWrites]
Results == [by : Deliveries, version : 0..MaxWrites, step : 1..MaxSteps]

TypeOK ==
    /\ stored \in 0..MaxWrites
    /\ phase \in [Deliveries -> {"due", "posting", "sleeping"} \union Ended]
    /\ attempt \in [Deliveries -> 0..Attempts]
    /\ payload \in [Deliveries -> 0..MaxWrites]
    /\ left \in [Deliveries -> 0..Delay]
    /\ age \in [Deliveries -> 0..Oldest]
    /\ exchange \in [Deliveries -> Exchanges]
    /\ awaiting \in BOOLEAN
    /\ steps \in 0..MaxSteps
    /\ readyAge \in [Deliveries -> 0..Never]
    /\ accepted \subseteq Results

Init ==
    /\ stored = 0
    /\ phase = [d \in Deliveries |-> "due"]
    /\ attempt = [d \in Deliveries |-> 0]
    /\ payload = [d \in Deliveries |-> 0]
    /\ left = [d \in Deliveries |-> 0]
    /\ age = [d \in Deliveries |-> 0]
    /\ exchange = [d \in Deliveries |-> [at |-> "none", version |-> 0]]
    /\ awaiting = FALSE
    /\ steps = 0
    /\ readyAge = [d \in Deliveries |-> Never]
    /\ accepted = {}

(***************************************************************************)
(* The delivery.                                                           *)
(***************************************************************************)
Posts(d, version) ==
    /\ phase' = [phase EXCEPT ![d] = "posting"]
    /\ attempt' = [attempt EXCEPT ![d] = @ + 1]
    /\ exchange' = [exchange EXCEPT ![d] = [at |-> "sent", version |-> version]]

\* The first attempt follows the serialisation without an await in between.
Begin(d) ==
    /\ phase[d] = "due"
    /\ payload' = [payload EXCEPT ![d] = stored]
    /\ Posts(d, stored)
    /\ readyAge' = [readyAge EXCEPT ![d] = IF awaiting THEN 0 ELSE Never]
    /\ UNCHANGED <<stored, left, age, requesterVars>>

\* Faulty variant: each attempt serialises the reservation again.
RetryFaulty(d) ==
    /\ phase[d] = "sleeping" /\ left[d] = 0
    /\ attempt[d] < Attempts
    /\ Posts(d, stored)
    /\ UNCHANGED <<stored, payload, left, age, requesterVars, readyAge>>

\* Faulty variant: the attempts are not counted.
RetryUnbounded(d) ==
    /\ phase[d] = "sleeping" /\ left[d] = 0
    /\ Posts(d, payload[d])
    /\ UNCHANGED <<stored, payload, left, age, requesterVars, readyAge>>

Retry(d) ==
    /\ phase[d] = "sleeping" /\ left[d] = 0
    /\ attempt[d] < Attempts
    /\ Posts(d, payload[d])
    /\ UNCHANGED <<stored, payload, left, age, requesterVars, readyAge>>

Ends(d, how) ==
    /\ phase' = [phase EXCEPT ![d] = how]
    /\ UNCHANGED <<stored, attempt, payload, left, age, exchange, requesterVars, readyAge>>

Succeeds(d) == phase[d] = "posting" /\ exchange[d].at = "success" /\ Ends(d, "delivered")
Rejected(d) == phase[d] = "posting" /\ exchange[d].at = "error" /\ Ends(d, "rejected")

\* Faulty variant: a failed exchange is tried again like a 409.
RaisesFaulty(d) ==
    /\ phase[d] = "posting"
    /\ phase' = [phase EXCEPT ![d] = "sleeping"]
    /\ left' = [left EXCEPT ![d] = Delay]
    /\ UNCHANGED <<stored, attempt, payload, age, exchange, requesterVars, readyAge>>

\* The exchange fails: no connection, no answer in time, an answer that is lost.
Raises(d) == phase[d] = "posting" /\ Ends(d, "failed")

\* Faulty variant: the attempt that met the 409 is not counted.
ConflictFaulty(d) ==
    /\ phase[d] = "posting" /\ exchange[d].at = "409"
    /\ phase' = [phase EXCEPT ![d] = "sleeping"]
    /\ left' = [left EXCEPT ![d] = Delay]
    /\ attempt' = [attempt EXCEPT ![d] = @ - 1]
    /\ UNCHANGED <<stored, payload, age, exchange, requesterVars, readyAge>>

\* The requester is not ready: sleep, also after the last attempt.
Conflict(d) ==
    /\ phase[d] = "posting" /\ exchange[d].at = "409"
    /\ phase' = [phase EXCEPT ![d] = "sleeping"]
    /\ left' = [left EXCEPT ![d] = Delay]
    /\ UNCHANGED <<stored, attempt, payload, age, exchange, requesterVars, readyAge>>

\* Faulty variant: one attempt less.
GivesUpFaulty(d) ==
    /\ phase[d] = "sleeping" /\ left[d] = 0
    /\ attempt[d] + 1 >= Attempts
    /\ Ends(d, "gaveUp")

GivesUp(d) ==
    /\ phase[d] = "sleeping" /\ left[d] = 0
    /\ attempt[d] = Attempts
    /\ Ends(d, "gaveUp")

Deliver(d) ==
    \/ Begin(d) \/ Retry(d) \/ Conflict(d) \/ GivesUp(d)
    \/ Succeeds(d) \/ Rejected(d) \/ Raises(d)

(***************************************************************************)
(* The requester (external), the store and the clock.                      *)
(***************************************************************************)
Answers(d, how) == exchange' = [exchange EXCEPT ![d] = [at |-> how, version |-> @.version]]

\* A request arrives: it is taken if a step of the process awaits a result, and conflicts if not.
Arrives(d) ==
    /\ exchange[d].at = "sent"
    /\ \/ /\ awaiting
          /\ awaiting' = FALSE
          /\ accepted' = accepted \union {[by |-> d, version |-> exchange[d].version, step |-> steps]}
          /\ Answers(d, "success")
       \/ /\ ~awaiting
          /\ Answers(d, "409")
          /\ UNCHANGED <<awaiting, accepted>>
    /\ UNCHANGED <<stored, proxyVars, age, steps, readyAge>>

\* It is refused for another reason, whatever the process awaits.
Refused(d) ==
    /\ exchange[d].at = "sent"
    /\ Answers(d, "error")
    /\ UNCHANGED <<stored, proxyVars, age, requesterVars, readyAge>>

Awaits ==
    /\ ~awaiting /\ steps < MaxSteps
    /\ awaiting' = TRUE /\ steps' = steps + 1
    /\ readyAge' = [d \in Deliveries |->
          IF readyAge[d] = Never /\ phase[d] # "due" THEN age[d] ELSE readyAge[d]]
    /\ UNCHANGED <<stored, proxyVars, age, exchange, accepted>>

\* Another operation, or a refresh, writes the reservation.
Write ==
    /\ stored < MaxWrites /\ stored' = stored + 1
    /\ UNCHANGED <<proxyVars, age, exchange, requesterVars, readyAge>>

Tick ==
    /\ left' = [d \in Deliveries |-> IF left[d] > 0 THEN left[d] - 1 ELSE 0]
    /\ age' = [d \in Deliveries |->
          IF phase[d] \in {"posting", "sleeping"} /\ age[d] < Oldest THEN age[d] + 1 ELSE age[d]]
    /\ UNCHANGED <<stored, phase, attempt, payload, exchange, requesterVars, readyAge>>

Next ==
    \/ \E d \in Deliveries : Deliver(d) \/ Arrives(d) \/ Refused(d)
    \/ Awaits \/ Write \/ Tick

Spec == Init /\ [][Next]_vars

\* The event loop resumes a delivery whose sleep or exchange is over, and the HTTP client ends every
\* exchange (a timeout of five seconds).  Nothing is assumed of the requester.
FairSpec == Spec /\ WF_vars(Tick) /\ \A d \in Deliveries : WF_vars(Deliver(d))

(***************************************************************************)
(* Properties.                                                             *)
(***************************************************************************)
\* One delivery is taken at most once: no step of the requester's process takes for its own result
\* one that an earlier step has already had, also when the answer to that was lost.
AcceptedOnce == \A one, other \in accepted : one.by = other.by => one = other

\* What is taken is what the proxy held when the delivery began, however many conflicts later and
\* whatever has been stored meanwhile (the payload is built before the loop).
ResultIsSnapshot == \A one \in accepted : one.version = payload[one.by]

\* A delivery is given up only on a requester that did not await a result before the last attempt
\* was due, or that took another one (README: "retries once a second for about 12 seconds").
NotGivenUpEarly ==
    \A d \in Deliveries : phase[d] = "gaveUp" =>
        readyAge[d] >= Window \/ \E one \in accepted : one.by # d

\* Every delivery ends, and with it the completion task that waits for it.
DeliveryEnds == \A d \in Deliveries : <>(phase[d] \in Ended)
=============================================================================
