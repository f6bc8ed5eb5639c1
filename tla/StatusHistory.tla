----------------------------- MODULE StatusHistory -----------------------------
(***************************************************************************)
(* derive_status over time.  The aggregator records the results and the    *)
(* data-plane changes of one connection with their timestamps; at every    *)
(* moment the status that a reader would derive from that record is        *)
(* compared with what really happened (opAt, dropped).                     *)
(*                                                                         *)
(* Events of the connection happen at distinct instants, except that the   *)
(* data plane may come up at the instant of the provisionConfirmed.        *)
(***************************************************************************)
EXTENDS StateMapping

CONSTANTS
    Timeout,        \* DATAPLANE_TIMEOUT
    StartTimes,     \* startTime of the reservation, NoTime if absent
    Horizon,        \* bound on the clock
    MaxResults      \* bound on the results recorded

ASSUME HistoryAssumption ==
    /\ Timeout \in Nat /\ Horizon \in Nat /\ MaxResults \in Nat
    /\ StartTimes \subseteq Nat \union {NoTime}

VARIABLES
    now, last,              \* the clock, and the time of the last event
    startTime,
    provision, active,      \* the connection states
    results, changes,       \* the history
    opAt, dropped           \* what really happened: the last operation's time, an unsolicited drop

vars == <<now, last, startTime, provision, active, results, changes, opAt, dropped>>

Init ==
    /\ now = 1 /\ last = 0 /\ opAt = 0
    /\ startTime \in StartTimes
    /\ provision = "Released" /\ active = FALSE /\ dropped = FALSE
    /\ results = {} /\ changes = {}

Tick ==
    /\ now < Horizon
    /\ now' = now + 1
    /\ UNCHANGED <<last, startTime, provision, active, results, changes, opAt, dropped>>

RecordsResult(operation) ==
    /\ now > last
    /\ Cardinality(results) < MaxResults
    /\ results' = results \union
          {[id |-> Cardinality(results) + 1, operation |-> operation, time |-> now]}
    /\ opAt' = now /\ last' = now
    /\ dropped' = FALSE

ProvisionConfirmed ==
    /\ provision = "Released" /\ ~active
    /\ RecordsResult("provisionConfirmed")
    /\ provision' = "Provisioned"
    /\ UNCHANGED <<now, startTime, active, changes>>

ReleaseConfirmed ==
    /\ provision = "Provisioned"
    /\ RecordsResult("releaseConfirmed")
    /\ provision' = "Released"
    /\ UNCHANGED <<now, startTime, active, changes>>

Changes(to) ==
    /\ active' = to
    /\ changes' = changes \union {[active |-> to, time |-> now]}
    /\ last' = now
    /\ UNCHANGED <<now, startTime, provision, results, opAt>>

Up ==
    /\ provision = "Provisioned" /\ ~active /\ ~dropped
    /\ now > last \/ now = opAt
    /\ Changes(TRUE)
    /\ UNCHANGED dropped

Down ==
    /\ active /\ now > last
    /\ Changes(FALSE)
    /\ dropped' = (provision = "Provisioned")

Next == Tick \/ ProvisionConfirmed \/ ReleaseConfirmed \/ Up \/ Down

Spec == Init /\ [][Next]_vars

\* The status a reader derives at this moment.
Derived ==
    DeriveStatus(
        MapNsiStates([lifecycle |-> "Created", reservation |-> "ReserveStart",
                      provision |-> provision, active |-> active], FALSE),
        results, changes, startTime, now, Timeout)

\* The time at which the running operation is due.
Due == Timeout + IF provision = "Provisioned" /\ startTime > opAt THEN startTime ELSE opAt

\* derive_status takes a provisioned, inactive connection for a dropped one exactly when its data
\* plane came up after the last provisionConfirmed and went down on its own: changes of an earlier
\* cycle are not mistaken for it, and a change at the very instant of the result counts.
DropIsDetected == Derived.reason = "dropped" <=> dropped /\ provision = "Provisioned"

\* An operation is failed for lateness only after DATAPLANE_TIMEOUT has passed since it was
\* confirmed, and for a provision also since the startTime of the reservation.
NeverFailedEarly == Derived.reason = "late" => now > Due

\* ACTIVATING and DEACTIVATING last no longer than that, however often the connection was
\* provisioned and released before.
TransientIsBounded == Derived.status \in TransientStatuses => now <= Due

\* Time alone never takes FAILED back: only a new result or data-plane change does.
FailureOutlastsTime == [][now' # now /\ Derived.status = "FAILED" => Derived'.status = "FAILED"]_vars
=============================================================================
