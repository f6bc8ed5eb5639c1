----------------------------- MODULE StateMapping -----------------------------
(***************************************************************************)
(* The pure functions that turn what the aggregator reports about a        *)
(* connection into the one status the proxy shows: state_mapping.py, and   *)
(* the choice of last_error that _update_store_from_query makes with it.   *)
(*                                                                         *)
(* Timestamps are natural numbers on the aggregator's clock.  A timestamp  *)
(* that is absent, or that parse_iso8601 cannot read, is NoTime.  A reason *)
(* stands for the text of an error message: NoError for None, "event" for  *)
(* a formatted errorEvent, "dropped" and "late" for the two reasons the    *)
(* deriver makes up, "operation" for a reason a completion task gives.     *)
(***************************************************************************)
EXTENDS Integers, FiniteSetsExt

ReservationStates == {"ReserveStart", "ReserveChecking", "ReserveHeld",
    "ReserveCommitting", "ReserveFailed", "ReserveAborting", "ReserveTimeout"}
ProvisionStates == {"Released", "Provisioning", "Provisioned", "Releasing"}
LifecycleStates == {"Created", "Failed", "PassedEndTime", "Terminating", "Terminated"}

Statuses == {"RESERVING", "RESERVED", "ACTIVATING", "ACTIVATED", "DEACTIVATING",
    "FAILED", "TERMINATED"}
TerminalStatuses == {"TERMINATED", "FAILED"}
TransientStatuses == {"ACTIVATING", "DEACTIVATING"}

NoError == "none"
Reasons == {NoError, "event", "dropped", "late", "operation"}

NoTime == -1

\* Faulty variant: Terminated is not recognised as an end.
EndedLifecyclesFaulty == {"PassedEndTime"}

EndedLifecycles == {"Terminated", "PassedEndTime"}
FailedReservations == {"ReserveTimeout", "ReserveFailed", "ReserveAborting"}
OpenReservations == {"ReserveChecking", "ReserveHeld", "ReserveCommitting"}

\* The priority list of map_nsi_states_to_status, highest priority first.
MapNsiStates(states, hasErrorEvent) ==
    IF states.lifecycle \in EndedLifecycles THEN "TERMINATED"
    ELSE IF states.lifecycle = "Failed" \/ states.reservation \in FailedReservations THEN "FAILED"
    ELSE IF hasErrorEvent THEN "FAILED"
    ELSE IF states.reservation \in OpenReservations THEN "RESERVING"
    ELSE IF states.active /\ states.provision = "Released" THEN "DEACTIVATING"
    ELSE IF states.active THEN "ACTIVATED"
    ELSE IF states.provision = "Provisioned" THEN "ACTIVATING"
    ELSE "RESERVED"

(***************************************************************************)
(* The durable history.  A result is [id, operation, time], a data-plane   *)
(* change is [active, time].                                               *)
(***************************************************************************)
\* The time of the operation's result with the highest resultId, NoTime if none.
LatestOperationTime(results, operation) ==
    LET matching == {res \in results : res.operation = operation}
        latest == {res \in matching : \A other \in matching :
                      \/ other.id < res.id
                      \/ other.id = res.id /\ other.time <= res.time}
    IN  IF matching = {} THEN NoTime ELSE (CHOOSE res \in latest : TRUE).time

\* Faulty variant: a change at the very time of the result does not count.
DataPlaneActiveSinceFaulty(changes, since) ==
    \E change \in changes : change.active /\ change.time # NoTime /\ change.time > since

DataPlaneActiveSince(changes, since) ==
    \E change \in changes : change.active /\ change.time # NoTime /\ change.time >= since

\* Faulty variant: a startTime in the future is ignored.
SlaStartFaulty(at, startTime) == at

\* The operation's clock starts at its result, or at the reservation's startTime when later.
SlaStart(at, startTime) == IF startTime = NoTime THEN at ELSE Max({at, startTime})

\* Faulty variant: only noticed by a reader that comes at the right moment.
OverdueFaulty(at, now, timeout) == now - at = timeout + 1

Overdue(at, now, timeout) == now - at > timeout

\* Faulty variant: the release side has no deadline.
RefineFaulty(base, known, cameUp, overdue) ==
    CASE base = "ACTIVATING" /\ known /\ cameUp -> [status |-> "FAILED", reason |-> "dropped"]
      [] base = "ACTIVATING" /\ known /\ ~cameUp /\ overdue
            -> [status |-> "FAILED", reason |-> "late"]
      [] OTHER -> [status |-> base, reason |-> NoError]

\* The decisions of derive_status: whether the result of the operation is known, whether the data
\* plane was reported active since, and whether the operation is overdue.
Refine(base, known, cameUp, overdue) ==
    CASE base = "ACTIVATING" /\ known /\ cameUp -> [status |-> "FAILED", reason |-> "dropped"]
      [] base = "ACTIVATING" /\ known /\ ~cameUp /\ overdue
            -> [status |-> "FAILED", reason |-> "late"]
      [] base = "DEACTIVATING" /\ known /\ overdue -> [status |-> "FAILED", reason |-> "late"]
      [] OTHER -> [status |-> base, reason |-> NoError]

DeriveStatus(base, results, changes, startTime, now, timeout) ==
    LET provisionAt == LatestOperationTime(results, "provisionConfirmed")
        releaseAt == LatestOperationTime(results, "releaseConfirmed")
    IN  IF base = "ACTIVATING"
        THEN Refine(base, provisionAt # NoTime, DataPlaneActiveSince(changes, provisionAt),
                    Overdue(SlaStart(provisionAt, startTime), now, timeout))
        ELSE Refine(base, releaseAt # NoTime, FALSE, Overdue(releaseAt, now, timeout))

\* Faulty variant: an error once stored is kept whatever the status.
ResolveLastErrorFaulty(derived, eventError, existing) ==
    IF eventError # NoError THEN eventError
    ELSE IF derived.reason # NoError THEN derived.reason ELSE existing

\* An errorEvent always wins; otherwise only FAILED keeps an error, the deriver's own if it has one.
ResolveLastError(derived, eventError, existing) ==
    IF eventError # NoError THEN eventError
    ELSE IF derived.status # "FAILED" THEN NoError
    ELSE IF derived.reason # NoError THEN derived.reason ELSE existing
=============================================================================
