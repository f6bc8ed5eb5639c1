------------------------- MODULE ConnectionOps_proofs -------------------------
(***************************************************************************)
(* What holds of ConnectionOps for any set of operations, reads and lists, *)
(* any faults and any number of restarts, and that it implements Promises. *)
(* Requesters may be as impatient as they like, but for the last three     *)
(* theorems, which say so: those are about requesters that take turns.     *)
(***************************************************************************)
EXTENDS ConnectionOps, StateMapping_proofs

(***************************************************************************)
(* The refreshed reservation.                                              *)
(***************************************************************************)
LEMMA DerivedIsTyped ==
    ASSUME NEW r
    PROVE  /\ Derived(r).status \in {Base(r), "FAILED"}
           /\ Derived(r).status \in Statuses
           /\ Derived(r).reason \in Reasons
<1>1. Base(r) \in Statuses
  BY MappedStatus DEF Base
<1>2. /\ Derived(r).status \in {Base(r), "FAILED"}
      /\ Derived(r).reason \in Reasons
  BY RefinedStatus DEF Derived
<1> QED
  BY <1>1, <1>2 DEF Statuses

LEMMA RefreshedIsTyped ==
    ASSUME TypeOK, NEW r \in Requests
    PROVE  RefreshedStore(r) \in Entries
<1>1. Derived(r).status \in Statuses /\ Derived(r).reason \in Reasons
  BY DerivedIsTyped
<1>2. store.lastError \in Reasons /\ store.callbackUrl \in Operations \union {NoRequest}
  BY DEF TypeOK, Entries
<1>3. ResolveLastError(Derived(r), IF view[r].errors THEN "event" ELSE NoError, store.lastError)
        \in Reasons
  BY <1>1, <1>2, ResolvedError DEF Reasons, NoError
<1> QED
  BY <1>1, <1>2, <1>3 DEF RefreshedStore, Entries

LEMMA StoresAreTyped ==
    ASSUME TypeOK, NEW r \in Operations
    PROVE  AdoptedStore(r) \in Entries /\ RefusedStore(r) \in Entries
<1>1. RefreshedStore(r) \in Entries
  BY RefreshedIsTyped DEF Requests
<1> QED
  BY <1>1 DEF AdoptedStore, RefusedStore, Entries

LEMMA AnswersAreTyped ==
    ASSUME TypeOK, NEW r \in Requests, NEW code, Replies(r, code),
           r \in Operations => code \in {"none", "202", "404", "409", "500", "502", "lost"}
    PROVE  /\ pc' \in [Requests -> {"idle", "refreshing", "refined", "posting", "done"}]
           /\ reply' \in [Operations -> {"none", "202", "404", "409", "500", "502", "lost"}]
           /\ asked' \in [Requests -> SUBSET {"summary", "notifications"}]
           /\ view' \in [Requests -> AggRecords]
<1>1. Blank \in AggRecords
  BY DEF Blank, ReservedConnection, AggRecords, ProvisionStates, LifecycleStates
<1> QED
  BY <1>1 DEF TypeOK, Replies, Forgotten

LEMMA EndIsTyped ==
    ASSUME TypeOK, NEW r \in Operations, NEW status \in Statuses, NEW lastError \in Reasons,
           Ends(r, status, lastError)
    PROVE  /\ store' \in Entries
           /\ reports' \subseteq Reports
           /\ task' \in [Operations -> RunningTasks
                              \union {"none", "redelivering", "done", "dead", "killed"}]
<1>1. store' \in Entries
  BY DEF TypeOK, Ends, Entries
<1>2. Report(r) \in Reports
  BY <1>1 DEF Report, Reports, Entries, HasReported
<1> QED
  BY <1>1, <1>2 DEF TypeOK, Ends

(***************************************************************************)
(* The environment's part of the type invariant.                           *)
(***************************************************************************)
LEMMA AggregatorTyped ==
    AggTypeOK /\ [AggNext]_aggVars => AggTypeOK'
<1> SUFFICES ASSUME AggTypeOK, [AggNext]_aggVars PROVE AggTypeOK'
  OBVIOUS
<1> USE DEF AggTypeOK
<1>1. ASSUME NEW r \in Operations, AggAccepts(r) PROVE AggTypeOK'
  <2>1. Begun(r) \in AggRecords
    BY DEF Begun, AggRecords, ProvisionStates, LifecycleStates
  <2> QED
    BY <1>1, <2>1 DEF AggAccepts
<1>2. ASSUME NEW r \in Operations, AggRefuses(r) PROVE AggTypeOK'
  BY <1>2 DEF AggRefuses
<1>3. ASSUME NEW r \in Operations, AggConfirms(r) PROVE AggTypeOK'
  <2>1. Confirmed(r) \in AggRecords
    <3>1. agg.provAt + 1 \in Nat /\ agg.relAt + 1 \in Nat
      BY DEF AggRecords
    <3>2. [agg EXCEPT !.provision = "Provisioned", !.provAt = @ + 1] \in AggRecords
      BY <3>1 DEF AggRecords, ProvisionStates
    <3>3. [agg EXCEPT !.provision = "Released", !.relAt = @ + 1] \in AggRecords
      BY <3>1 DEF AggRecords, ProvisionStates
    <3>4. [agg EXCEPT !.lifecycle = "Terminated"] \in AggRecords
      BY DEF AggRecords, LifecycleStates
    <3> QED
      BY <3>2, <3>3, <3>4 DEF Confirmed
  <2>2. Answer(r, "confirmed") \in Messages
    BY DEF Answer, Messages
  <2> QED
    BY <1>3, <2>1, <2>2 DEF AggConfirms
<1>4. ASSUME NEW r \in Operations, AggAnswersUnexpectedly(r) PROVE AggTypeOK'
  <2>1. Answer(r, "unexpected") \in Messages
    BY DEF Answer, Messages
  <2> QED
    BY <1>4, <2>1 DEF AggAnswersUnexpectedly
<1>5. CASE DataPlaneUp
  <2>1. Notification("up", agg.provAt) \in Messages
    BY DEF Notification, Messages, AggRecords
  <2> QED
    BY <1>5, <2>1 DEF DataPlaneUp, AggRecords
<1>6. CASE DataPlaneDown
  <2>1. Notification("down", agg.upAt) \in Messages
    BY DEF Notification, Messages, AggRecords
  <2> QED
    BY <1>6, <2>1 DEF DataPlaneDown, AggRecords
<1>7. CASE ErrorEvent
  <2>1. Notification("error", 0) \in Messages
    BY DEF Notification, Messages
  <2> QED
    BY <1>7, <2>1 DEF ErrorEvent, AggRecords
<1>8. CASE ForcedEnd
  BY <1>8 DEF ForcedEnd, AggRecords, LifecycleStates
<1>9. CASE Forget
  BY <1>9 DEF Forget, AggRecords
<1>10. CASE SlaPasses
  BY <1>10 DEF SlaPasses, AggRecords
<1>11. CASE UNCHANGED aggVars
  BY <1>11 DEF aggVars
<1> QED
  BY <1>1, <1>2, <1>3, <1>4, <1>5, <1>6, <1>7, <1>8, <1>9, <1>10, <1>11 DEF AggNext

(***************************************************************************)
(* Type correctness.                                                       *)
(***************************************************************************)
\* Every variable keeps to its type, in particular every status that any handler or completion task
\* stores is one that the API knows, and every report carries one.
THEOREM TypeCorrect == Spec => []TypeOK
<1> USE DEF aggVars, handlerVars, futureVars, taskVars
<1>1. Init => TypeOK
  <2> SUFFICES ASSUME Init PROVE TypeOK
    OBVIOUS
  <2>1. ReservedConnection \in AggRecords /\ ActiveConnection \in AggRecords
    BY DEF ReservedConnection, ActiveConnection, AggRecords, ProvisionStates, LifecycleStates
  <2>2. Blank \in AggRecords
    BY DEF Blank, ReservedConnection, AggRecords, ProvisionStates, LifecycleStates
  <2>3. AggTypeOK
    BY <2>1 DEF Init, AggInit, AggTypeOK
  <2>4. store \in Entries
    BY DEF Init, NoEntry, Entries, Reasons
  <2> QED
    BY <2>2, <2>3, <2>4, BoundsAssumption DEF Init, TypeOK
<1>2. TypeOK /\ [Next]_vars => TypeOK'
  <2> SUFFICES ASSUME TypeOK, [Next]_vars PROVE TypeOK'
    OBVIOUS
  <2>1. ASSUME NEW r \in Requests, StartRefresh(r) PROVE TypeOK'
    BY <2>1 DEF StartRefresh, TypeOK, AggTypeOK
  <2>2. ASSUME NEW r \in Requests, SummaryAnswered(r) PROVE TypeOK'
    <3>1. view[r] \in AggRecords /\ agg \in AggRecords
      BY DEF TypeOK, AggTypeOK
    <3>2. [view[r] EXCEPT !.lifecycle = agg.lifecycle, !.provision = agg.provision,
                          !.active = agg.active] \in AggRecords
      BY <3>1 DEF AggRecords
    <3> QED
      BY <2>2, <3>2 DEF SummaryAnswered, TypeOK, AggTypeOK
  <2>3. ASSUME NEW r \in Requests, NotificationsAnswered(r) PROVE TypeOK'
    <3>1. view[r] \in AggRecords /\ agg \in AggRecords
      BY DEF TypeOK, AggTypeOK
    <3>2. [view[r] EXCEPT !.errors = agg.errors, !.upAt = agg.upAt] \in AggRecords
      BY <3>1 DEF AggRecords
    <3> QED
      BY <2>3, <3>2 DEF NotificationsAnswered, TypeOK, AggTypeOK
  <2>4. ASSUME NEW r \in Requests, ResultsAnswered(r) PROVE TypeOK'
    <3>1. view[r] \in AggRecords /\ agg \in AggRecords
      BY DEF TypeOK, AggTypeOK
    <3>2. [view[r] EXCEPT !.provAt = agg.provAt, !.relAt = agg.relAt] \in AggRecords
      BY <3>1 DEF AggRecords
    <3> QED
      BY <2>4, <3>2 DEF ResultsAnswered, TypeOK, AggTypeOK
  <2>5. ASSUME NEW r \in Requests, SummaryFails(r) PROVE TypeOK'
    BY <2>5, AnswersAreTyped DEF SummaryFails, TypeOK, AggTypeOK
  <2>6. ASSUME NEW r \in Requests, NotFound(r) PROVE TypeOK'
    BY <2>6, AnswersAreTyped DEF NotFound, TypeOK, AggTypeOK
  <2>7. ASSUME NEW r \in Requests, Retrieve(r) PROVE TypeOK'
    BY <2>7, AnswersAreTyped, RefreshedIsTyped DEF Retrieve, TypeOK, AggTypeOK
  <2>8. ASSUME NEW r \in Operations, Redeliver(r) PROVE TypeOK'
    BY <2>8, AnswersAreTyped, StoresAreTyped DEF Redeliver, TypeOK, AggTypeOK, Requests
  <2>9. ASSUME NEW r \in Operations, JoinInFlight(r) PROVE TypeOK'
    BY <2>9, AnswersAreTyped, StoresAreTyped DEF JoinInFlight, TypeOK, AggTypeOK, Requests
  <2>10. ASSUME NEW r \in Operations, Refuse(r) PROVE TypeOK'
    BY <2>10, AnswersAreTyped, StoresAreTyped DEF Refuse, TypeOK, AggTypeOK, Requests
  <2>11. ASSUME NEW r \in Operations, Proceed(r) PROVE TypeOK'
    <3>1. Blank \in AggRecords
      BY DEF Blank, ReservedConnection, AggRecords, ProvisionStates, LifecycleStates
    <3> QED
      BY <2>11, <3>1, StoresAreTyped
         DEF Proceed, Registered, Forgotten, TypeOK, AggTypeOK, Requests
  <2>12. ASSUME NEW r \in Operations, PostAcked(r) PROVE TypeOK'
    <3>1. AcceptedStore(r) \in Entries
      BY DEF AcceptedStore, TypeOK, Entries, Statuses
    <3> QED
      BY <2>12, <3>1, AnswersAreTyped DEF PostAcked, TypeOK, AggTypeOK, Requests, RunningTasks
  <2>13. ASSUME NEW r \in Operations, PostFails(r) PROVE TypeOK'
    BY <2>13, AnswersAreTyped DEF PostFails, Cancelled, TypeOK, AggTypeOK, Requests
  <2>14. ASSUME NEW r \in Operations, PostGarbled(r) PROVE TypeOK'
    BY <2>14, AnswersAreTyped DEF PostGarbled, TypeOK, AggTypeOK, Requests
  <2>15. ASSUME NEW r \in Operations, ConfirmArrives(r) PROVE TypeOK'
    BY <2>15 DEF ConfirmArrives, WatchesDataPlane, TypeOK, AggTypeOK, RunningTasks
  <2>16. ASSUME NEW r \in Operations, UnexpectedArrives(r) PROVE TypeOK'
    BY <2>16, EndIsTyped DEF UnexpectedArrives, TypeOK, AggTypeOK, Statuses, Reasons
  <2>17. ASSUME NEW r \in Operations, ConfirmTimeout(r) PROVE TypeOK'
    BY <2>17, EndIsTyped DEF ConfirmTimeout, Cancelled, TypeOK, AggTypeOK, Statuses, Reasons
  <2>18. ASSUME NEW r \in Operations, TerminateEnds(r) PROVE TypeOK'
    <3>1. store.lastError \in Reasons
      BY DEF TypeOK, Entries
    <3> QED
      BY <2>18, <3>1, EndIsTyped DEF TerminateEnds, Cancelled, TypeOK, AggTypeOK, Statuses
  <2>19. ASSUME NEW r \in Operations, DataPlaneReaches(r) PROVE TypeOK'
    <3>1. SuccessStatus(r) \in Statuses /\ NoError \in Reasons
      BY DEF SuccessStatus, Statuses, Reasons
    <3> QED
      BY <2>19, <3>1, EndIsTyped DEF DataPlaneReaches, TypeOK, AggTypeOK
  <2>20. ASSUME NEW r \in Operations, DataPlaneErrs(r) PROVE TypeOK'
    BY <2>20, EndIsTyped DEF DataPlaneErrs, TypeOK, AggTypeOK, Statuses, Reasons
  <2>21. ASSUME NEW r \in Operations, DataPlaneDiffers(r) PROVE TypeOK'
    BY <2>21 DEF DataPlaneDiffers, WatchesDataPlane, TypeOK, AggTypeOK, RunningTasks
  <2>22. ASSUME NEW r \in Operations, DataPlaneTimeout(r) PROVE TypeOK'
    BY <2>22 DEF DataPlaneTimeout, Cancelled, TypeOK, AggTypeOK, RunningTasks
  <2>23. ASSUME NEW r \in Operations, WatchCancelled(r) PROVE TypeOK'
    BY <2>23 DEF WatchCancelled, TypeOK, AggTypeOK
  <2>24. ASSUME NEW r \in Operations, HistoryAnswered(r) PROVE TypeOK'
    BY <2>24 DEF HistoryAnswered, TypeOK, AggTypeOK, RunningTasks
  <2>31. ASSUME NEW r \in Operations, DataPlaneMissed(r) PROVE TypeOK'
    <3>1. {"event", "operation"} \subseteq Reasons /\ "FAILED" \in Statuses
      BY DEF Reasons, Statuses
    <3>2. PICK lastError \in Reasons : Ends(r, "FAILED", lastError)
      BY <2>31, <3>1 DEF DataPlaneMissed
    <3> QED
      BY <2>31, <3>1, <3>2, EndIsTyped DEF DataPlaneMissed, TypeOK, AggTypeOK
  <2>25. ASSUME NEW r \in Operations, Redelivers(r) PROVE TypeOK'
    <3>1. [by |-> r, to |-> r, status |-> store.status,
           lastError |-> store.lastError, again |-> TRUE, second |-> HasReported(r)] \in Reports
      BY DEF TypeOK, Reports, Entries, HasReported
    <3> QED
      BY <2>25, <3>1 DEF Redelivers, TypeOK, AggTypeOK
  <2>26. ASSUME NEW m \in net, DeliverAnswer(m) PROVE TypeOK'
    <3>1. m.to \in Operations /\ m.kind \in {"confirmed", "unexpected"}
      BY <2>26 DEF DeliverAnswer, TypeOK, AggTypeOK, Messages
    <3> QED
      BY <2>26, <3>1 DEF DeliverAnswer, Resolved, TypeOK, AggTypeOK
  <2>27. ASSUME NEW m \in net, DeliverNotification(m) PROVE TypeOK'
    <3>1. m.kind \in {"up", "down", "error"}
      BY <2>27, OperationsAssumption DEF DeliverNotification, TypeOK, AggTypeOK, Messages
    <3> QED
      BY <2>27, <3>1 DEF DeliverNotification, Resolved, TypeOK, AggTypeOK
  <2>28. CASE Environment
    BY <2>28, AggregatorTyped DEF Environment, ProxyUnchanged, TypeOK
  <2>29. CASE Crash
    <3>1. Blank \in AggRecords
      BY DEF Blank, ReservedConnection, AggRecords, ProvisionStates, LifecycleStates
    <3>2. NoEntry \in Entries
      BY DEF NoEntry, Entries, Reasons
    <3> QED
      BY <2>29, <3>1, <3>2, BoundsAssumption DEF Crash, TypeOK, AggTypeOK, RunningTasks
  <2>30. CASE UNCHANGED vars
    BY <2>30 DEF vars, TypeOK, AggTypeOK
  <2> QED
    BY <2>1, <2>2, <2>3, <2>4, <2>5, <2>6, <2>7, <2>8, <2>9, <2>10, <2>11, <2>12, <2>13, <2>14,
       <2>15, <2>16, <2>17, <2>18, <2>19, <2>20, <2>21, <2>22, <2>23, <2>24, <2>25, <2>26, <2>27,
       <2>28, <2>29, <2>30, <2>31 DEF Next, Refreshes, Dispatches, Posts, Completes
<1> QED
  BY <1>1, <1>2, PTL DEF Spec

(***************************************************************************)
(* A healthy status never carries an error.  Only a refresh and the end of *)
(* a task write the two fields; a refresh that saw an errorEvent derives a *)
(* terminal status, one that saw none resets last_error unless it derives  *)
(* FAILED.                                                                 *)
(***************************************************************************)
Healthy == {"RESERVING", "RESERVED", "ACTIVATED"}

LEMMA RefreshedIsHealthy ==
    ASSUME TypeOK, NEW r \in Requests, RefreshedStore(r).status \in Healthy
    PROVE  RefreshedStore(r).lastError = NoError
<1>1. Derived(r).status \in Healthy
  BY DEF RefreshedStore
<1>2. Derived(r).status = Base(r) /\ Derived(r).status # "FAILED"
  BY <1>1, DerivedIsTyped DEF Healthy
<1>3. view[r].errors \in BOOLEAN
  BY DEF TypeOK, AggRecords
<1>4. ~view[r].errors
  <2> SUFFICES ASSUME view[r].errors PROVE FALSE
    OBVIOUS
  <2>1. view[r].errors = TRUE
    BY <1>3
  <2>2. Base(r) \in TerminalStatuses
    BY <2>1, ErrorIsTerminal DEF Base
  <2> QED
    BY <1>1, <1>2, <2>2 DEF TerminalStatuses, Healthy
<1> QED
  BY <1>2, <1>4 DEF RefreshedStore, ResolveLastError

\* What a handler stores differs from the refreshed reservation in the callbackURL only.
LEMMA StoresAreHealthy ==
    ASSUME TypeOK, NEW r \in Requests, NEW s \in {RefreshedStore(r), AdoptedStore(r), RefusedStore(r)},
           s.status \in Healthy
    PROVE  s.lastError = NoError
<1>1. s.status = RefreshedStore(r).status /\ s.lastError = RefreshedStore(r).lastError
  BY DEF RefreshedStore, AdoptedStore, RefusedStore
<1> QED
  BY <1>1, RefreshedIsHealthy

LEMMA EndIsHealthy ==
    ASSUME TypeOK, NEW r \in Operations, NEW status \in Statuses, NEW lastError \in Reasons,
           Ends(r, status, lastError), status \in Healthy => lastError = NoError
    PROVE  HealthyHasNoError'
BY DEF Ends, TypeOK, Entries, HealthyHasNoError, Healthy

\* A reservation that is shown as healthy shows no error, whichever refresh or completion wrote last
\* (_refresh_reservation, _refresh_all_reservations, the ends of the completion tasks).
THEOREM HealthyNeverFails == Spec => []HealthyHasNoError
<1>1. Init => HealthyHasNoError
  BY DEF Init, NoEntry, HealthyHasNoError
<1>2. TypeOK /\ HealthyHasNoError /\ [Next]_vars => HealthyHasNoError'
  <2> SUFFICES ASSUME TypeOK, HealthyHasNoError, [Next]_vars PROVE HealthyHasNoError'
    OBVIOUS
  <2>1. ASSUME NEW r \in Requests, Retrieve(r) PROVE HealthyHasNoError'
    BY <2>1, StoresAreHealthy DEF Retrieve, HealthyHasNoError, Healthy
  <2>2. ASSUME NEW r \in Operations, Dispatches(r) PROVE HealthyHasNoError'
    <3>1. store' \in {AdoptedStore(r), RefusedStore(r)}
      BY <2>2 DEF Dispatches, Redeliver, JoinInFlight, Refuse, Proceed
    <3> QED
      BY <3>1, StoresAreHealthy DEF Requests, HealthyHasNoError, Healthy
  <2>3. ASSUME NEW r \in Operations, PostAcked(r) PROVE HealthyHasNoError'
    BY <2>3 DEF PostAcked, AcceptedStore, TypeOK, Entries, HealthyHasNoError
  <2>4. ASSUME NEW r \in Operations, UnexpectedArrives(r) \/ ConfirmTimeout(r)
        PROVE HealthyHasNoError'
    BY <2>4, EndIsHealthy DEF UnexpectedArrives, ConfirmTimeout, Statuses, Reasons, Healthy
  <2>5. ASSUME NEW r \in Operations, TerminateEnds(r) PROVE HealthyHasNoError'
    BY <2>5, EndIsHealthy DEF TerminateEnds, TypeOK, Entries, Statuses, Healthy
  <2>6. ASSUME NEW r \in Operations, DataPlaneReaches(r) PROVE HealthyHasNoError'
    <3>1. SuccessStatus(r) \in Statuses /\ NoError \in Reasons
      BY DEF SuccessStatus, Statuses, Reasons
    <3> QED
      BY <2>6, <3>1, EndIsHealthy DEF DataPlaneReaches
  <2>7. ASSUME NEW r \in Operations, DataPlaneErrs(r) \/ DataPlaneMissed(r)
        PROVE HealthyHasNoError'
    <3>1. {"event", "operation"} \subseteq Reasons /\ "FAILED" \in Statuses
      BY DEF Reasons, Statuses
    <3>2. PICK lastError \in Reasons : Ends(r, "FAILED", lastError)
      BY <2>7, <3>1 DEF DataPlaneErrs, DataPlaneMissed
    <3> QED
      BY <3>1, <3>2, EndIsHealthy DEF Healthy
  <2>8. CASE Crash
    BY <2>8 DEF Crash, NoEntry, HealthyHasNoError
  <2>9. CASE UNCHANGED store
    BY <2>9 DEF HealthyHasNoError
  <2>10. ASSUME NEW r \in Requests, StartRefresh(r) \/ Refreshes(r) PROVE HealthyHasNoError'
    BY <2>10, <2>1, <2>9 DEF StartRefresh, Refreshes, SummaryAnswered, NotificationsAnswered,
                             ResultsAnswered, SummaryFails, NotFound
  <2>11. ASSUME NEW r \in Operations, Posts(r) PROVE HealthyHasNoError'
    BY <2>11, <2>3, <2>9 DEF Posts, PostFails, PostGarbled
  <2>12. ASSUME NEW r \in Operations, Completes(r) PROVE HealthyHasNoError'
    BY <2>12, <2>4, <2>5, <2>6, <2>7, <2>9
       DEF Completes, ConfirmArrives, DataPlaneDiffers, DataPlaneTimeout, WatchCancelled,
           HistoryAnswered, DataPlaneMissed, Redelivers
  <2>13. ASSUME NEW m \in net, DeliverAnswer(m) \/ DeliverNotification(m)
         PROVE HealthyHasNoError'
    BY <2>13, <2>9 DEF DeliverAnswer, DeliverNotification
  <2>14. CASE Environment \/ UNCHANGED vars
    BY <2>14, <2>9 DEF Environment, ProxyUnchanged, vars
  <2> QED
    BY <2>2, <2>8, <2>10, <2>11, <2>12, <2>13, <2>14 DEF Next
<1> QED
  BY <1>1, <1>2, TypeCorrect, PTL DEF Spec

(***************************************************************************)
(* The answer to a posted request finds its future.                        *)
(***************************************************************************)
LEMMA RepliedIsDone ==
    ASSUME TypeOK, NEW r \in Requests, NEW code, Replies(r, code)
    PROVE  \A o \in Operations : pc'[o] = IF o = r THEN "done" ELSE pc[o]
BY RequestsAssumption DEF Replies, TypeOK, Requests, Listings

\* A completion task exists only when its handler has replied, so the clean-up of a failed post
\* cannot take the future from under it.
TasksFollowReplies == \A r \in Operations : task[r] # "none" => pc[r] = "done"

LEMMA TasksAfterReplies == Spec => []TasksFollowReplies
<1> USE DEF TasksFollowReplies, taskVars, handlerVars
<1>1. Init => TasksFollowReplies
  BY DEF Init
<1>2. TypeOK /\ TasksFollowReplies /\ [Next]_vars => TasksFollowReplies'
  <2> SUFFICES ASSUME TypeOK, TasksFollowReplies, [Next]_vars PROVE TasksFollowReplies'
    OBVIOUS
  <2>1. ASSUME NEW r \in Requests, StartRefresh(r) PROVE TasksFollowReplies'
    BY <2>1 DEF StartRefresh, TypeOK
  <2>2. ASSUME NEW r \in Requests, Refreshes(r) PROVE TasksFollowReplies'
    <3>1. CASE SummaryAnswered(r) \/ NotificationsAnswered(r)
      BY <3>1 DEF SummaryAnswered, NotificationsAnswered
    <3>2. CASE ResultsAnswered(r)
      BY <3>2 DEF ResultsAnswered, Found, TypeOK
    <3>3. CASE SummaryFails(r) \/ NotFound(r) \/ Retrieve(r)
      BY <3>3, RepliedIsDone DEF SummaryFails, NotFound, Retrieve
    <3> QED
      BY <2>2, <3>1, <3>2, <3>3 DEF Refreshes
  <2>3. ASSUME NEW r \in Operations, Dispatches(r) PROVE TasksFollowReplies'
    <3>1. CASE Redeliver(r) \/ JoinInFlight(r) \/ Refuse(r)
      BY <3>1, RepliedIsDone DEF Redeliver, JoinInFlight, Refuse, TypeOK, Requests
    <3>2. CASE Proceed(r)
      BY <3>2 DEF Proceed, Refreshed, Found, TypeOK
    <3> QED
      BY <2>3, <3>1, <3>2 DEF Dispatches
  <2>4. ASSUME NEW r \in Operations, Posts(r) PROVE TasksFollowReplies'
    BY <2>4, RepliedIsDone DEF Posts, PostAcked, PostFails, PostGarbled, TypeOK, Requests
  <2>5. ASSUME NEW r \in Operations, Completes(r) PROVE TasksFollowReplies'
    BY <2>5
       DEF Completes, ConfirmArrives, UnexpectedArrives, ConfirmTimeout, TerminateEnds,
           DataPlaneReaches, DataPlaneErrs, DataPlaneDiffers, DataPlaneTimeout, WatchCancelled,
           HistoryAnswered, DataPlaneMissed, Redelivers, WatchesDataPlane, Ends, TypeOK, RunningTasks
  <2>6. CASE Crash
    <3> SUFFICES ASSUME NEW r \in Operations, task'[r] # "none" PROVE pc'[r] = "done"
      OBVIOUS
    <3>1. r # Boot /\ r \in Requests
      BY RequestsAssumption DEF Requests, Listings
    <3>2. task[r] # "none"
      BY <2>6 DEF Crash, RunningTasks
    <3> QED
      BY <2>6, <3>1, <3>2 DEF Crash
  <2>7. CASE UNCHANGED <<pc, task>>
    BY <2>7
  <2> QED
    BY <2>1, <2>2, <2>3, <2>4, <2>5, <2>6, <2>7
       DEF Next, vars, DeliverAnswer, DeliverNotification, Environment, ProxyUnchanged
<1> QED
  BY <1>1, <1>2, TypeCorrect, PTL DEF Spec

\* The future of a posted request is registered before the post, taken once by its answer, and
\* cancelled only by the operation it belongs to.
THEOREM AnswersFind == Spec => []AnswersFindTheirWaiter
<1> USE DEF AnswersFindTheirWaiter, taskVars, handlerVars, futureVars
<1>1. Init => AnswersFindTheirWaiter
  BY RequestsAssumption DEF Init, Requests, Listings
<1>2. /\ TypeOK /\ TasksFollowReplies /\ AnswersFindTheirWaiter
      /\ [Next]_vars
      => AnswersFindTheirWaiter'
  <2> SUFFICES ASSUME TypeOK, TasksFollowReplies, AnswersFindTheirWaiter, [Next]_vars
               PROVE  AnswersFindTheirWaiter'
    OBVIOUS
  <2> USE DEF TasksFollowReplies
  <2>1. ASSUME NEW r \in Requests, StartRefresh(r) PROVE AnswersFindTheirWaiter'
    BY <2>1 DEF StartRefresh, TypeOK
  <2>2. ASSUME NEW r \in Requests, Refreshes(r) PROVE AnswersFindTheirWaiter'
    <3>1. CASE SummaryAnswered(r) \/ NotificationsAnswered(r)
      BY <3>1 DEF SummaryAnswered, NotificationsAnswered
    <3>2. CASE ResultsAnswered(r)
      BY <3>2 DEF ResultsAnswered, TypeOK
    <3>3. CASE SummaryFails(r) \/ NotFound(r) \/ Retrieve(r)
      BY <3>3, RepliedIsDone DEF SummaryFails, NotFound, Retrieve
    <3> QED
      BY <2>2, <3>1, <3>2, <3>3 DEF Refreshes
  <2>3. ASSUME NEW r \in Operations, Redeliver(r) \/ JoinInFlight(r) \/ Refuse(r)
        PROVE  AnswersFindTheirWaiter'
    BY <2>3, RepliedIsDone DEF Redeliver, JoinInFlight, Refuse, Requests, TypeOK
  <2>4. ASSUME NEW r \in Operations, Proceed(r) PROVE AnswersFindTheirWaiter'
    BY <2>4 DEF Proceed, Registered, TypeOK
  <2>5. ASSUME NEW r \in Operations, PostAcked(r) PROVE AnswersFindTheirWaiter'
    BY <2>5, RepliedIsDone DEF PostAcked, Requests, TypeOK
  <2>6. ASSUME NEW r \in Operations, PostFails(r) \/ PostGarbled(r)
        PROVE  AnswersFindTheirWaiter'
    BY <2>6, RepliedIsDone DEF PostFails, PostGarbled, Requests, TypeOK
  <2>7. ASSUME NEW r \in Operations, ConfirmArrives(r) PROVE AnswersFindTheirWaiter'
    BY <2>7 DEF ConfirmArrives, WatchesDataPlane, TypeOK
  <2>8. ASSUME NEW r \in Operations,
               UnexpectedArrives(r) \/ ConfirmTimeout(r) \/ TerminateEnds(r)
        PROVE  AnswersFindTheirWaiter'
    BY <2>8 DEF UnexpectedArrives, ConfirmTimeout, TerminateEnds, Ends, TypeOK
  <2>9. ASSUME NEW r \in Operations,
               \/ DataPlaneReaches(r) \/ DataPlaneErrs(r) \/ DataPlaneDiffers(r)
               \/ DataPlaneTimeout(r) \/ WatchCancelled(r) \/ HistoryAnswered(r)
               \/ DataPlaneMissed(r) \/ Redelivers(r)
        PROVE  AnswersFindTheirWaiter'
    BY <2>9 DEF DataPlaneReaches, DataPlaneErrs, DataPlaneDiffers, DataPlaneTimeout,
                WatchCancelled, HistoryAnswered, DataPlaneMissed, Redelivers, WatchesDataPlane, Ends, TypeOK
  <2>10. ASSUME NEW m \in net, DeliverAnswer(m) PROVE AnswersFindTheirWaiter'
    <3>1. m.to \in Operations /\ m.kind \in {"confirmed", "unexpected"}
      BY <2>10 DEF DeliverAnswer, TypeOK, AggTypeOK, Messages
    <3> QED
      BY <2>10, <3>1 DEF DeliverAnswer, Resolved, TypeOK
  <2>11. CASE Crash
    <3>1. \A r \in Operations : pc'[r] # "posting" /\ task'[r] # "confirming"
      BY <2>11, RequestsAssumption DEF Crash, RunningTasks, Requests, Listings
    <3> QED
      BY <3>1
  <2>12. CASE UNCHANGED <<pc, task, future, pending>>
    BY <2>12
  <2> QED
    BY <2>1, <2>2, <2>3, <2>4, <2>5, <2>6, <2>7, <2>8, <2>9, <2>10, <2>11, <2>12
       DEF Next, Dispatches, Posts, Completes, vars, DeliverNotification, Environment,
           ProxyUnchanged
<1> QED
  BY <1>1, <1>2, TypeCorrect, TasksAfterReplies, PTL DEF Spec

(***************************************************************************)
(* A refused terminate receives nothing.                                   *)
(***************************************************************************)
\* A terminate that has not been dispatched yet is nobody's callbackURL either, and a terminate
\* that re-delivers was accepted.
RefusedInv == \A t \in Terminates :
    /\ reply[t] # "none" => pc[t] = "done"
    /\ task[t] = "redelivering" => reply[t] \notin {"404", "409"}
    /\ pc[t] \in {"idle", "refreshing", "refined"} \/ reply[t] \in {"404", "409"} =>
           store.callbackUrl # t /\ \A rep \in reports : rep.to # t

LEMMA RepliedWith ==
    ASSUME TypeOK, NEW r \in Requests, NEW code, Replies(r, code)
    PROVE  \A o \in Operations : reply'[o] = IF o = r THEN code ELSE reply[o]
BY DEF Replies, TypeOK

LEMMA EndKeepsUrl ==
    ASSUME TypeOK, NEW r \in Operations, NEW status, NEW lastError, Ends(r, status, lastError)
    PROVE  /\ store'.callbackUrl = store.callbackUrl
           /\ \A rep \in reports' : rep \in reports \/ rep.to = store.callbackUrl
           /\ \A o \in Operations : task'[o] = "redelivering" => task[o] = "redelivering"
BY DEF Ends, Report, TypeOK, Entries

\* A terminate that was answered 404 or 409 is never sent the result of the operation that it met:
\* terminate adopts the callbackURL only after its guard (terminate_reservation).
THEOREM RefusedGetNothing == Spec => []RefusedTerminateGetsNoResult
<1> USE DEF RefusedInv, taskVars, handlerVars, futureVars, Operations
<1>1. Init => RefusedInv
  BY OperationsAssumption DEF Init, NoEntry
<1>2. TypeOK /\ TasksFollowReplies /\ RefusedInv /\ [Next]_vars => RefusedInv'
  <2> SUFFICES ASSUME TypeOK, TasksFollowReplies, RefusedInv, [Next]_vars PROVE RefusedInv'
    OBVIOUS
  <2>1. ASSUME NEW r \in Requests, StartRefresh(r) PROVE RefusedInv'
    BY <2>1 DEF StartRefresh, TypeOK
  <2>2. ASSUME NEW r \in Requests, Refreshes(r) PROVE RefusedInv'
    <3>1. CASE SummaryAnswered(r) \/ NotificationsAnswered(r)
      BY <3>1 DEF SummaryAnswered, NotificationsAnswered
    <3>2. CASE ResultsAnswered(r)
      BY <3>2 DEF ResultsAnswered, Found, TypeOK
    <3>3. CASE SummaryFails(r)
      BY <3>3, RepliedIsDone, RepliedWith DEF SummaryFails
    <3>4. CASE NotFound(r)
      BY <3>4, RepliedIsDone, RepliedWith DEF NotFound, TasksFollowReplies
    <3>5. CASE Retrieve(r)
      BY <3>5, RepliedIsDone, RepliedWith DEF Retrieve, RefreshedStore
    <3> QED
      BY <2>2, <3>1, <3>2, <3>3, <3>4, <3>5 DEF Refreshes
  <2>3. ASSUME NEW r \in Operations, Dispatches(r) PROVE RefusedInv'
    <3>1. pc[r] \in {"refreshing", "refined"}
      BY <2>3 DEF Dispatches, Redeliver, JoinInFlight, Refuse, Proceed, Refreshed, Found
    <3>2. CASE Redeliver(r)
      BY <3>2, RepliedIsDone, RepliedWith DEF Redeliver, AdoptedStore, RefreshedStore, TypeOK, Requests
    <3>3. CASE JoinInFlight(r)
      BY <3>1, <3>3, RepliedIsDone, RepliedWith
         DEF JoinInFlight, AdoptedStore, RefreshedStore, Requests, TasksFollowReplies
    <3>4. CASE Refuse(r)
      <4>1. store'.callbackUrl = IF r \in Terminates THEN store.callbackUrl ELSE r
        BY <3>4 DEF Refuse, RefusedStore, AdoptedStore, RefreshedStore
      <4> QED
        BY <3>1, <3>4, <4>1, RepliedIsDone, RepliedWith DEF Refuse, Requests, TasksFollowReplies
    <3>5. CASE Proceed(r)
      <4>1. /\ store'.callbackUrl = r
            /\ pc' = [pc EXCEPT ![r] = "posting"]
            /\ UNCHANGED <<reply, task, reports>>
        BY <3>5 DEF Proceed, AdoptedStore, RefreshedStore
      <4>2. pc'[r] = "posting" /\ \A o \in Operations \ {r} : pc'[o] = pc[o]
        BY <4>1 DEF TypeOK, Requests
      <4>3. r \in Terminates => reply[r] = "none"
        BY <3>1
      <4> QED
        BY <4>1, <4>2, <4>3
    <3> QED
      BY <2>3, <3>2, <3>3, <3>4, <3>5 DEF Dispatches
  <2>4. ASSUME NEW r \in Operations, Posts(r) PROVE RefusedInv'
    <3>1. CASE PostAcked(r)
      <4>1. store'.callbackUrl = store.callbackUrl
        BY <3>1 DEF PostAcked, AcceptedStore, TypeOK, Entries
      <4> QED
        BY <3>1, <4>1, RepliedIsDone, RepliedWith DEF PostAcked, Requests, TypeOK
    <3>2. CASE PostFails(r) \/ PostGarbled(r)
      BY <3>2, RepliedIsDone, RepliedWith
         DEF PostFails, PostGarbled, Requests, TasksFollowReplies
    <3> QED
      BY <2>4, <3>1, <3>2 DEF Posts
  <2>5. ASSUME NEW r \in Operations, NEW status, NEW lastError, Ends(r, status, lastError),
               UNCHANGED <<pc, reply>>
        PROVE  RefusedInv'
    BY <2>5, EndKeepsUrl
  <2>6. ASSUME NEW r \in Operations, Completes(r) PROVE RefusedInv'
    <3>1. CASE \/ UnexpectedArrives(r) \/ ConfirmTimeout(r) \/ TerminateEnds(r)
               \/ DataPlaneReaches(r) \/ DataPlaneErrs(r) \/ DataPlaneMissed(r)
      BY <2>5, <3>1 DEF UnexpectedArrives, ConfirmTimeout, TerminateEnds, DataPlaneReaches,
                        DataPlaneErrs, DataPlaneMissed
    <3>2. CASE \/ ConfirmArrives(r) \/ DataPlaneDiffers(r) \/ DataPlaneTimeout(r) \/ WatchCancelled(r)
               \/ HistoryAnswered(r)
      BY <3>2 DEF ConfirmArrives, DataPlaneDiffers, DataPlaneTimeout, WatchCancelled,
                  HistoryAnswered, WatchesDataPlane, TypeOK
    <3>3. CASE Redelivers(r)
      BY <3>3 DEF Redelivers, TypeOK, TasksFollowReplies
    <3> QED
      BY <2>6, <3>1, <3>2, <3>3 DEF Completes
  <2>7. CASE Crash
    <3>1. store'.callbackUrl = NoRequest
      BY <2>7 DEF Crash, NoEntry
    <3>2. \A t \in Terminates : t # Boot /\ t \in Requests
      BY RequestsAssumption DEF Requests, Listings
    <3> QED
      BY <2>7, <3>1, <3>2, OperationsAssumption DEF Crash, TypeOK, RunningTasks
  <2>8. CASE UNCHANGED <<pc, reply, task, store, reports>>
    BY <2>8
  <2> QED
    BY <2>1, <2>2, <2>3, <2>4, <2>6, <2>7, <2>8
       DEF Next, vars, DeliverAnswer, DeliverNotification, Environment, ProxyUnchanged
<1>3. RefusedInv => RefusedTerminateGetsNoResult
  BY DEF RefusedTerminateGetsNoResult
<1> QED
  BY <1>1, <1>2, <1>3, TypeCorrect, TasksAfterReplies, PTL DEF Spec

(***************************************************************************)
(* Success is earned.                                                      *)
(***************************************************************************)
\* Until the first restart a task that watches the data plane has its confirmation, and whoever
\* reported is done: nothing touches its futures any more.
Earned(rep) ==
    /\ task[rep.by] = "done"
    /\ \/ rep.by \in Terminates
       \/ rep.status = "FAILED"
       \/ future[rep.by] = "confirmed" /\ dpFuture[rep.by] = Target(rep.by)

EarnedInv == crashes = 0 =>
    /\ \A r \in Operations : task[r] = "watching" => future[r] = "confirmed"
    /\ \A rep \in reports : ~rep.again => Earned(rep)

\* A step keeps EarnedInv if it leaves the futures of the tasks that are watching or done alone.
LEMMA EarnedStays ==
    ASSUME TypeOK, EarnedInv, reports' = reports, crashes' = 0 => crashes = 0,
           \A r \in Operations :
              /\ task'[r] = "watching" =>
                    \/ future'[r] = "confirmed"
                    \/ task[r] = "watching" /\ future'[r] = future[r]
              /\ task[r] = "done" =>
                    /\ task'[r] = "done"
                    /\ future[r] = "confirmed" => future'[r] = "confirmed"
                    /\ dpFuture[r] = Target(r) => dpFuture'[r] = Target(r)
    PROVE  EarnedInv'
<1> SUFFICES ASSUME crashes' = 0 PROVE EarnedInv'
  BY DEF EarnedInv
<1>1. \A r \in Operations : task'[r] = "watching" => future'[r] = "confirmed"
  BY DEF EarnedInv
<1>2. ASSUME NEW rep \in reports, ~rep.again PROVE Earned(rep)'
  <2>1. rep.by \in Operations
    BY DEF TypeOK, Reports
  <2>2. Earned(rep)
    BY <1>2 DEF EarnedInv
  <2> QED
    BY <2>1, <2>2 DEF Earned
<1> QED
  BY <1>1, <1>2 DEF EarnedInv

LEMMA EarnedEnd ==
    ASSUME TypeOK, EarnedInv, NEW r \in Operations, NEW status \in Statuses, NEW lastError \in Reasons,
           Ends(r, status, lastError), crashes' = crashes, dpFuture' = dpFuture,
           \A o \in Operations : future[o] = "confirmed" => future'[o] = "confirmed",
           \/ status = "FAILED" \/ r \in Terminates
           \/ task[r] = "watching" /\ dpFuture[r] = Target(r)
    PROVE  EarnedInv'
<1> SUFFICES ASSUME crashes = 0 PROVE EarnedInv'
  BY DEF EarnedInv
<1>1. task'[r] = "done" /\ \A o \in Operations \ {r} : task'[o] = task[o]
  BY DEF Ends, TypeOK
<1>2. \A o \in Operations : task'[o] = "watching" => future'[o] = "confirmed"
  BY <1>1 DEF EarnedInv
<1>3. ASSUME NEW rep \in reports, ~rep.again PROVE Earned(rep)'
  <2>1. rep.by \in Operations
    BY DEF TypeOK, Reports
  <2>2. Earned(rep)
    BY <1>3 DEF EarnedInv
  <2> QED
    BY <1>1, <2>1, <2>2 DEF Earned
<1>4. ASSUME NEW rep, rep = Report(r) PROVE Earned(rep)'
  <2>1. rep.by = r /\ rep.status = status
    BY <1>4 DEF Report, Ends, TypeOK, Entries
  <2>2. task[r] = "watching" => future'[r] = "confirmed"
    BY DEF EarnedInv
  <2> QED
    BY <1>1, <2>1, <2>2 DEF Earned
<1>5. ASSUME NEW rep \in reports', ~rep.again PROVE Earned(rep)'
  BY <1>3, <1>4, <1>5 DEF Ends
<1> QED
  BY <1>2, <1>5 DEF EarnedInv

\* As long as the process does not restart, a provision or a release reports success only after its
\* own confirmation and the state of the data plane it waits for, whoever registers, resolves or
\* cancels futures beside it (_complete_provision, _complete_release).
THEOREM SuccessEarned == Spec => []SuccessIsEarned
<1> USE DEF taskVars, handlerVars, futureVars
<1>1. Init => EarnedInv
  BY DEF Init, EarnedInv
<1>2. TypeOK /\ TasksFollowReplies /\ EarnedInv /\ [Next]_vars => EarnedInv'
  <2> SUFFICES ASSUME TypeOK, TasksFollowReplies, EarnedInv, [Next]_vars PROVE EarnedInv'
    OBVIOUS
  <2>1. CASE UNCHANGED <<task, future, dpFuture, reports, crashes>>
    BY <2>1 DEF EarnedInv, Earned
  <2>2. ASSUME NEW r \in Requests, StartRefresh(r) \/ Refreshes(r) PROVE EarnedInv'
    BY <2>1, <2>2 DEF StartRefresh, Refreshes, SummaryAnswered, NotificationsAnswered,
                      ResultsAnswered, SummaryFails, NotFound, Retrieve
  <2>3. ASSUME NEW r \in Operations, Dispatches(r) PROVE EarnedInv'
    <3>1. task[r] = "none"
      BY <2>3 DEF Dispatches, Redeliver, JoinInFlight, Refuse, Proceed, Refreshed, Found,
                  TasksFollowReplies
    <3>2. CASE JoinInFlight(r) \/ Refuse(r)
      BY <2>1, <3>2 DEF JoinInFlight, Refuse
    <3>3. CASE Redeliver(r)
      BY <3>1, <3>3, EarnedStays DEF Redeliver, EarnedInv, TypeOK
    <3>4. CASE Proceed(r)
      BY <3>1, <3>4, EarnedStays DEF Proceed, EarnedInv, TypeOK
    <3> QED
      BY <2>3, <3>2, <3>3, <3>4 DEF Dispatches
  <2>4. ASSUME NEW r \in Operations, Posts(r) PROVE EarnedInv'
    <3>1. pc[r] = "posting" /\ task[r] = "none"
      BY <2>4 DEF Posts, PostAcked, PostFails, PostGarbled, TasksFollowReplies
    <3>2. CASE PostAcked(r)
      BY <3>1, <3>2, EarnedStays DEF PostAcked, EarnedInv, TypeOK
    <3>3. CASE PostFails(r)
      BY <3>1, <3>3, EarnedStays DEF PostFails, Cancelled, EarnedInv, TypeOK
    <3>4. CASE PostGarbled(r)
      BY <2>1, <3>4 DEF PostGarbled
    <3> QED
      BY <2>4, <3>2, <3>3, <3>4 DEF Posts
  <2>5. ASSUME NEW r \in Operations, Completes(r) PROVE EarnedInv'
    <3>1. CASE ConfirmArrives(r)
      BY <3>1, EarnedStays DEF ConfirmArrives, WatchesDataPlane, EarnedInv, TypeOK
    <3>2. CASE UnexpectedArrives(r)
      BY <3>2, EarnedEnd DEF UnexpectedArrives, Statuses, Reasons
    <3>3. CASE ConfirmTimeout(r)
      BY <3>3, EarnedEnd DEF ConfirmTimeout, Cancelled, TypeOK, Statuses, Reasons
    <3>4. CASE TerminateEnds(r)
      BY <3>4, EarnedEnd DEF TerminateEnds, Cancelled, TypeOK, Entries, Statuses
    <3>5. CASE DataPlaneReaches(r)
      <4>1. SuccessStatus(r) \in Statuses /\ NoError \in Reasons
        BY DEF SuccessStatus, Statuses, Reasons
      <4> QED
        BY <3>5, <4>1, EarnedEnd DEF DataPlaneReaches
    <3>6. CASE DataPlaneErrs(r)
      BY <3>6, EarnedEnd DEF DataPlaneErrs, Statuses, Reasons
    <3>12. CASE HistoryAnswered(r)
      BY <3>12, EarnedStays DEF HistoryAnswered, EarnedInv, TypeOK
    <3>7. CASE DataPlaneMissed(r)
      <4>1. {"event", "operation"} \subseteq Reasons /\ "FAILED" \in Statuses
        BY DEF Reasons, Statuses
      <4>2. PICK lastError \in Reasons : Ends(r, "FAILED", lastError)
        BY <3>7, <4>1 DEF DataPlaneMissed
      <4> QED
        BY <3>7, <4>1, <4>2, EarnedEnd DEF DataPlaneMissed
    <3>8. CASE DataPlaneDiffers(r)
      BY <3>8, EarnedStays DEF DataPlaneDiffers, WatchesDataPlane, EarnedInv, TypeOK
    <3>9. CASE DataPlaneTimeout(r)
      BY <3>9, EarnedStays DEF DataPlaneTimeout, Cancelled, Target, EarnedInv, TypeOK
    <3>10. CASE WatchCancelled(r)
      BY <3>10, EarnedStays DEF WatchCancelled, EarnedInv, TypeOK
    <3>11. CASE Redelivers(r)
      BY <3>11 DEF Redelivers, EarnedInv, Earned, TypeOK, Reports
    <3> QED
      BY <2>5, <3>1, <3>2, <3>3, <3>4, <3>5, <3>6, <3>7, <3>8, <3>9, <3>10, <3>11, <3>12 DEF Completes
  <2>6. ASSUME NEW m \in net, DeliverAnswer(m) PROVE EarnedInv'
    BY <2>6, EarnedStays DEF DeliverAnswer, Resolved, EarnedInv, TypeOK
  <2>7. ASSUME NEW m \in net, DeliverNotification(m) PROVE EarnedInv'
    BY <2>7, EarnedStays DEF DeliverNotification, Resolved, Target, EarnedInv, TypeOK
  <2>8. CASE Crash
    BY <2>8 DEF Crash, EarnedInv, TypeOK
  <2> QED
    BY <2>1, <2>2, <2>3, <2>4, <2>5, <2>6, <2>7, <2>8
       DEF Next, vars, Environment, ProxyUnchanged
<1>3. EarnedInv => SuccessIsEarned
  BY DEF EarnedInv, Earned, SuccessIsEarned
<1> QED
  BY <1>1, <1>2, <1>3, TypeCorrect, TasksAfterReplies, PTL DEF Spec

\* What the mapping needs: a handler has replied when it is done, it has open queries only while it
\* refreshes, and a terminate never waits for the data plane.
HandlersInv == \A r \in Operations :
    /\ pc[r] = "done" <=> reply[r] # "none"
    /\ asked[r] # {} => pc[r] = "refreshing"
    /\ task[r] \in RunningTasks \ {"confirming"} => r \notin Terminates

LEMMA HandlersKept == Spec => []HandlersInv
<1> USE DEF HandlersInv, taskVars, handlerVars
<1>1. Init => HandlersInv
  BY RequestsAssumption DEF Init, Requests, Listings, RunningTasks
<1>2. TypeOK /\ TasksFollowReplies /\ HandlersInv /\ [Next]_vars => HandlersInv'
  <2> SUFFICES ASSUME TypeOK, TasksFollowReplies, HandlersInv, [Next]_vars PROVE HandlersInv'
    OBVIOUS
  <2>1. ASSUME NEW r \in Requests, StartRefresh(r) PROVE HandlersInv'
    BY <2>1 DEF StartRefresh, TypeOK
  <2>2. ASSUME NEW r \in Requests, NEW code, Replies(r, code), code # "none", UNCHANGED task
        PROVE  HandlersInv'
    BY <2>2, RepliedIsDone, RepliedWith DEF Replies, Forgotten, TypeOK, Requests
  <2>3. ASSUME NEW r \in Requests, Refreshes(r) PROVE HandlersInv'
    <3>1. CASE SummaryAnswered(r)
      BY <3>1 DEF SummaryAnswered, TypeOK, Requests
    <3>2. CASE NotificationsAnswered(r)
      BY <3>2 DEF NotificationsAnswered, TypeOK, Requests
    <3>3. CASE ResultsAnswered(r)
      BY <3>3 DEF ResultsAnswered, Found, TypeOK, Requests
    <3>4. CASE SummaryFails(r) \/ NotFound(r) \/ Retrieve(r)
      BY <2>2, <3>4 DEF SummaryFails, NotFound, Retrieve
    <3> QED
      BY <2>3, <3>1, <3>2, <3>3, <3>4 DEF Refreshes
  <2>4. ASSUME NEW r \in Operations, NEW code, Replies(r, code), code # "none",
               NEW next \in {"redelivering", "confirming"}, task' = [task EXCEPT ![r] = next]
        PROVE  HandlersInv'
    BY <2>4, RepliedIsDone, RepliedWith DEF Replies, Forgotten, TypeOK, Requests, RunningTasks
  <2>5. ASSUME NEW r \in Operations, Dispatches(r) PROVE HandlersInv'
    <3>1. CASE Redeliver(r)
      BY <2>4, <3>1 DEF Redeliver
    <3>2. CASE JoinInFlight(r) \/ Refuse(r)
      BY <2>2, <3>2 DEF JoinInFlight, Refuse, Requests
    <3>3. CASE Proceed(r)
      BY <3>3 DEF Proceed, Refreshed, Found, Forgotten, TypeOK, Requests
    <3> QED
      BY <2>5, <3>1, <3>2, <3>3 DEF Dispatches
  <2>6. ASSUME NEW r \in Operations, Posts(r) PROVE HandlersInv'
    <3>1. CASE PostAcked(r)
      BY <2>4, <3>1 DEF PostAcked
    <3>2. CASE PostFails(r) \/ PostGarbled(r)
      BY <2>2, <3>2 DEF PostFails, PostGarbled, Requests
    <3> QED
      BY <2>6, <3>1, <3>2 DEF Posts
  <2>7. ASSUME NEW r \in Operations, Completes(r) PROVE HandlersInv'
    BY <2>7, OperationsAssumption
       DEF Completes, ConfirmArrives, UnexpectedArrives, ConfirmTimeout, TerminateEnds,
           DataPlaneReaches, DataPlaneErrs, DataPlaneDiffers, DataPlaneTimeout, WatchCancelled,
           HistoryAnswered, DataPlaneMissed, Redelivers, WatchesDataPlane, Ends, TypeOK, RunningTasks
  <2>8. CASE Crash
    <3> SUFFICES ASSUME NEW r \in Operations
                 PROVE  /\ pc'[r] = "done" <=> reply'[r] # "none"
                        /\ asked'[r] = {}
                        /\ task'[r] \notin RunningTasks
      BY DEF HandlersInv
    <3>1. r # Boot /\ r \in Requests
      BY RequestsAssumption DEF Requests, Listings
    <3> QED
      BY <2>8, <3>1 DEF Crash, RunningTasks, TypeOK
  <2>9. CASE UNCHANGED <<pc, asked, reply, task>>
    BY <2>9
  <2> QED
    BY <2>1, <2>3, <2>5, <2>6, <2>7, <2>8, <2>9
       DEF Next, vars, DeliverAnswer, DeliverNotification, Environment, ProxyUnchanged
<1> QED
  BY <1>1, <1>2, TypeCorrect, TasksAfterReplies, PTL DEF Spec

(***************************************************************************)
(* The stored reservation is there for whoever needs it: only a restart    *)
(* removes it, and nothing that needs it survives a restart.               *)
(***************************************************************************)
Needs(r) == pc[r] = "posting" \/ task[r] \in RunningTasks \union {"redelivering"}

StoredInv == store.status = "ABSENT" => \A r \in Operations : ~Needs(r)

\* An operation that does not need the reservation yet comes to need it only with the refresh that
\* stores it.
LEMMA StoredStays ==
    ASSUME StoredInv, store'.status = "ABSENT" => store.status = "ABSENT",
           \A r \in Operations : Needs(r)' => Needs(r) \/ store'.status # "ABSENT"
    PROVE  StoredInv'
BY DEF StoredInv

LEMMA RefreshedIsThere ==
    ASSUME TypeOK, NEW r \in Requests, NEW s \in {RefreshedStore(r), AdoptedStore(r), RefusedStore(r)}
    PROVE  s.status # "ABSENT"
<1>1. s.status = Derived(r).status
  BY DEF RefreshedStore, AdoptedStore, RefusedStore
<1> QED
  BY <1>1, DerivedIsTyped DEF Statuses

LEMMA StoredKept == Spec => []StoredInv
<1> USE DEF taskVars, handlerVars
<1>1. Init => StoredInv
  BY RequestsAssumption DEF Init, StoredInv, Needs, Requests, Listings, RunningTasks
<1>2. TypeOK /\ TasksFollowReplies /\ StoredInv /\ [Next]_vars => StoredInv'
  <2> SUFFICES ASSUME TypeOK, TasksFollowReplies, StoredInv, [Next]_vars PROVE StoredInv'
    OBVIOUS
  <2>1. ASSUME store'.status # "ABSENT" PROVE StoredInv'
    BY <2>1 DEF StoredInv
  <2>2. CASE UNCHANGED <<store, pc, task>>
    BY <2>2 DEF StoredInv, Needs
  <2>3. ASSUME NEW r \in Requests, StartRefresh(r) \/ Refreshes(r) PROVE StoredInv'
    <3>1. CASE StartRefresh(r)
      BY <3>1, StoredStays DEF StartRefresh, Needs, TypeOK
    <3>2. CASE SummaryAnswered(r) \/ NotificationsAnswered(r)
      BY <2>2, <3>2 DEF SummaryAnswered, NotificationsAnswered
    <3>3. CASE ResultsAnswered(r)
      BY <3>3, StoredStays DEF ResultsAnswered, Needs, TypeOK
    <3>4. CASE SummaryFails(r) \/ NotFound(r)
      <4>1. UNCHANGED <<store, task>> /\ \A o \in Operations : pc'[o] \in {pc[o], "done"}
        BY <3>4, RepliedIsDone DEF SummaryFails, NotFound
      <4> QED
        BY <4>1, StoredStays DEF Needs
    <3>5. CASE Retrieve(r)
      BY <2>1, <3>5, RefreshedIsThere DEF Retrieve
    <3> QED
      BY <2>3, <3>1, <3>2, <3>3, <3>4, <3>5 DEF Refreshes
  <2>4. ASSUME NEW r \in Operations, Dispatches(r) PROVE StoredInv'
    <3>1. store' \in {AdoptedStore(r), RefusedStore(r)}
      BY <2>4 DEF Dispatches, Redeliver, JoinInFlight, Refuse, Proceed
    <3> QED
      BY <2>1, <3>1, RefreshedIsThere DEF Requests
  <2>5. ASSUME NEW r \in Operations, Posts(r) PROVE StoredInv'
    <3>1. CASE PostAcked(r)
      <4>1. store.status # "ABSENT"
        BY <3>1 DEF PostAcked, StoredInv, Needs
      <4>2. store'.status # "ABSENT"
        BY <3>1, <4>1 DEF PostAcked, AcceptedStore, TypeOK, Entries
      <4> QED
        BY <2>1, <4>2
    <3>2. CASE PostFails(r) \/ PostGarbled(r)
      <4>1. UNCHANGED <<store, task>> /\ \A o \in Operations : pc'[o] \in {pc[o], "done"}
        BY <3>2, RepliedIsDone DEF PostFails, PostGarbled, Requests
      <4> QED
        BY <4>1, StoredStays DEF Needs
    <3> QED
      BY <2>5, <3>1, <3>2 DEF Posts
  <2>6. ASSUME NEW r \in Operations, Completes(r) PROVE StoredInv'
    <3>1. Needs(r)
      BY <2>6
         DEF Completes, ConfirmArrives, UnexpectedArrives, ConfirmTimeout, TerminateEnds,
             DataPlaneReaches, DataPlaneErrs, DataPlaneDiffers, DataPlaneTimeout, WatchCancelled,
             HistoryAnswered, DataPlaneMissed, Redelivers, Needs, RunningTasks
    <3>2. store.status # "ABSENT"
      BY <3>1 DEF StoredInv
    <3>3. ASSUME NEW status, NEW lastError, Ends(r, status, lastError), status # "ABSENT"
          PROVE  store'.status # "ABSENT"
      BY <3>3 DEF Ends, TypeOK, Entries
    <3>4. store'.status # "ABSENT"
      BY <2>6, <3>2, <3>3
         DEF Completes, ConfirmArrives, UnexpectedArrives, ConfirmTimeout, TerminateEnds,
             DataPlaneReaches, DataPlaneErrs, DataPlaneDiffers, DataPlaneTimeout, WatchCancelled,
             HistoryAnswered, DataPlaneMissed, Redelivers, SuccessStatus
    <3> QED
      BY <2>1, <3>4
  <2>7. CASE Crash
    <3> SUFFICES ASSUME NEW r \in Operations PROVE ~Needs(r)'
      BY DEF StoredInv
    <3>1. r # Boot /\ r \in Requests
      BY RequestsAssumption DEF Requests, Listings
    <3> QED
      BY <2>7, <3>1 DEF Crash, Needs, RunningTasks
  <2> QED
    BY <2>2, <2>3, <2>4, <2>5, <2>6, <2>7
       DEF Next, vars, DeliverAnswer, DeliverNotification, Environment, ProxyUnchanged
<1> QED
  BY <1>1, <1>2, TypeCorrect, TasksAfterReplies, PTL DEF Spec

\* Whoever posts, completes or re-delivers finds the reservation in the store.
THEOREM TasksHaveReservation == Spec => []TasksFindTheirReservation
<1>1. StoredInv => TasksFindTheirReservation
  BY DEF StoredInv, Needs, TasksFindTheirReservation, NoEntry
<1> QED
  BY <1>1, StoredKept, PTL

(***************************************************************************)
(* The steps of the promises, pointwise: what a step does to the answers   *)
(* and debts of the operations, and to the results sent.                   *)
(***************************************************************************)
LEMMA NothingPromised ==
    ASSUME \A o \in Operations : AnswerOf(o)' = AnswerOf(o) /\ OwedTo(o)' = OwedTo(o),
           reports' = reports, crashes' = crashes
    PROVE  UNCHANGED Promise!vars
BY DEF Promise!vars

LEMMA AskStep ==
    ASSUME NEW r \in Operations, AnswerOf(r) = "none", AnswerOf(r)' = "asked",
           \A o \in Operations \ {r} : AnswerOf(o)' = AnswerOf(o),
           \A o \in Operations : OwedTo(o)' = OwedTo(o),
           reports' = reports, crashes' = crashes
    PROVE  Promise!Ask(r)
BY DEF Promise!Ask

LEMMA AcceptStep ==
    ASSUME NEW r \in Operations, AnswerOf(r) = "asked", AnswerOf(r)' = "accepted",
           \A o \in Operations \ {r} : AnswerOf(o)' = AnswerOf(o) /\ OwedTo(o)' = OwedTo(o),
           NEW due, OwedTo(r)' = due,
           reports' = reports, crashes' = crashes
    PROVE  Promise!Accept(r, due)
BY DEF Promise!Accept

LEMMA TurnDownStep ==
    ASSUME NEW r \in Operations, AnswerOf(r) = "asked", NEW how, AnswerOf(r)' = how,
           \A o \in Operations \ {r} : AnswerOf(o)' = AnswerOf(o),
           \A o \in Operations : OwedTo(o)' = OwedTo(o),
           reports' = reports, crashes' = crashes
    PROVE  Promise!TurnDown(r, how)
BY DEF Promise!TurnDown

LEMMA TellStep ==
    ASSUME NEW r \in Operations, OwedTo(r) # "nothing", OwedTo(r)' = "nothing",
           \A o \in Operations \ {r} : OwedTo(o)' = OwedTo(o),
           \A o \in Operations : AnswerOf(o)' = AnswerOf(o),
           NEW rep, rep.by = r, rep.second = HasReported(r), reports' = reports \union {rep},
           OwedTo(r) = "result" => rep.status \in OutcomesOf(r), crashes' = crashes
    PROVE  Promise!Tell(r, rep.status)
<1> DEFINE result(one) == <<one.by, one.status, one.second>>
           results == {result(one) : one \in reports}
<1>1. HasReported(r) <=> \E told \in results : told[1] = r
  <2>1. ASSUME NEW one \in reports, one.by = r PROVE \E told \in results : told[1] = r
    <3>1. result(one) \in results /\ result(one)[1] = r
      BY <2>1
    <3> QED
      BY <3>1
  <2>2. ASSUME NEW told \in results, told[1] = r PROVE \E one \in reports : one.by = r
    <3>1. PICK one \in reports : told = result(one)
      OBVIOUS
    <3> QED
      BY <2>2, <3>1
  <2> QED
    BY <2>1, <2>2 DEF HasReported
<1>2. result(rep) = <<r, rep.status, \E told \in results : told[1] = r>>
  BY <1>1 DEF HasReported
<1>3. {result(one) : one \in reports'} = results \union {result(rep)}
  OBVIOUS
<1>4. reports' = reports \union {rep}
  OBVIOUS
<1> HIDE DEF result
<1> QED
  BY <1>2, <1>3 DEF Promise!Tell, Promise!HasBeenTold, result

(***************************************************************************)
(* How the handlers' replies map.                                          *)
(***************************************************************************)
Answered == {"refreshing", "refined", "posting"}

LEMMA OpenIsAsked ==
    ASSUME TypeOK, HandlersInv, NEW r \in Operations, pc[r] \in Answered
    PROVE  AnswerOf(r) = "asked"
BY DEF HandlersInv, AnswerOf, Answered

LEMMA ReplyStep ==
    ASSUME TypeOK, NEW r \in Operations, NEW code \in {"202", "404", "409", "500", "502"},
           Replies(r, code)
    PROVE  /\ \A o \in Operations \ {r} : AnswerOf(o)' = AnswerOf(o)
           /\ AnswerOf(r)' = CASE code = "202" -> "accepted"
                               [] code \in {"404", "409"} -> "refused"
                               [] OTHER -> "failed"
<1>1. /\ \A o \in Operations : pc'[o] = IF o = r THEN "done" ELSE pc[o]
      /\ \A o \in Operations : reply'[o] = IF o = r THEN code ELSE reply[o]
  BY RepliedIsDone DEF Replies, Requests, TypeOK
<1> QED
  BY <1>1 DEF AnswerOf

LEMMA RefusalMaps ==
    ASSUME TypeOK, HandlersInv, NEW r \in Operations, NEW code \in {"404", "409", "500", "502"},
           Replies(r, code), pc[r] \in Answered, UNCHANGED <<task, reports, crashes>>
    PROVE  Promise!Next
<1>1. AnswerOf(r) = "asked"
  BY OpenIsAsked
<1>2. /\ AnswerOf(r)' \in {"refused", "failed"}
      /\ \A o \in Operations \ {r} : AnswerOf(o)' = AnswerOf(o)
  BY ReplyStep
<1>3. \A o \in Operations : OwedTo(o)' = OwedTo(o)
  BY DEF OwedTo
<1>4. PICK how \in {"refused", "failed"} : AnswerOf(r)' = how
  BY <1>2
<1>5. Promise!TurnDown(r, how)
  BY <1>1, <1>2, <1>3, <1>4, TurnDownStep
<1> QED
  BY <1>5 DEF Promise!Next

LEMMA AcceptanceMaps ==
    ASSUME TypeOK, HandlersInv, TasksFollowReplies, NEW r \in Operations,
           Replies(r, "202"), pc[r] \in Answered, UNCHANGED <<reports, crashes>>,
           \/ task' = task
           \/ \E next \in {"confirming", "redelivering"} : task' = [task EXCEPT ![r] = next]
    PROVE  Promise!Next
<1>1. AnswerOf(r) = "asked"
  BY OpenIsAsked
<1>2. AnswerOf(r)' = "accepted" /\ \A o \in Operations \ {r} : AnswerOf(o)' = AnswerOf(o)
  BY ReplyStep
<1>3. \A o \in Operations \ {r} : OwedTo(o)' = OwedTo(o)
  BY DEF OwedTo, TypeOK
<1>4. PICK due \in {"nothing", "result", "repeat"} : OwedTo(r)' = due
  BY DEF OwedTo
<1>5. Promise!Accept(r, due)
  BY <1>1, <1>2, <1>3, <1>4, AcceptStep
<1> QED
  BY <1>5 DEF Promise!Next

\* What is left alone by a reader's reply, and by whatever changes no reply and no task.
LEMMA ReaderMaps ==
    ASSUME TypeOK, NEW r \in Requests \ Operations, NEW code, Replies(r, code),
           UNCHANGED <<task, reports, crashes>>
    PROVE  UNCHANGED Promise!vars
<1>1. reply' = reply /\ \A o \in Operations : pc'[o] = pc[o]
  BY RepliedIsDone DEF Replies
<1>2. \A o \in Operations : AnswerOf(o)' = AnswerOf(o) /\ OwedTo(o)' = OwedTo(o)
  BY <1>1 DEF AnswerOf, OwedTo
<1> QED
  BY <1>2, NothingPromised

LEMMA EndMaps ==
    ASSUME TypeOK, NEW r \in Operations, task[r] \in RunningTasks, NEW status, NEW lastError,
           Ends(r, status, lastError), status \in Statuses, status \in OutcomesOf(r),
           UNCHANGED <<pc, reply, crashes>>
    PROVE  Promise!Next
<1>1. OwedTo(r) = "result" /\ OwedTo(r)' = "nothing"
  BY DEF OwedTo, Ends, TypeOK, RunningTasks
<1>2. \A o \in Operations \ {r} : OwedTo(o)' = OwedTo(o)
  BY DEF OwedTo, Ends, TypeOK
<1>3. \A o \in Operations : AnswerOf(o)' = AnswerOf(o)
  BY DEF AnswerOf
<1>4. PICK rep : rep = Report(r)
  OBVIOUS
<1>5. /\ rep.by = r /\ rep.second = HasReported(r) /\ rep.status = status
      /\ reports' = reports \union {rep}
  BY <1>4 DEF Ends, Report, TypeOK, Entries
<1>6. Promise!Tell(r, rep.status)
  BY <1>1, <1>2, <1>3, <1>5, TellStep
<1> QED
  BY <1>5, <1>6 DEF Promise!Next

(***************************************************************************)
(* The refinement.                                                         *)
(***************************************************************************)
\* Every request is answered once, and only an accepted one gets a result, one, that ends its
\* operation: under any interleaving, any faults and any number of restarts.
THEOREM Refines == Spec => KeepsPromises
<1> USE DEF taskVars, handlerVars
<1>1. Init => Promise!Init
  <2> SUFFICES ASSUME Init PROVE Promise!Init
    OBVIOUS
  <2>1. \A r \in Operations : AnswerOf(r) = "none" /\ OwedTo(r) = "nothing"
    BY RequestsAssumption DEF Init, AnswerOf, OwedTo, Requests, Listings, RunningTasks
  <2> QED
    BY <2>1 DEF Init, Promise!Init
<1>2. /\ TypeOK /\ TasksFollowReplies /\ HandlersInv /\ StoredInv
      /\ [Next]_vars
      => [Promise!Next]_(Promise!vars)
  <2> SUFFICES ASSUME TypeOK, TasksFollowReplies, HandlersInv, StoredInv, [Next]_vars
               PROVE  Promise!Next \/ UNCHANGED Promise!vars
    OBVIOUS
  <2> DEFINE Mapped == Promise!Next \/ UNCHANGED Promise!vars
  <2> HIDE DEF Mapped
  <2>1. ASSUME UNCHANGED <<pc, reply, task, reports, crashes>> PROVE Mapped
    BY <2>1, NothingPromised DEF AnswerOf, OwedTo, Mapped
  <2>2. ASSUME NEW r \in Requests, StartRefresh(r) PROVE Mapped
    <3>1. \A o \in Operations : OwedTo(o)' = OwedTo(o)
      BY <2>2 DEF StartRefresh, OwedTo
    <3>2. \A o \in Operations : o # r => AnswerOf(o)' = AnswerOf(o)
      BY <2>2 DEF StartRefresh, AnswerOf, TypeOK
    <3>3. CASE r \in Operations
      <4>1. AnswerOf(r) = "none" /\ AnswerOf(r)' = "asked"
        BY <2>2, <3>3 DEF StartRefresh, AnswerOf, HandlersInv, TypeOK
      <4>2. Promise!Ask(r)
        BY <2>2, <3>1, <3>2, <3>3, <4>1, AskStep DEF StartRefresh
      <4> QED
        BY <3>3, <4>2 DEF Promise!Next, Mapped
    <3>4. CASE r \notin Operations
      BY <2>2, <3>1, <3>2, <3>4, NothingPromised DEF StartRefresh, Mapped
    <3> QED
      BY <3>3, <3>4
  <2>3. ASSUME NEW r \in Requests, NEW code \in {"404", "502"}, Replies(r, code),
               pc[r] \in Answered, UNCHANGED <<task, reports, crashes>>
        PROVE  Mapped
    BY <2>3, RefusalMaps, ReaderMaps DEF Mapped
  <2>4. ASSUME NEW r \in Requests, Refreshes(r) PROVE Mapped
    <3>1. CASE SummaryAnswered(r) \/ NotificationsAnswered(r)
      BY <2>1, <3>1 DEF SummaryAnswered, NotificationsAnswered
    <3>2. CASE ResultsAnswered(r)
      <4>1. \A o \in Operations : AnswerOf(o)' = AnswerOf(o) /\ OwedTo(o)' = OwedTo(o)
        BY <3>2 DEF ResultsAnswered, Found, AnswerOf, OwedTo, TypeOK
      <4> QED
        BY <3>2, <4>1, NothingPromised DEF ResultsAnswered, Mapped
    <3>3. CASE SummaryFails(r)
      <4>1. CASE r \in Operations
        BY <2>3, <3>3, <4>1 DEF SummaryFails, HandlersInv, Answered
      <4>2. CASE r \notin Operations
        BY <3>3, <4>2, ReaderMaps DEF SummaryFails, Mapped
      <4> QED
        BY <4>1, <4>2
    <3>4. CASE NotFound(r)
      BY <2>3, <3>4 DEF NotFound, Answered
    <3>5. CASE Retrieve(r)
      BY <3>5, ReaderMaps DEF Retrieve, Mapped
    <3> QED
      BY <2>4, <3>1, <3>2, <3>3, <3>4, <3>5 DEF Refreshes
  <2>5. ASSUME NEW r \in Operations, Dispatches(r) PROVE Mapped
    <3>1. pc[r] \in Answered
      BY <2>5 DEF Dispatches, Redeliver, JoinInFlight, Refuse, Proceed, Refreshed, Found, Answered
    <3>2. CASE Redeliver(r)
      BY <3>1, <3>2, AcceptanceMaps DEF Redeliver, Mapped
    <3>3. CASE JoinInFlight(r)
      BY <3>1, <3>3, AcceptanceMaps DEF JoinInFlight, Mapped
    <3>4. CASE Refuse(r)
      BY <3>1, <3>4, RefusalMaps DEF Refuse, Mapped
    <3>5. CASE Proceed(r)
      <4>1. \A o \in Operations : AnswerOf(o)' = AnswerOf(o) /\ OwedTo(o)' = OwedTo(o)
        BY <3>1, <3>5 DEF Proceed, AnswerOf, OwedTo, Answered, TypeOK
      <4> QED
        BY <3>5, <4>1, NothingPromised DEF Proceed, Mapped
    <3> QED
      BY <2>5, <3>2, <3>3, <3>4, <3>5 DEF Dispatches
  <2>6. ASSUME NEW r \in Operations, Posts(r) PROVE Mapped
    <3>1. pc[r] \in Answered
      BY <2>6 DEF Posts, PostAcked, PostFails, PostGarbled, Answered
    <3>2. CASE PostAcked(r)
      BY <3>1, <3>2, AcceptanceMaps DEF PostAcked, Mapped
    <3>3. CASE PostFails(r) \/ PostGarbled(r)
      BY <3>1, <3>3, RefusalMaps DEF PostFails, PostGarbled, Mapped
    <3> QED
      BY <2>6, <3>2, <3>3 DEF Posts
  <2>7. ASSUME NEW r \in Operations, Completes(r) PROVE Mapped
    <3> USE DEF OutcomesOf, Statuses
    <3>1. CASE \/ ConfirmArrives(r) \/ DataPlaneDiffers(r) \/ DataPlaneTimeout(r) \/ WatchCancelled(r)
               \/ HistoryAnswered(r)
      <4>1. /\ UNCHANGED <<pc, reply, reports, crashes>>
            /\ \A o \in Operations : OwedTo(o)' = OwedTo(o)
        BY <3>1 DEF ConfirmArrives, DataPlaneDiffers, DataPlaneTimeout, WatchCancelled,
                    HistoryAnswered, WatchesDataPlane, OwedTo, RunningTasks, TypeOK
      <4>2. \A o \in Operations : AnswerOf(o)' = AnswerOf(o)
        BY <4>1 DEF AnswerOf
      <4> QED
        BY <4>1, <4>2, NothingPromised DEF Mapped
    <3>2. CASE UnexpectedArrives(r) \/ ConfirmTimeout(r)
      BY <3>2, EndMaps, OperationsAssumption DEF UnexpectedArrives, ConfirmTimeout, RunningTasks, Mapped
    <3>3. CASE TerminateEnds(r)
      BY <3>3, EndMaps, OperationsAssumption DEF TerminateEnds, RunningTasks, Mapped
    <3>4. CASE DataPlaneReaches(r)
      <4>1. r \notin Terminates
        BY <3>4 DEF DataPlaneReaches, HandlersInv, RunningTasks
      <4>2. SuccessStatus(r) \in Statuses /\ SuccessStatus(r) \in OutcomesOf(r)
        BY <4>1, OperationsAssumption DEF SuccessStatus, Operations
      <4> QED
        BY <3>4, <4>2, EndMaps DEF DataPlaneReaches, RunningTasks, Mapped
    <3>5. ASSUME NEW lastError, Ends(r, "FAILED", lastError),
                 task[r] \in RunningTasks \ {"confirming"}, UNCHANGED <<pc, reply, crashes>>
          PROVE  Mapped
      <4>1. r \in (Provisions \union Releases) \ Terminates
        BY <3>5 DEF HandlersInv, Operations
      <4>2. "FAILED" \in OutcomesOf(r)
        BY <4>1, OperationsAssumption
      <4> QED
        BY <3>5, <4>2, EndMaps DEF RunningTasks, Mapped
    <3>6. CASE DataPlaneErrs(r) \/ DataPlaneMissed(r)
      BY <3>5, <3>6 DEF DataPlaneErrs, DataPlaneMissed, RunningTasks
    <3>7. CASE Redelivers(r)
      <4>1. OwedTo(r) = "repeat" /\ OwedTo(r)' = "nothing"
        BY <3>7 DEF Redelivers, OwedTo, RunningTasks, TypeOK
      <4>2. \A o \in Operations \ {r} : OwedTo(o)' = OwedTo(o)
        BY <3>7 DEF Redelivers, OwedTo, TypeOK
      <4>3. \A o \in Operations : AnswerOf(o)' = AnswerOf(o)
        BY <3>7 DEF Redelivers, AnswerOf
      <4>4. PICK rep : rep = [by |-> r, to |-> r, status |-> store.status,
                              lastError |-> store.lastError, again |-> TRUE,
                              second |-> HasReported(r)]
        OBVIOUS
      <4>5. Promise!Tell(r, rep.status)
        BY <3>7, <4>1, <4>2, <4>3, <4>4, TellStep DEF Redelivers
      <4>6. rep.status \in Statuses
        BY <3>7, <4>4 DEF Redelivers, StoredInv, Needs, TypeOK, Entries
      <4> QED
        BY <4>5, <4>6 DEF Promise!Next, Mapped
    <3> QED
      BY <2>7, <3>1, <3>2, <3>3, <3>4, <3>6, <3>7 DEF Completes
  <2>8. CASE Crash
    <3> DEFINE forgotten == {r \in Operations : task[r] \in RunningTasks \union {"redelivering"}}
    <3>1. \A r \in Operations :
             AnswerOf(r)' = IF AnswerOf(r) = "asked" THEN "lost" ELSE AnswerOf(r)
      <4> TAKE r \in Operations
      <4>1. r # Boot /\ r \in Requests
        BY RequestsAssumption DEF Requests, Listings
      <4>2. /\ pc'[r] = IF pc[r] = "idle" THEN "idle" ELSE "done"
            /\ reply'[r] = IF pc[r] \notin {"idle", "done"} THEN "lost" ELSE reply[r]
        BY <2>8, <4>1 DEF Crash
      <4>3. pc[r] = "done" <=> reply[r] # "none"
        BY DEF HandlersInv
      <4> QED
        BY <4>2, <4>3 DEF AnswerOf, TypeOK
    <3>2. \A r \in Operations : OwedTo(r)' = IF r \in forgotten THEN "nothing" ELSE OwedTo(r)
      BY <2>8 DEF Crash, OwedTo, RunningTasks
    <3>3. crashes' = crashes + 1 /\ reports' = reports
      BY <2>8 DEF Crash
    <3>4. Promise!Restart(forgotten)
      BY <3>1, <3>2, <3>3 DEF Promise!Restart
    <3> QED
      BY <3>4 DEF Promise!Next, Mapped
  <2> QED
    BY <2>1, <2>2, <2>4, <2>5, <2>6, <2>7, <2>8
       DEF Next, vars, DeliverAnswer, DeliverNotification, Environment, ProxyUnchanged, Mapped
<1> QED
  BY <1>1, <1>2, TypeCorrect, TasksAfterReplies, HandlersKept, StoredKept, PTL
     DEF Spec, KeepsPromises, Promise!Spec

(***************************************************************************)
(* A failure without a reason is the aggregator's.  What makes it          *)
(* inductive are the snapshots: one that shows the connection Failed stays *)
(* true enough, because a connection never becomes Created again.          *)
(***************************************************************************)
ExplainedInv ==
    /\ FailureIsExplained
    /\ \A r \in Requests : view[r].lifecycle = "Failed" => agg.lifecycle # "Created"

LEMMA NeverCreatedAgain ==
    ASSUME AggTypeOK, [Next]_vars, agg.lifecycle # "Created"
    PROVE  agg'.lifecycle # "Created"
<1>1. CASE UNCHANGED agg
  BY <1>1
<1>2. CASE AggNext
  <2>1. ASSUME NEW r \in Operations, AggAccepts(r) PROVE agg'.lifecycle # "Created"
    BY <2>1 DEF AggAccepts, Begun, AggTypeOK, AggRecords
  <2>2. ASSUME NEW r \in Operations, AggConfirms(r) PROVE agg'.lifecycle # "Created"
    BY <2>2 DEF AggConfirms, Confirmed, AggTypeOK, AggRecords
  <2>3. CASE DataPlaneUp \/ DataPlaneDown \/ ErrorEvent \/ ForcedEnd \/ Forget \/ SlaPasses
    BY <2>3 DEF DataPlaneUp, DataPlaneDown, ErrorEvent, ForcedEnd, Forget, SlaPasses, AggTypeOK,
                AggRecords
  <2> QED
    BY <1>1, <1>2, <2>1, <2>2, <2>3 DEF AggNext, AggRefuses, AggAnswersUnexpectedly
<1> QED
  BY <1>1, <1>2
     DEF Next, vars, aggVars, StartRefresh, Refreshes, SummaryAnswered, NotificationsAnswered,
         ResultsAnswered, SummaryFails, NotFound, Retrieve, Dispatches, Redeliver, JoinInFlight,
         Refuse, Proceed, Posts, PostAcked, PostFails, PostGarbled, Completes, ConfirmArrives,
         UnexpectedArrives, ConfirmTimeout, TerminateEnds, DataPlaneReaches, DataPlaneErrs,
         DataPlaneDiffers, DataPlaneTimeout, WatchCancelled, HistoryAnswered, DataPlaneMissed, Redelivers,
         DeliverAnswer, DeliverNotification, Environment, Crash

\* A refresh that stores FAILED without a reason has read that the connection is Failed.
LEMMA RefreshedIsExplained ==
    ASSUME TypeOK, NEW r \in Requests, NEW s \in {RefreshedStore(r), AdoptedStore(r), RefusedStore(r)},
           s.status = "FAILED", s.lastError = NoError
    PROVE  view[r].lifecycle = "Failed"
<1>1. RefreshedStore(r).status = "FAILED" /\ RefreshedStore(r).lastError = NoError
  BY DEF RefreshedStore, AdoptedStore, RefusedStore
<1>2. /\ Derived(r).status = "FAILED" /\ Derived(r).reason = NoError
      /\ ~view[r].errors
  BY <1>1 DEF RefreshedStore, ResolveLastError, NoError
<1>3. Base(r) = "FAILED"
  BY <1>2 DEF Derived, Refine, NoError
<1>4. view[r].errors = FALSE
  BY <1>2 DEF TypeOK, AggRecords
<1>5. MapNsiStates(ConnectionStates(view[r]), FALSE) = "FAILED"
  BY <1>3, <1>4 DEF Base
<1> QED
  BY <1>5 DEF MapNsiStates, ConnectionStates, FailedReservations

\* The snapshots of a step are old ones, fresh ones, or blank.
LEMMA SnapshotsComeFromAggregator ==
    ASSUME TypeOK, [Next]_vars, NEW r \in Requests
    PROVE  view'[r].lifecycle \in {view[r].lifecycle, agg.lifecycle, "Unknown"}
<1> USE DEF handlerVars, taskVars
<1>1. Blank.lifecycle = "Unknown"
  BY DEF Blank, ReservedConnection
<1>2. CASE UNCHANGED view
  BY <1>2
<1>3. ASSUME NEW o \in Requests, NEW code, Replies(o, code)
      PROVE  view'[r].lifecycle \in {view[r].lifecycle, agg.lifecycle, "Unknown"}
  BY <1>1, <1>3 DEF Replies, Forgotten, TypeOK
<1>4. ASSUME NEW o \in Requests, Refreshes(o)
      PROVE  view'[r].lifecycle \in {view[r].lifecycle, agg.lifecycle, "Unknown"}
  <2> DEFINE v == view[o]
  <2>0. v \in AggRecords
    BY DEF TypeOK
  <2>1. CASE SummaryAnswered(o)
    BY <2>1 DEF SummaryAnswered, TypeOK, AggRecords
  <2>2. CASE NotificationsAnswered(o)
    <3>1. CASE view' = [view EXCEPT ![o] = [v EXCEPT !.errors = agg.errors, !.upAt = agg.upAt]]
      BY <2>0, <3>1 DEF TypeOK, AggRecords
    <3> QED
      BY <1>2, <2>2, <3>1 DEF NotificationsAnswered
  <2>3. CASE ResultsAnswered(o)
    <3>1. CASE view' = [view EXCEPT ![o] = [v EXCEPT !.provAt = agg.provAt, !.relAt = agg.relAt]]
      BY <2>0, <3>1 DEF TypeOK, AggRecords
    <3> QED
      BY <1>2, <2>3, <3>1 DEF ResultsAnswered
  <2> QED
    BY <1>3, <1>4, <2>1, <2>2, <2>3 DEF Refreshes, SummaryFails, NotFound, Retrieve
<1>5. ASSUME NEW o \in Operations, Dispatches(o)
      PROVE  view'[r].lifecycle \in {view[r].lifecycle, agg.lifecycle, "Unknown"}
  <2>1. CASE Proceed(o)
    BY <1>1, <2>1 DEF Proceed, Forgotten, TypeOK
  <2> QED
    BY <1>3, <1>5, <2>1 DEF Dispatches, Redeliver, JoinInFlight, Refuse, Requests
<1>6. ASSUME NEW o \in Operations, Posts(o)
      PROVE  view'[r].lifecycle \in {view[r].lifecycle, agg.lifecycle, "Unknown"}
  BY <1>3, <1>6 DEF Posts, PostAcked, PostFails, PostGarbled, Requests
<1>7. CASE Crash
  BY <1>1, <1>7 DEF Crash
<1> QED
  BY <1>2, <1>4, <1>5, <1>6, <1>7
     DEF Next, vars, StartRefresh, Completes, ConfirmArrives, UnexpectedArrives, ConfirmTimeout,
         TerminateEnds, DataPlaneReaches, DataPlaneErrs, DataPlaneDiffers, DataPlaneTimeout,
         WatchCancelled, HistoryAnswered, DataPlaneMissed, Redelivers, DeliverAnswer, DeliverNotification,
         Environment, ProxyUnchanged

\* A step that stores FAILED without a reason either found it so, or has read it.
LEMMA FailuresComeFromSnapshots ==
    ASSUME TypeOK, [Next]_vars, store'.status = "FAILED", store'.lastError = NoError
    PROVE  \/ store.status = "FAILED" /\ store.lastError = NoError
           \/ \E r \in Requests : view[r].lifecycle = "Failed"
<1> USE DEF taskVars
<1>1. CASE UNCHANGED store
  BY <1>1
<1>2. ASSUME NEW r \in Requests, Retrieve(r) PROVE view[r].lifecycle = "Failed"
  BY <1>2, RefreshedIsExplained DEF Retrieve
<1>3. ASSUME NEW r \in Operations, Dispatches(r) PROVE view[r].lifecycle = "Failed"
  <2>1. store' \in {AdoptedStore(r), RefusedStore(r)}
    BY <1>3 DEF Dispatches, Redeliver, JoinInFlight, Refuse, Proceed
  <2> QED
    BY <2>1, RefreshedIsExplained DEF Requests
<1>4. ASSUME NEW r \in Operations, PostAcked(r)
      PROVE  store.status = "FAILED" /\ store.lastError = NoError
  BY <1>4 DEF PostAcked, AcceptedStore, TypeOK, Entries
<1>5. ASSUME NEW r \in Operations, NEW status, NEW lastError, Ends(r, status, lastError)
      PROVE  status = "FAILED" /\ lastError = NoError
  BY <1>5 DEF Ends, TypeOK, Entries
<1>6. ASSUME NEW r \in Operations, Completes(r) PROVE UNCHANGED store
  BY <1>5, <1>6
     DEF Completes, ConfirmArrives, UnexpectedArrives, ConfirmTimeout, TerminateEnds,
         DataPlaneReaches, DataPlaneErrs, DataPlaneDiffers, DataPlaneTimeout, WatchCancelled,
         HistoryAnswered, DataPlaneMissed, Redelivers, SuccessStatus, NoError
<1>7. CASE Crash
  BY <1>7 DEF Crash, NoEntry
<1> QED
  BY <1>1, <1>2, <1>3, <1>4, <1>6, <1>7
     DEF Next, vars, StartRefresh, Refreshes, SummaryAnswered, NotificationsAnswered,
         ResultsAnswered, SummaryFails, NotFound, Posts, PostFails, PostGarbled, DeliverAnswer,
         DeliverNotification, Environment, ProxyUnchanged, Requests

\* Whatever stores FAILED without a reason does it for a connection that the aggregator has failed
\* or ended: the proxy's own failures all carry one.
THEOREM FailuresExplained == Spec => []FailureIsExplained
<1>1. Init => ExplainedInv
  BY DEF Init, ExplainedInv, FailureIsExplained, NoEntry, Blank, ReservedConnection
<1>2. TypeOK /\ ExplainedInv /\ [Next]_vars => ExplainedInv'
  <2> SUFFICES ASSUME TypeOK, ExplainedInv, [Next]_vars PROVE ExplainedInv'
    OBVIOUS
  <2>1. agg.lifecycle # "Created" => agg'.lifecycle # "Created"
    BY NeverCreatedAgain DEF TypeOK
  <2>2. ASSUME NEW r \in Requests, view'[r].lifecycle = "Failed" PROVE agg'.lifecycle # "Created"
    <3>1. view[r].lifecycle = "Failed" \/ agg.lifecycle = "Failed"
      BY <2>2, SnapshotsComeFromAggregator
    <3> QED
      BY <2>1, <3>1 DEF ExplainedInv
  <2>3. FailureIsExplained'
    BY <2>1, FailuresComeFromSnapshots DEF ExplainedInv, FailureIsExplained
  <2> QED
    BY <2>2, <2>3 DEF ExplainedInv
<1> QED
  BY <1>1, <1>2, TypeCorrect, PTL DEF Spec, ExplainedInv

(***************************************************************************)
(* Requesters that take turns.  When each waits for the result of the one  *)
(* before, at most one operation is under way: a handler that has not      *)
(* replied, or a task that has not ended.                                  *)
(***************************************************************************)
UnderWay(r) ==
    \/ pc[r] \in {"refreshing", "refined", "posting"}
    \/ task[r] \in RunningTasks \union {"redelivering"}

TurnsInv == \A r, other \in Operations : UnderWay(r) /\ UnderWay(other) => r = other

\* Only its own start gets an operation under way.
LEMMA OnlyStartsGetUnderWay ==
    ASSUME TypeOK, TasksFollowReplies, [Next]_vars, NEW r \in Operations, UnderWay(r)', ~UnderWay(r)
    PROVE  StartRefresh(r)
<1> USE DEF UnderWay, RunningTasks, handlerVars, taskVars
<1>1. ASSUME UNCHANGED <<pc, task>> PROVE FALSE
  BY <1>1
<1>2. ASSUME NEW o \in Requests, NEW code, Replies(o, code), UNCHANGED task PROVE FALSE
  BY <1>2, RepliedIsDone
<1>3. ASSUME NEW o \in Requests, StartRefresh(o) PROVE StartRefresh(r)
  <2>1. CASE o # r
    <3>1. pc'[r] = pc[r] /\ task'[r] = task[r]
      BY <1>3, <2>1 DEF StartRefresh, TypeOK, Requests
    <3> QED
      BY <3>1
  <2> QED
    BY <1>3, <2>1
<1>4. ASSUME NEW o \in Requests, Refreshes(o) PROVE FALSE
  <2>1. CASE ResultsAnswered(o)
    BY <2>1 DEF ResultsAnswered, Found, TypeOK
  <2> QED
    BY <1>1, <1>2, <1>4, <2>1
       DEF Refreshes, SummaryAnswered, NotificationsAnswered, SummaryFails, NotFound, Retrieve
<1>5. ASSUME NEW o \in Operations, Dispatches(o) \/ Posts(o) PROVE FALSE
  <2>1. UnderWay(o)
    BY <1>5 DEF Dispatches, Redeliver, JoinInFlight, Refuse, Proceed, Refreshed, Found, Posts,
                PostAcked, PostFails, PostGarbled
  <2>2. pc'[r] = pc[r] /\ task'[r] = task[r]
    <3>1. r # o
      BY <2>1
    <3> QED
      BY <1>5, <3>1, RepliedIsDone
         DEF Dispatches, Redeliver, JoinInFlight, Refuse, Proceed, Posts, PostAcked, PostFails,
             PostGarbled, TypeOK, Requests
  <2> QED
    BY <2>2
<1>6. ASSUME NEW o \in Operations, Completes(o) PROVE FALSE
  BY <1>6
     DEF Completes, ConfirmArrives, UnexpectedArrives, ConfirmTimeout, TerminateEnds,
         DataPlaneReaches, DataPlaneErrs, DataPlaneDiffers, DataPlaneTimeout, WatchCancelled,
         HistoryAnswered, DataPlaneMissed, Redelivers, WatchesDataPlane, Ends, TypeOK
<1>7. CASE Crash
  <2>1. r # Boot /\ r \in Requests
    BY RequestsAssumption DEF Requests, Listings
  <2> QED
    BY <1>7, <2>1 DEF Crash
<1> QED
  BY <1>1, <1>3, <1>4, <1>5, <1>6, <1>7
     DEF Next, vars, DeliverAnswer, DeliverNotification, Environment, ProxyUnchanged

LEMMA TurnsKept ==
    ASSUME Patience = "result"
    PROVE  Spec => []TurnsInv
<1>1. Init => TurnsInv
  BY RequestsAssumption DEF Init, TurnsInv, UnderWay, RunningTasks, Requests, Listings
<1>2. TypeOK /\ TasksFollowReplies /\ TurnsInv /\ [Next]_vars => TurnsInv'
  <2> SUFFICES ASSUME TypeOK, TasksFollowReplies, TurnsInv, [Next]_vars,
                      NEW r \in Operations, NEW other \in Operations,
                      UnderWay(r)', UnderWay(other)', r # other
               PROVE  FALSE
    BY DEF TurnsInv
  <2>1. ASSUME NEW o \in Operations, StartRefresh(o)
        PROVE  \A x \in Operations \ {o} : ~UnderWay(x) /\ ~UnderWay(x)'
    <3>1. \A x \in Operations \ {o} : ~UnderWay(x)
      BY <2>1 DEF StartRefresh, MayStart, UnderWay, Requests
    <3>2. \A x \in Operations \ {o} : UnderWay(x)' => UnderWay(x)
      BY <2>1 DEF StartRefresh, UnderWay, taskVars, TypeOK, Requests
    <3> QED
      BY <3>1, <3>2
  <2>2. UnderWay(r) /\ UnderWay(other)
    BY <2>1, OnlyStartsGetUnderWay
  <2> QED
    BY <2>2 DEF TurnsInv
<1> QED
  BY <1>1, <1>2, TypeCorrect, TasksAfterReplies, PTL DEF Spec

(***************************************************************************)
(* The watcher of the data plane is the registered one.                    *)
(***************************************************************************)
\* Requesters that take turns never have the wait of one operation overwritten, or cancelled, by
\* another: the notification that comes next wakes the task that waits for it.
THEOREM WatcherRegistered ==
    ASSUME Patience = "result"
    PROVE  Spec => []WatcherIsRegistered
<1> USE DEF WatcherIsRegistered, taskVars, handlerVars, futureVars
<1>1. Init => WatcherIsRegistered
  BY DEF Init
<1>2. TypeOK /\ TurnsInv /\ WatcherIsRegistered /\ [Next]_vars => WatcherIsRegistered'
  <2> SUFFICES ASSUME TypeOK, TurnsInv, WatcherIsRegistered, [Next]_vars
               PROVE  WatcherIsRegistered'
    OBVIOUS
  <2>1. CASE UNCHANGED <<task, dpFuture, waiter>>
    BY <2>1
  <2>2. ASSUME NEW r \in Operations,
               NEW next \in {"redelivering", "confirming", "eventFound", "nothingFound", "done"},
               task' = [task EXCEPT ![r] = next], UNCHANGED <<dpFuture, waiter>>
        PROVE  WatcherIsRegistered'
    BY <2>2 DEF TypeOK
  <2>3. ASSUME NEW r \in Requests, StartRefresh(r) \/ Refreshes(r) PROVE WatcherIsRegistered'
    BY <2>1, <2>3 DEF StartRefresh, Refreshes, SummaryAnswered, NotificationsAnswered,
                      ResultsAnswered, SummaryFails, NotFound, Retrieve
  <2>4. ASSUME NEW r \in Operations, Dispatches(r) \/ Posts(r) PROVE WatcherIsRegistered'
    BY <2>1, <2>2, <2>4 DEF Dispatches, Redeliver, JoinInFlight, Refuse, Proceed, Posts, PostAcked,
                            PostFails, PostGarbled
  <2>5. ASSUME NEW r \in Operations, Completes(r) PROVE WatcherIsRegistered'
    <3>1. CASE \/ UnexpectedArrives(r) \/ ConfirmTimeout(r) \/ TerminateEnds(r)
               \/ DataPlaneReaches(r) \/ DataPlaneErrs(r) \/ HistoryAnswered(r)
               \/ DataPlaneMissed(r) \/ Redelivers(r)
      BY <2>2, <3>1 DEF UnexpectedArrives, ConfirmTimeout, TerminateEnds, DataPlaneReaches,
                        DataPlaneErrs, HistoryAnswered, DataPlaneMissed, Redelivers, Ends
    <3>2. UnderWay(r)
      BY <2>5
         DEF Completes, ConfirmArrives, UnexpectedArrives, ConfirmTimeout, TerminateEnds,
             DataPlaneReaches, DataPlaneErrs, DataPlaneDiffers, DataPlaneTimeout, WatchCancelled,
             HistoryAnswered, DataPlaneMissed, Redelivers, UnderWay, RunningTasks
    <3>3. \A o \in Operations : task[o] = "watching" => o = r
      BY <3>2 DEF TurnsInv, UnderWay, RunningTasks
    <3>4. CASE ConfirmArrives(r) \/ DataPlaneDiffers(r)
      BY <3>3, <3>4 DEF ConfirmArrives, DataPlaneDiffers, WatchesDataPlane, TypeOK
    <3>5. CASE DataPlaneTimeout(r) \/ WatchCancelled(r)
      BY <3>3, <3>5 DEF DataPlaneTimeout, WatchCancelled, TypeOK
    <3> QED
      BY <2>5, <3>1, <3>4, <3>5 DEF Completes
  <2>6. ASSUME NEW m \in net, DeliverAnswer(m) PROVE WatcherIsRegistered'
    BY <2>1, <2>6 DEF DeliverAnswer
  <2>7. ASSUME NEW m \in net, DeliverNotification(m) PROVE WatcherIsRegistered'
    <3>1. m.kind \in {"up", "down", "error"}
      BY <2>7, OperationsAssumption DEF DeliverNotification, TypeOK, AggTypeOK, Messages
    <3> QED
      BY <2>7, <3>1, OperationsAssumption DEF DeliverNotification, Resolved, TypeOK
  <2>8. CASE Crash
    BY <2>8 DEF Crash, RunningTasks
  <2> QED
    BY <2>1, <2>3, <2>4, <2>5, <2>6, <2>7, <2>8
       DEF Next, vars, Environment, ProxyUnchanged
<1> QED
  BY <1>1, <1>2, TypeCorrect, TurnsKept, PTL DEF Spec

(***************************************************************************)
(* Results go home.                                                        *)
(***************************************************************************)
\* From the dispatch of an operation to its result the stored callbackURL is its own.
HomeInv ==
    /\ \A r \in Operations : pc[r] = "posting" \/ task[r] \in RunningTasks => store.callbackUrl = r
    /\ ResultsGoHome

\* The result of an operation goes to the callbackURL that came with it, if requesters take turns: no
\* later request has adopted its own by then (provision, release, terminate, _send_callback).
THEOREM ResultsComeHome ==
    ASSUME Patience = "result"
    PROVE  Spec => []ResultsGoHome
<1> USE DEF HomeInv, ResultsGoHome, taskVars, handlerVars
<1>1. Init => HomeInv
  BY RequestsAssumption DEF Init, RunningTasks, Requests, Listings
<1>2. TypeOK /\ TasksFollowReplies /\ TurnsInv /\ HomeInv /\ [Next]_vars => HomeInv'
  <2> SUFFICES ASSUME TypeOK, TasksFollowReplies, TurnsInv, HomeInv, [Next]_vars PROVE HomeInv'
    OBVIOUS
  <2>1. CASE UNCHANGED <<pc, task, store, reports>>
    BY <2>1
  <2>2. ASSUME NEW r \in Requests, StartRefresh(r) PROVE HomeInv'
    BY <2>2 DEF StartRefresh, TypeOK
  <2>3. ASSUME NEW r \in Requests, Refreshes(r) PROVE HomeInv'
    <3>1. CASE ResultsAnswered(r)
      BY <3>1 DEF ResultsAnswered, TypeOK
    <3>2. CASE SummaryFails(r) \/ NotFound(r) \/ Retrieve(r)
      BY <3>2, RepliedIsDone DEF SummaryFails, NotFound, Retrieve, RefreshedStore
    <3> QED
      BY <2>1, <2>3, <3>1, <3>2 DEF Refreshes, SummaryAnswered, NotificationsAnswered
  <2>4. ASSUME NEW r \in Operations, Dispatches(r) PROVE HomeInv'
    <3>1. pc[r] \in {"refreshing", "refined"}
      BY <2>4 DEF Dispatches, Redeliver, JoinInFlight, Refuse, Proceed, Refreshed, Found
    <3>2. \A o \in Operations : pc[o] # "posting" /\ task[o] \notin RunningTasks
      <4>1. UnderWay(r) /\ task[r] \notin RunningTasks
        BY <3>1 DEF UnderWay, TasksFollowReplies, RunningTasks
      <4> QED
        BY <3>1, <4>1 DEF TurnsInv, UnderWay
    <3>3. \A o \in Operations : task'[o] \notin RunningTasks /\ (pc'[o] = "posting" => o = r)
      BY <2>4, <3>2, RepliedIsDone
         DEF Dispatches, Redeliver, JoinInFlight, Refuse, Proceed, RunningTasks, TypeOK, Requests
    <3>4. \/ \A o \in Operations : pc'[o] # "posting"
          \/ store'.callbackUrl = r
      BY <2>4, <3>2, RepliedIsDone
         DEF Dispatches, Redeliver, JoinInFlight, Refuse, Proceed, AdoptedStore, RefreshedStore,
             Requests
    <3>5. reports' = reports
      BY <2>4 DEF Dispatches, Redeliver, JoinInFlight, Refuse, Proceed
    <3> QED
      BY <3>3, <3>4, <3>5
  <2>5. ASSUME NEW r \in Operations, Posts(r) PROVE HomeInv'
    <3>1. \A o \in Operations : pc'[o] = "posting" => pc[o] = "posting"
      BY <2>5, RepliedIsDone DEF Posts, PostAcked, PostFails, PostGarbled, Requests
    <3>2. /\ \A o \in Operations : task'[o] \in RunningTasks => task[o] \in RunningTasks \/ o = r
          /\ pc[r] = "posting"
      BY <2>5 DEF Posts, PostAcked, PostFails, PostGarbled, TypeOK
    <3>3. store'.callbackUrl = store.callbackUrl /\ reports' = reports
      BY <2>5 DEF Posts, PostAcked, PostFails, PostGarbled, AcceptedStore, TypeOK, Entries
    <3> QED
      BY <3>1, <3>2, <3>3
  <2>6. ASSUME NEW r \in Operations, NEW status, NEW lastError, Ends(r, status, lastError),
               task[r] \in RunningTasks, UNCHANGED pc
        PROVE  HomeInv'
    <3>1. store'.callbackUrl = store.callbackUrl
      BY <2>6, EndKeepsUrl
    <3>2. Report(r).by = r /\ Report(r).to = store.callbackUrl
      BY <3>1 DEF Report
    <3>3. \A o \in Operations : task'[o] \in RunningTasks => task[o] \in RunningTasks
      BY <2>6 DEF Ends, TypeOK
    <3> QED
      BY <2>6, <3>1, <3>2, <3>3 DEF Ends
  <2>7. ASSUME NEW r \in Operations, Completes(r) PROVE HomeInv'
    <3>1. CASE \/ UnexpectedArrives(r) \/ ConfirmTimeout(r) \/ TerminateEnds(r)
               \/ DataPlaneReaches(r) \/ DataPlaneErrs(r) \/ DataPlaneMissed(r)
      BY <2>6, <3>1 DEF UnexpectedArrives, ConfirmTimeout, TerminateEnds, DataPlaneReaches,
                        DataPlaneErrs, DataPlaneMissed, RunningTasks
    <3>2. CASE \/ ConfirmArrives(r) \/ DataPlaneDiffers(r) \/ DataPlaneTimeout(r) \/ WatchCancelled(r)
               \/ HistoryAnswered(r)
      <4>1. /\ UNCHANGED <<pc, store, reports>>
            /\ \A o \in Operations : task'[o] \in RunningTasks => task[o] \in RunningTasks
        BY <3>2 DEF ConfirmArrives, DataPlaneDiffers, DataPlaneTimeout, WatchCancelled,
                    HistoryAnswered, WatchesDataPlane, RunningTasks, TypeOK
      <4> QED
        BY <4>1
    <3>3. CASE Redelivers(r)
      BY <3>3 DEF Redelivers, RunningTasks, TypeOK
    <3> QED
      BY <2>7, <3>1, <3>2, <3>3 DEF Completes
  <2>8. CASE Crash
    <3>1. \A r \in Operations : r # Boot /\ r \in Requests
      BY RequestsAssumption DEF Requests, Listings
    <3> QED
      BY <2>8, <3>1 DEF Crash, RunningTasks
  <2> QED
    BY <2>1, <2>2, <2>3, <2>4, <2>5, <2>7, <2>8
       DEF Next, vars, DeliverAnswer, DeliverNotification, Environment, ProxyUnchanged
<1> QED
  BY <1>1, <1>2, TypeCorrect, TasksAfterReplies, TurnsKept, PTL DEF Spec

(***************************************************************************)
(* A result is sent once, and to a request that was accepted.              *)
(***************************************************************************)
OnceInv ==
    /\ \A r \in Operations : task[r] # "none" => reply[r] = "202"
    /\ \A rep \in reports : rep.by \in Operations /\ task[rep.by] = "done" /\ ~rep.second

\* No request is sent a second result, and none that was refused or failed is sent one: each is
\* answered 202 first, has one completion task or one re-delivery, and that task reports when it
\* ends and not before.
THEOREM ReportedOnce == Spec => [](\A rep \in reports : reply[rep.by] = "202" /\ ~rep.second)
<1> USE DEF OnceInv, taskVars, handlerVars
<1>1. Init => OnceInv
  BY DEF Init
<1>2. TypeOK /\ TasksFollowReplies /\ HandlersInv /\ OnceInv /\ [Next]_vars => OnceInv'
  <2> SUFFICES ASSUME TypeOK, TasksFollowReplies, HandlersInv, OnceInv, [Next]_vars
               PROVE  OnceInv'
    OBVIOUS
  <2>1. CASE UNCHANGED <<reply, task, reports>>
    BY <2>1
  <2>2. ASSUME NEW r \in Requests, NEW code, Replies(r, code), UNCHANGED <<task, reports>>,
               r \in Operations => pc[r] # "done"
        PROVE  OnceInv'
    BY <2>2, RepliedWith DEF TasksFollowReplies
  <2>3. ASSUME NEW r \in Operations, Replies(r, "202"), pc[r] # "done", UNCHANGED reports,
               NEW next, task' = [task EXCEPT ![r] = next]
        PROVE  OnceInv'
    <3>1. task[r] = "none" /\ reply'[r] = "202"
      BY <2>3, RepliedWith DEF TasksFollowReplies, Requests
    <3>2. \A o \in Operations \ {r} : task'[o] = task[o] /\ reply'[o] = reply[o]
      BY <2>3, RepliedWith DEF Requests, TypeOK
    <3> QED
      BY <2>3, <3>1, <3>2
  <2>4. ASSUME NEW r \in Requests, Refreshes(r) PROVE OnceInv'
    <3>1. CASE SummaryFails(r)
      BY <2>2, <3>1 DEF SummaryFails, HandlersInv
    <3> QED
      BY <2>1, <2>2, <2>4, <3>1
         DEF Refreshes, SummaryAnswered, NotificationsAnswered, ResultsAnswered, NotFound, Retrieve
  <2>5. ASSUME NEW r \in Operations, Dispatches(r) PROVE OnceInv'
    <3>1. pc[r] # "done"
      BY <2>5 DEF Dispatches, Redeliver, JoinInFlight, Refuse, Proceed, Refreshed, Found
    <3> QED
      BY <2>1, <2>2, <2>3, <2>5, <3>1
         DEF Dispatches, Redeliver, JoinInFlight, Refuse, Proceed, Requests
  <2>6. ASSUME NEW r \in Operations, Posts(r) PROVE OnceInv'
    BY <2>2, <2>3, <2>6 DEF Posts, PostAcked, PostFails, PostGarbled, Requests
  <2>7. ASSUME NEW r \in Operations, task[r] \notin {"none", "done"}, UNCHANGED reply,
               NEW rep, rep.by = r, rep.second = HasReported(r), reports' = reports \union {rep},
               task' = [task EXCEPT ![r] = "done"]
        PROVE  OnceInv'
    <3>1. ~HasReported(r)
      BY <2>7 DEF HasReported
    <3> QED
      BY <2>7, <3>1 DEF TypeOK
  <2>8. ASSUME NEW r \in Operations, NEW status, NEW lastError, Ends(r, status, lastError),
               task[r] \in RunningTasks, UNCHANGED reply
        PROVE  OnceInv'
    <3>1. Report(r).by = r /\ Report(r).second = HasReported(r)
      BY DEF Report
    <3> QED
      BY <2>7, <2>8, <3>1 DEF Ends, RunningTasks
  <2>9. ASSUME NEW r \in Operations, Completes(r) PROVE OnceInv'
    <3>1. CASE \/ UnexpectedArrives(r) \/ ConfirmTimeout(r) \/ TerminateEnds(r)
               \/ DataPlaneReaches(r) \/ DataPlaneErrs(r) \/ DataPlaneMissed(r)
      BY <2>8, <3>1 DEF UnexpectedArrives, ConfirmTimeout, TerminateEnds, DataPlaneReaches,
                        DataPlaneErrs, DataPlaneMissed, RunningTasks
    <3>2. CASE \/ ConfirmArrives(r) \/ DataPlaneDiffers(r) \/ DataPlaneTimeout(r) \/ WatchCancelled(r)
               \/ HistoryAnswered(r)
      BY <3>2 DEF ConfirmArrives, DataPlaneDiffers, DataPlaneTimeout, WatchCancelled,
                  HistoryAnswered, WatchesDataPlane, TypeOK
    <3>3. CASE Redelivers(r)
      BY <2>7, <3>3 DEF Redelivers
    <3> QED
      BY <2>9, <3>1, <3>2, <3>3 DEF Completes
  <2>10. CASE Crash
    <3>1. \A r \in Operations : task[r] # "none" => pc[r] = "done"
      BY DEF TasksFollowReplies
    <3> QED
      BY <2>10, <3>1 DEF Crash, RunningTasks
  <2> QED
    BY <2>1, <2>4, <2>5, <2>6, <2>9, <2>10
       DEF Next, vars, StartRefresh, DeliverAnswer, DeliverNotification, Environment, ProxyUnchanged
<1>3. OnceInv => \A rep \in reports : reply[rep.by] = "202" /\ ~rep.second
  OBVIOUS
<1> QED
  BY <1>1, <1>2, <1>3, TypeCorrect, TasksAfterReplies, HandlersKept, PTL DEF Spec

(***************************************************************************)
(* Those that a confirmed termination has overtaken.                       *)
(***************************************************************************)
Gone == {"Terminated", "Unknown"}

\* A terminate that is confirmed leaves the aggregator without the connection, for ever.
GoneInv == \A t \in Terminates :
    future[t] = "confirmed" \/ (\E m \in net : m.to = t /\ m.kind = "confirmed")
        => agg.lifecycle \in Gone

\* Who asks for the result history has found the connection there, and has all other answers.
RefinedInv == \A r \in Requests :
    pc[r] = "refined" => asked[r] = {} /\ view[r].lifecycle \notin Gone

LEMMA GoneForGood ==
    ASSUME AggTypeOK, [Next]_vars, agg.lifecycle \in Gone
    PROVE  agg'.lifecycle \in Gone
<1> USE DEF Gone
<1>1. CASE UNCHANGED agg
  BY <1>1
<1>2. CASE AggNext
  <2>1. ASSUME NEW r \in Operations, AggAccepts(r) PROVE FALSE
    BY <2>1 DEF AggAccepts, Startable
  <2>2. ASSUME NEW r \in Operations, AggConfirms(r) PROVE FALSE
    BY <2>2 DEF AggConfirms
  <2>3. CASE DataPlaneUp \/ DataPlaneDown \/ ErrorEvent \/ ForcedEnd \/ Forget \/ SlaPasses
    BY <2>3 DEF DataPlaneUp, DataPlaneDown, ErrorEvent, ForcedEnd, Forget, SlaPasses, AggTypeOK,
                AggRecords
  <2> QED
    BY <1>1, <1>2, <2>1, <2>2, <2>3 DEF AggNext, AggRefuses, AggAnswersUnexpectedly
<1> QED
  BY <1>1, <1>2
     DEF Next, vars, aggVars, StartRefresh, Refreshes, SummaryAnswered, NotificationsAnswered,
         ResultsAnswered, SummaryFails, NotFound, Retrieve, Dispatches, Redeliver, JoinInFlight,
         Refuse, Proceed, Posts, PostAcked, PostFails, PostGarbled, Completes, ConfirmArrives,
         UnexpectedArrives, ConfirmTimeout, TerminateEnds, DataPlaneReaches, DataPlaneErrs,
         DataPlaneDiffers, DataPlaneTimeout, WatchCancelled, HistoryAnswered, DataPlaneMissed, Redelivers,
         DeliverAnswer, DeliverNotification, Environment, Crash

LEMMA GoneKept == Spec => []GoneInv
<1>1. Init => GoneInv
  BY DEF Init, AggInit, GoneInv, Operations
<1>2. TypeOK /\ GoneInv /\ [Next]_vars => GoneInv'
  <2> SUFFICES ASSUME TypeOK, GoneInv, [Next]_vars, NEW t \in Terminates,
                      \/ future'[t] = "confirmed"
                      \/ \E m \in net' : m.to = t /\ m.kind = "confirmed"
               PROVE  agg'.lifecycle \in Gone
    BY DEF GoneInv
  <2> DEFINE heard == \/ future[t] = "confirmed"
                      \/ \E m \in net : m.to = t /\ m.kind = "confirmed"
  <2>1. CASE heard
    BY <2>1, GoneForGood DEF GoneInv, TypeOK
  <2>2. CASE Environment /\ ~heard
    <3>1. ASSUME NEW r \in Operations, AggConfirms(r) PROVE agg'.lifecycle \in Gone
      <4>1. net' = net \union {Answer(r, "confirmed")}
        BY <3>1 DEF AggConfirms
      <4>2. r = t
        BY <2>2, <4>1 DEF Environment, ProxyUnchanged, futureVars, Answer
      <4> QED
        BY <3>1, <4>2, OperationsAssumption
           DEF AggConfirms, Confirmed, Gone, TypeOK, AggTypeOK, AggRecords
    <3>2. ASSUME NEW kind \in {"up", "down", "error"}, NEW at,
                 net' = net \union {Notification(kind, at)}
          PROVE  FALSE
      BY <2>2, <3>2 DEF Environment, ProxyUnchanged, futureVars, Notification
    <3>3. ASSUME NEW r \in Operations, AggAnswersUnexpectedly(r) PROVE FALSE
      BY <2>2, <3>3 DEF AggAnswersUnexpectedly, Answer, Environment, ProxyUnchanged, futureVars
    <3> QED
      BY <2>2, <3>1, <3>2, <3>3
         DEF Environment, ProxyUnchanged, futureVars, AggNext, AggAccepts, AggRefuses, DataPlaneUp,
             DataPlaneDown, ErrorEvent, ForcedEnd, Forget, SlaPasses
  <2>3. ASSUME ~heard, ~Environment PROVE FALSE
    <3> USE DEF futureVars, aggVars
    <3>1. net' \subseteq net
      BY <2>3
         DEF Next, vars, StartRefresh, Refreshes, SummaryAnswered, NotificationsAnswered,
             ResultsAnswered, SummaryFails, NotFound, Retrieve, Dispatches, Redeliver, JoinInFlight,
             Refuse, Proceed, Posts, PostAcked, PostFails, PostGarbled, Completes, ConfirmArrives,
             UnexpectedArrives, ConfirmTimeout, TerminateEnds, DataPlaneReaches, DataPlaneErrs,
             DataPlaneDiffers, DataPlaneTimeout, WatchCancelled, HistoryAnswered, DataPlaneMissed, Redelivers,
             DeliverAnswer, DeliverNotification, Crash
    <3>2. t \in Operations
      BY DEF Operations
    <3>3. ASSUME NEW m \in net, DeliverAnswer(m) PROVE future'[t] # "confirmed"
      BY <2>3, <3>2, <3>3 DEF DeliverAnswer, Resolved, TypeOK
    <3>4. ASSUME NEW r \in Operations, Proceed(r) \/ Posts(r) \/ Completes(r)
          PROVE  future'[t] # "confirmed"
      BY <2>3, <3>2, <3>4
         DEF Proceed, Posts, PostAcked, PostFails, PostGarbled, Completes, ConfirmArrives,
             UnexpectedArrives, ConfirmTimeout, TerminateEnds, DataPlaneReaches, DataPlaneErrs,
             DataPlaneDiffers, DataPlaneTimeout, WatchCancelled, HistoryAnswered, DataPlaneMissed, Redelivers,
             WatchesDataPlane, Cancelled, TypeOK
    <3>5. future'[t] # "confirmed"
      BY <2>3, <3>2, <3>3, <3>4
         DEF Next, vars, StartRefresh, Refreshes, SummaryAnswered, NotificationsAnswered,
             ResultsAnswered, SummaryFails, NotFound, Retrieve, Dispatches, Redeliver, JoinInFlight,
             Refuse, DeliverNotification, Crash
    <3> QED
      BY <2>3, <3>1, <3>5
  <2> QED
    BY <2>1, <2>2, <2>3
<1> QED
  BY <1>1, <1>2, TypeCorrect, PTL DEF Spec

LEMMA RefinedKept == Spec => []RefinedInv
<1> USE DEF RefinedInv, handlerVars
<1>1. Init => RefinedInv
  BY DEF Init
<1>2. TypeOK /\ RefinedInv /\ [Next]_vars => RefinedInv'
  <2> SUFFICES ASSUME TypeOK, RefinedInv, [Next]_vars PROVE RefinedInv'
    OBVIOUS
  <2>1. CASE UNCHANGED <<pc, asked, view>>
    BY <2>1
  <2>2. ASSUME NEW r \in Requests, StartRefresh(r) PROVE RefinedInv'
    BY <2>2 DEF StartRefresh, TypeOK
  <2>3. ASSUME NEW r \in Requests, NEW code, Replies(r, code) PROVE RefinedInv'
    BY <2>3 DEF Replies, Forgotten, TypeOK
  <2>4. ASSUME NEW r \in Requests, SummaryAnswered(r) \/ NotificationsAnswered(r)
        PROVE  RefinedInv'
    <3>1. pc[r] # "refined" /\ UNCHANGED pc
      BY <2>4 DEF SummaryAnswered, NotificationsAnswered
    <3>2. \A o \in Requests \ {r} : asked'[o] = asked[o] /\ view'[o] = view[o]
      BY <2>4 DEF SummaryAnswered, NotificationsAnswered, TypeOK
    <3> QED
      BY <3>1, <3>2
  <2>5. ASSUME NEW r \in Requests, ResultsAnswered(r) PROVE RefinedInv'
    <3>1. view[r].lifecycle \notin Gone /\ asked[r] = {}
      <4>1. view[r].lifecycle = "Terminated" => Base(r) = "TERMINATED"
        BY DEF Base, MapNsiStates, ConnectionStates, EndedLifecycles
      <4> QED
        BY <2>5, <4>1 DEF ResultsAnswered, Found, TransientStatuses, Gone
    <3>2. view'[r].lifecycle = view[r].lifecycle
      <4> DEFINE v == view[r]
      <4>0. v \in AggRecords
        BY DEF TypeOK
      <4>1. CASE view' = [view EXCEPT ![r] = [v EXCEPT !.provAt = agg.provAt, !.relAt = agg.relAt]]
        BY <4>0, <4>1 DEF TypeOK, AggRecords
      <4> QED
        BY <2>5, <4>1 DEF ResultsAnswered
    <3>3. \A o \in Requests \ {r} : pc'[o] = pc[o] /\ view'[o] = view[o]
      BY <2>5 DEF ResultsAnswered, TypeOK
    <3> QED
      BY <2>5, <3>1, <3>2, <3>3 DEF ResultsAnswered
  <2>6. ASSUME NEW r \in Operations, Proceed(r) PROVE RefinedInv'
    BY <2>6 DEF Proceed, Forgotten, TypeOK
  <2>7. CASE Crash
    BY <2>7 DEF Crash
  <2> QED
    BY <2>1, <2>2, <2>3, <2>4, <2>5, <2>6, <2>7
       DEF Next, vars, Refreshes, SummaryFails, NotFound, Retrieve, Dispatches, Redeliver,
           JoinInFlight, Refuse, Posts, PostAcked, PostFails, PostGarbled, Requests, Completes,
           ConfirmArrives, UnexpectedArrives, ConfirmTimeout, TerminateEnds, DataPlaneReaches,
           DataPlaneErrs, DataPlaneDiffers, DataPlaneTimeout, WatchCancelled, HistoryAnswered,
           DataPlaneMissed, Redelivers, DeliverAnswer, DeliverNotification, Environment,
           ProxyUnchanged
<1> QED
  BY <1>1, <1>2, TypeCorrect, PTL DEF Spec

\* Who has seen that the connection is Terminated stores TERMINATED, and starts nothing.
LEMMA TerminatedIsSeen ==
    ASSUME NEW r \in Requests, view[r].lifecycle \in Gone, Refreshed(r), pc[r] # "refined"
    PROVE  /\ Derived(r).status = "TERMINATED"
           /\ view[r].lifecycle = "Terminated"
           /\ \A s \in {RefreshedStore(r), AdoptedStore(r), RefusedStore(r)} :
                 s.status = "TERMINATED"
<1>1. view[r].lifecycle = "Terminated"
  BY DEF Refreshed, Found, Gone
<1>2. Base(r) = "TERMINATED"
  BY <1>1 DEF Base, MapNsiStates, ConnectionStates, EndedLifecycles
<1>3. Derived(r).status = "TERMINATED"
  BY <1>2 DEF Derived, Refine
<1> QED
  BY <1>1, <1>3 DEF RefreshedStore, AdoptedStore, RefusedStore

\* Who is at work on the connection was so before, or has dispatched a request on what it has read.
LEMMA OvertakenBefore ==
    ASSUME TypeOK, RefinedInv, [Next]_vars, agg.lifecycle \in Gone,
           NEW r \in Requests, Overtaken(r)'
    PROVE  Overtaken(r)
<1> USE DEF Overtaken, Gone, handlerVars, taskVars
<1>1. CASE view'[r].lifecycle \notin Gone
  BY <1>1, SnapshotsComeFromAggregator
<1> SUFFICES ASSUME r \in Operations, pc'[r] = "posting" \/ task'[r] \in RunningTasks
             PROVE  Overtaken(r)
  BY <1>1
<1>2. CASE UNCHANGED <<pc, task>>
  BY <1>2
<1>3. ASSUME NEW o \in Requests, StartRefresh(o) \/ Refreshes(o) PROVE Overtaken(r)
  BY <1>3 DEF StartRefresh, Refreshes, SummaryAnswered, NotificationsAnswered, ResultsAnswered,
              SummaryFails, NotFound, Retrieve, Replies, TypeOK
<1>4. ASSUME NEW o \in Operations, Redeliver(o) \/ JoinInFlight(o) \/ Refuse(o)
      PROVE  Overtaken(r)
  BY <1>4 DEF Redeliver, JoinInFlight, Refuse, Replies, RunningTasks, TypeOK
<1>5. ASSUME NEW o \in Operations, Proceed(o) PROVE Overtaken(r)
  <2>1. CASE o # r
    BY <1>5, <2>1 DEF Proceed, TypeOK
  <2>2. CASE view[o].lifecycle \in Gone
    <3>1. pc[o] # "refined" /\ Refreshed(o)
      BY <1>5, <2>2 DEF Proceed, RefinedInv, Requests
    <3>2. Derived(o).status = "TERMINATED" /\ view[o].lifecycle = "Terminated"
      BY <2>2, <3>1, TerminatedIsSeen DEF Requests
    <3> QED
      BY <1>5, <3>2 DEF Proceed, Permitted, SettledStatus
  <2> QED
    BY <2>1, <2>2
<1>6. ASSUME NEW o \in Operations, Posts(o) PROVE Overtaken(r)
  BY <1>6 DEF Posts, PostAcked, PostFails, PostGarbled, Replies, TypeOK
<1>7. ASSUME NEW o \in Operations, Completes(o) PROVE Overtaken(r)
  BY <1>7
     DEF Completes, ConfirmArrives, UnexpectedArrives, ConfirmTimeout, TerminateEnds,
         DataPlaneReaches, DataPlaneErrs, DataPlaneDiffers, DataPlaneTimeout, WatchCancelled,
         HistoryAnswered, DataPlaneMissed, Redelivers, WatchesDataPlane, Ends, RunningTasks, TypeOK
<1>8. CASE Crash
  <2>1. r # Boot
    BY RequestsAssumption DEF Requests, Listings
  <2> QED
    BY <1>8, <2>1 DEF Crash, RunningTasks
<1> QED
  BY <1>2, <1>3, <1>4, <1>5, <1>6, <1>7, <1>8
     DEF Next, vars, Dispatches, DeliverAnswer, DeliverNotification, Environment, ProxyUnchanged

\* What takes the stored status away from TERMINATED is a step of one that was overtaken.
LEMMA OnlyTheOvertakenStore ==
    ASSUME TypeOK, RefinedInv, [Next]_vars, store.status = "TERMINATED",
           store'.status # "TERMINATED", ~Crash
    PROVE  \E r \in Requests : Overtaken(r) /\ Acts(r)
<1> USE DEF Overtaken, Acts, Gone, handlerVars, taskVars
<1>1. CASE UNCHANGED store
  BY <1>1
<1>2. ASSUME NEW r \in Requests, Refreshed(r), NEW code, Replies(r, code) PROVE pc'[r] # pc[r]
  BY <1>2 DEF Refreshed, Found, Replies, TypeOK
<1>3. ASSUME NEW r \in Requests, Refreshed(r),
             store' \in {RefreshedStore(r), AdoptedStore(r), RefusedStore(r)}
      PROVE  view[r].lifecycle \notin Gone
  BY <1>3, TerminatedIsSeen DEF RefinedInv
<1>4. ASSUME NEW r \in Requests, Retrieve(r) PROVE Overtaken(r) /\ Acts(r)
  BY <1>2, <1>3, <1>4 DEF Retrieve
<1>5. ASSUME NEW r \in Operations, Dispatches(r) PROVE Overtaken(r) /\ Acts(r)
  <2>1. Refreshed(r) /\ store' \in {AdoptedStore(r), RefusedStore(r)}
    BY <1>5 DEF Dispatches, Redeliver, JoinInFlight, Refuse, Proceed
  <2>2. pc'[r] # pc[r]
    <3>1. CASE Proceed(r)
      BY <2>1, <3>1 DEF Proceed, Refreshed, Found, TypeOK, Requests
    <3> QED
      BY <1>2, <1>5, <2>1, <3>1 DEF Dispatches, Redeliver, JoinInFlight, Refuse, Requests
  <2> QED
    BY <1>3, <2>1, <2>2 DEF Requests
<1>6. ASSUME NEW r \in Operations, PostAcked(r) PROVE Overtaken(r) /\ Acts(r)
  BY <1>6 DEF PostAcked, Replies, TypeOK, Requests
<1>7. ASSUME NEW r \in Operations, Completes(r) PROVE Overtaken(r) /\ Acts(r)
  <2>1. task[r] \in RunningTasks /\ task'[r] = "done"
    BY <1>1, <1>7
       DEF Completes, ConfirmArrives, UnexpectedArrives, ConfirmTimeout, TerminateEnds,
           DataPlaneReaches, DataPlaneErrs, DataPlaneDiffers, DataPlaneTimeout, WatchCancelled,
           HistoryAnswered, DataPlaneMissed, Redelivers, Ends, RunningTasks, TypeOK
  <2> QED
    BY <2>1 DEF RunningTasks
<1> QED
  BY <1>1, <1>4, <1>5, <1>6, <1>7
     DEF Next, vars, StartRefresh, Refreshes, SummaryAnswered, NotificationsAnswered,
         ResultsAnswered, SummaryFails, NotFound, Posts, PostFails, PostGarbled, DeliverAnswer,
         DeliverNotification, Environment, ProxyUnchanged, Requests

\* Once a terminate has ended with the aggregator's confirmation, nobody new can bring the
\* reservation back, and who can has read the connection, or posted, before it was gone: under any
\* overlap of operations and reads and any faults (the dispatch of provision, release and terminate
\* on the refreshed status, and everything that writes the store).
THEOREM TheEndIsRespected == Spec => LateComersRespectTheEnd
<1>1. /\ TypeOK /\ GoneInv /\ RefinedInv
      /\ [Next]_vars
      => [TerminationConfirmed =>
             /\ \A r \in Requests : Overtaken(r)' => Overtaken(r)
             /\ store.status = "TERMINATED" /\ store'.status # "TERMINATED" =>
                   crashes' # crashes \/ \E r \in Requests : Overtaken(r) /\ Acts(r)]_vars
  <2> SUFFICES ASSUME TypeOK, GoneInv, RefinedInv, [Next]_vars, TerminationConfirmed
               PROVE  /\ \A r \in Requests : Overtaken(r)' => Overtaken(r)
                      /\ store.status = "TERMINATED" /\ store'.status # "TERMINATED" =>
                            crashes' # crashes \/ \E r \in Requests : Overtaken(r) /\ Acts(r)
    OBVIOUS
  <2>1. agg.lifecycle \in Gone
    BY DEF TerminationConfirmed, GoneInv
  <2>2. Crash => crashes' # crashes
    BY DEF Crash, TypeOK
  <2> QED
    BY <2>1, <2>2, OvertakenBefore, OnlyTheOvertakenStore
<1> QED
  BY <1>1, TypeCorrect, GoneKept, RefinedKept, PTL DEF Spec, LateComersRespectTheEnd

=============================================================================
