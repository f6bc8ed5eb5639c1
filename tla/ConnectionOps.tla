---------------------------- MODULE ConnectionOps ----------------------------
(***************************************************************************)
(* The life of one committed connection inside the proxy: the handlers of  *)
(* provision, release, terminate, GET and list, the completion tasks they  *)
(* start, the futures through which the NSI callback endpoint wakes those  *)
(* tasks, and the stored reservation all of them share.                    *)
(*                                                                         *)
(* The proxy is one asyncio event loop: an action is what a coroutine does *)
(* between two awaits.  A request is identified with the callbackURL its   *)
(* requester gave and with the correlationId the proxy made up for it.     *)
(*                                                                         *)
(* A refresh reads the aggregator two or three times: each answer is a     *)
(* snapshot taken when the aggregator answers, and the store is written    *)
(* from the snapshots, later.                                              *)
(***************************************************************************)
EXTENDS Aggregator

CONSTANTS
    Reads, Lists,       \* GET /reservations/{id} and GET /reservations, repeated at will
    Boot,               \* the refresh of all reservations when the process starts
    Patience,           \* what a requester waits for before the next operation starts
    MaxCrashes          \* bound on the restarts of the process

Listings == Lists \union {Boot}
Requests == Operations \union Reads \union Listings

ASSUME RequestsAssumption ==
    /\ Operations \intersect (Reads \union Listings) = {}
    /\ Reads \intersect Listings = {}
    /\ Boot \notin Lists

ASSUME BoundsAssumption ==
    /\ Patience \in {"none", "reply", "result"}
    /\ MaxCrashes \in Nat

VARIABLES
    store,      \* the Reservation of the connection: status, last_error, callback_url
    pc,         \* where each handler is
    asked,      \* the queries of its refresh that have not been answered
    view,       \* the parts of the aggregator's record its refresh has read
    reply,      \* the HTTP status each operation's requester got
    pending,    \* the correlationIds in _pending
    future,     \* the future each operation waits on for its confirmation
    waiter,     \* whose future _pending_by_connection holds
    dpFuture,   \* the future each operation waits on for the data plane
    task,       \* where each completion task is
    reports,    \* the results handed to _send_callback
    crashes

handlerVars == <<pc, asked, view, reply>>
futureVars == <<pending, future, waiter, dpFuture>>
taskVars == <<task, reports>>
vars == <<aggVars, store, handlerVars, futureVars, taskVars, crashes>>

NoEntry == [status |-> "ABSENT", lastError |-> NoError, callbackUrl |-> NoRequest]
Blank == [ReservedConnection EXCEPT !.lifecycle = "Unknown"]

Entries == [status : Statuses \union {"ABSENT"}, lastError : Reasons,
    callbackUrl : Operations \union {NoRequest}]
Reports == [by : Operations, to : Operations \union {NoRequest},
    status : Statuses \union {"ABSENT"}, lastError : Reasons, again : BOOLEAN, second : BOOLEAN]
RunningTasks == {"confirming", "watching", "history", "eventFound", "nothingFound"}

TypeOK ==
    /\ AggTypeOK
    /\ store \in Entries
    /\ pc \in [Requests -> {"idle", "refreshing", "refined", "posting", "done"}]
    /\ asked \in [Requests -> SUBSET {"summary", "notifications"}]
    /\ view \in [Requests -> AggRecords]
    /\ reply \in [Operations -> {"none", "202", "404", "409", "500", "502", "lost"}]
    /\ pending \subseteq Operations
    /\ future \in [Operations -> {"none", "waiting", "cancelled", "confirmed", "unexpected"}]
    /\ waiter \in Operations \union {NoRequest}
    /\ dpFuture \in [Operations -> {"none", "waiting", "cancelled", "up", "down", "error"}]
    /\ task \in [Operations -> RunningTasks \union {"none", "redelivering", "done", "dead", "killed"}]
    /\ reports \subseteq Reports
    /\ crashes \in 0..MaxCrashes

(***************************************************************************)
(* The process starts with an empty store and refreshes it from the        *)
(* aggregator before it serves requests.                                   *)
(***************************************************************************)
Init ==
    /\ AggInit
    /\ store = NoEntry
    /\ pc = [r \in Requests |-> IF r = Boot THEN "refreshing" ELSE "idle"]
    /\ asked = [r \in Requests |-> IF r = Boot THEN {"summary"} ELSE {}]
    /\ view = [r \in Requests |-> Blank]
    /\ reply = [r \in Operations |-> "none"]
    /\ pending = {}
    /\ future = [r \in Operations |-> "none"]
    /\ waiter = NoRequest
    /\ dpFuture = [r \in Operations |-> "none"]
    /\ task = [r \in Operations |-> "none"]
    /\ reports = {}
    /\ crashes = 0

Serving == pc[Boot] = "done"

(***************************************************************************)
(* The refresh that every handler starts with.                             *)
(***************************************************************************)
\* Requesters that wait for the reply, or for the result, of one operation before the next.
MayStart(r) ==
    \/ r \notin Operations
    \/ \A other \in Operations \ {r} :
          /\ Patience \in {"reply", "result"} => pc[other] \in {"idle", "done"}
          /\ Patience = "result" => task[other] \notin RunningTasks \union {"redelivering"}

StartRefresh(r) ==
    /\ Serving /\ MayStart(r)
    /\ pc[r] = "idle"
    /\ pc' = [pc EXCEPT ![r] = "refreshing"]
    /\ asked' = [asked EXCEPT ![r] =
          IF r \in Lists THEN {"summary"} ELSE {"summary", "notifications"}]
    /\ UNCHANGED <<aggVars, store, view, reply, futureVars, taskVars, crashes>>

ConnectionStates(v) == [lifecycle |-> v.lifecycle, reservation |-> "ReserveStart",
    provision |-> v.provision, active |-> v.active]

\* A list writes what the summary says is terminal directly, and asks for the history of the rest.
SummaryAnswered(r) ==
    /\ "summary" \in asked[r]
    /\ view' = [view EXCEPT ![r] = [@ EXCEPT !.lifecycle = agg.lifecycle,
          !.provision = agg.provision, !.active = agg.active]]
    /\ asked' = [asked EXCEPT ![r] =
          IF /\ r \in Listings
             /\ agg.lifecycle # "Unknown"
             /\ MapNsiStates(ConnectionStates(agg), FALSE) \notin TerminalStatuses
          THEN {"notifications"} ELSE @ \ {"summary"}]
    /\ UNCHANGED <<aggVars, store, pc, reply, futureVars, taskVars, crashes>>

\* A failed notification query counts as an empty history.
NotificationsAnswered(r) ==
    /\ "notifications" \in asked[r]
    /\ asked' = [asked EXCEPT ![r] = @ \ {"notifications"}]
    /\ \/ view' = [view EXCEPT ![r] = [@ EXCEPT !.errors = agg.errors, !.upAt = agg.upAt]]
       \/ "queryFails" \in Faults /\ UNCHANGED view
    /\ UNCHANGED <<aggVars, store, pc, reply, futureVars, taskVars, crashes>>

Base(r) == MapNsiStates(ConnectionStates(view[r]), view[r].errors)

Found(r) == pc[r] = "refreshing" /\ asked[r] = {} /\ view[r].lifecycle # "Unknown"

\* The result history is asked only for a transient base status; a failed query counts as empty.
ResultsAnswered(r) ==
    /\ Found(r) /\ Base(r) \in TransientStatuses
    /\ pc' = [pc EXCEPT ![r] = "refined"]
    /\ \/ view' = [view EXCEPT ![r] = [@ EXCEPT !.provAt = agg.provAt, !.relAt = agg.relAt]]
       \/ "queryFails" \in Faults /\ UNCHANGED view
    /\ UNCHANGED <<aggVars, store, asked, reply, futureVars, taskVars, crashes>>

Refreshed(r) ==
    \/ pc[r] = "refined"
    \/ Found(r) /\ Base(r) \notin TransientStatuses

Derived(r) ==
    IF Base(r) = "ACTIVATING"
    THEN Refine(Base(r), view[r].provAt # 0, view[r].upAt >= view[r].provAt,
                sla.prov >= view[r].provAt)
    ELSE Refine(Base(r), view[r].relAt # 0, FALSE, sla.rel >= view[r].relAt)

RefreshedStore(r) ==
    [status |-> Derived(r).status,
     lastError |-> ResolveLastError(Derived(r), IF view[r].errors THEN "event" ELSE NoError,
                                    store.lastError),
     callbackUrl |-> store.callbackUrl]

(***************************************************************************)
(* The end of a handler: its snapshots are gone, its requester has a reply.*)
(***************************************************************************)
Forgotten(r) ==
    /\ asked' = [asked EXCEPT ![r] = {}]
    /\ view' = [view EXCEPT ![r] = Blank]

Replies(r, code) ==
    /\ pc' = [pc EXCEPT ![r] = IF r \in Reads \union Lists THEN "idle" ELSE "done"]
    /\ reply' = IF r \in Operations THEN [reply EXCEPT ![r] = code] ELSE reply
    /\ Forgotten(r)

\* The summary query failed: the handler answers 502 (a starting process serves an empty store).
SummaryFails(r) ==
    /\ "queryFails" \in Faults
    /\ "summary" \in asked[r]
    /\ Replies(r, "502")
    /\ UNCHANGED <<aggVars, store, futureVars, taskVars, crashes>>

\* Faulty variant: a connection the aggregator does not know is removed from the store.
NotFoundFaulty(r) ==
    /\ pc[r] = "refreshing" /\ asked[r] = {} /\ view[r].lifecycle = "Unknown"
    /\ store' = NoEntry
    /\ Replies(r, "404")
    /\ UNCHANGED <<aggVars, futureVars, taskVars, crashes>>

NotFound(r) ==
    /\ pc[r] = "refreshing" /\ asked[r] = {} /\ view[r].lifecycle = "Unknown"
    /\ Replies(r, "404")
    /\ UNCHANGED <<aggVars, store, futureVars, taskVars, crashes>>

Retrieve(r) ==
    /\ r \notin Operations
    /\ Refreshed(r)
    /\ store' = RefreshedStore(r)
    /\ Replies(r, "200")
    /\ UNCHANGED <<aggVars, futureVars, taskVars, crashes>>

(***************************************************************************)
(* provision, release and terminate dispatch on the refreshed status.      *)
(***************************************************************************)
SettledStatus(r) ==
    CASE r \in Provisions -> "ACTIVATED" [] r \in Releases -> "RESERVED" [] OTHER -> "TERMINATED"

InFlightStatuses(r) ==
    CASE r \in Provisions -> {"ACTIVATING"} [] r \in Releases -> {"DEACTIVATING"} [] OTHER -> {}

\* Faulty variant: a provision is refused only when the connection is active or becomes so.
PermittedFaulty(r) ==
    \/ r \in Provisions /\ Derived(r).status \notin {"ACTIVATING", "ACTIVATED"}
    \/ r \in Releases /\ Derived(r).status = "ACTIVATED"
    \/ /\ r \in Terminates
       /\ \/ Derived(r).status \in {"RESERVED", "FAILED", "RESERVING"}
          \/ view[r].lifecycle = "Terminating"

\* Terminate also retries one the aggregator still reports as terminating.
Permitted(r) ==
    \/ r \in Provisions /\ Derived(r).status = "RESERVED"
    \/ r \in Releases /\ Derived(r).status = "ACTIVATED"
    \/ /\ r \in Terminates
       /\ \/ Derived(r).status \in {"RESERVED", "FAILED", "RESERVING"}
          \/ view[r].lifecycle = "Terminating"

\* Faulty variant: the first callbackURL is kept.
AdoptedStoreFaulty(r) == [RefreshedStore(r) EXCEPT !.callbackUrl = IF @ = NoRequest THEN r ELSE @]

AdoptedStore(r) == [RefreshedStore(r) EXCEPT !.callbackUrl = r]

\* Faulty variant: terminate adopts before it dispatches, as provision and release do.
RefusedStoreFaulty(r) == AdoptedStore(r)

\* A refused terminate leaves the callbackURL alone; provision and release adopt it first.
RefusedStore(r) == IF r \in Terminates THEN RefreshedStore(r) ELSE AdoptedStore(r)

Redeliver(r) ==
    /\ r \in Operations
    /\ Refreshed(r) /\ Derived(r).status = SettledStatus(r)
    /\ store' = AdoptedStore(r)
    /\ task' = [task EXCEPT ![r] = "redelivering"]
    /\ Replies(r, "202")
    /\ UNCHANGED <<aggVars, futureVars, reports, crashes>>

JoinInFlight(r) ==
    /\ r \in Operations
    /\ Refreshed(r) /\ Derived(r).status \in InFlightStatuses(r)
    /\ store' = AdoptedStore(r)
    /\ Replies(r, "202")
    /\ UNCHANGED <<aggVars, futureVars, taskVars, crashes>>

Refuse(r) ==
    /\ r \in Operations
    /\ Refreshed(r)
    /\ Derived(r).status \notin InFlightStatuses(r) \union {SettledStatus(r)}
    /\ ~Permitted(r)
    /\ store' = RefusedStore(r)
    /\ Replies(r, "409")
    /\ UNCHANGED <<aggVars, futureVars, taskVars, crashes>>

\* Faulty variant: the futures are keyed by connection.
RegisteredFaulty(r) == {r}

\* register_pending: the future joins those of other operations under a key of its own.
Registered(r) == pending \union {r}

\* The future of the confirmation is registered before the request is posted.
Proceed(r) ==
    /\ r \in Operations
    /\ Refreshed(r) /\ Permitted(r)
    /\ Derived(r).status # SettledStatus(r)
    /\ store' = AdoptedStore(r)
    /\ pending' = Registered(r)
    /\ future' = [future EXCEPT ![r] = "waiting"]
    /\ requests' = requests \union {r}
    /\ pc' = [pc EXCEPT ![r] = "posting"]
    /\ Forgotten(r)
    /\ UNCHANGED <<agg, sla, acked, accepted, net, reply, waiter, dpFuture, taskVars, crashes>>

(***************************************************************************)
(* The synchronous answer to the posted request.                           *)
(***************************************************************************)
\* Faulty variant: the NSI provision state is stored instead of the proxy's status.
AcceptedStoreFaulty(r) ==
    IF r \in Provisions THEN [store EXCEPT !.status = "Provisioning"] ELSE store

AcceptedStore(r) ==
    CASE r \in Provisions -> [store EXCEPT !.status = "ACTIVATING"]
      [] r \in Releases -> [store EXCEPT !.status = "DEACTIVATING"]
      [] OTHER -> store

PostAcked(r) ==
    /\ pc[r] = "posting" /\ r \in acked
    /\ store' = AcceptedStore(r)
    /\ task' = [task EXCEPT ![r] = "confirming"]
    /\ Replies(r, "202")
    /\ UNCHANGED <<aggVars, futureVars, reports, crashes>>

Cancelled(f) == IF f = "waiting" THEN "cancelled" ELSE f

\* Faulty variant: an HTTP failure is not caught and the client waits for ever.
PostFailsFaulty(r) ==
    /\ pc[r] = "posting"
    /\ r \notin requests \union acked
    /\ pending' = pending \ {r}
    /\ future' = [future EXCEPT ![r] = Cancelled(@)]
    /\ Replies(r, "502")
    /\ UNCHANGED <<aggVars, store, waiter, dpFuture, taskVars, crashes>>

\* A refusal (a SOAP Fault, an error status), or an HTTP failure whatever the aggregator did.
PostFails(r) ==
    /\ pc[r] = "posting"
    /\ "postFails" \in Faults \/ r \notin requests \union acked
    /\ pending' = pending \ {r}
    /\ future' = [future EXCEPT ![r] = Cancelled(@)]
    /\ Replies(r, "502")
    /\ UNCHANGED <<aggVars, store, waiter, dpFuture, taskVars, crashes>>

\* An answer that cannot be parsed raises out of the handler: nothing is cleaned up.
PostGarbled(r) ==
    /\ "garbled" \in Faults
    /\ pc[r] = "posting" /\ r \notin requests
    /\ Replies(r, "500")
    /\ UNCHANGED <<aggVars, store, futureVars, taskVars, crashes>>

(***************************************************************************)
(* The completion tasks.  The report is built from the store in the same   *)
(* step that writes it.                                                    *)
(***************************************************************************)
\* second tells a result from the first one of the same request, which the program does not do.
HasReported(r) == \E rep \in reports : rep.by = r

Report(r) == [by |-> r, to |-> store'.callbackUrl, status |-> store'.status,
    lastError |-> store'.lastError, again |-> FALSE, second |-> HasReported(r)]

Ends(r, status, lastError) ==
    /\ store' = [store EXCEPT !.status = status, !.lastError = lastError]
    /\ reports' = reports \union {Report(r)}
    /\ task' = [task EXCEPT ![r] = "done"]

WatchesDataPlane(r) ==
    /\ waiter' = r
    /\ dpFuture' = [dpFuture EXCEPT ![r] = "waiting"]
    /\ task' = [task EXCEPT ![r] = "watching"]

ConfirmArrives(r) ==
    /\ r \in Provisions \union Releases
    /\ task[r] = "confirming" /\ future[r] = "confirmed"
    /\ WatchesDataPlane(r)
    /\ UNCHANGED <<aggVars, store, handlerVars, pending, future, reports, crashes>>

UnexpectedArrives(r) ==
    /\ r \in Provisions \union Releases
    /\ task[r] = "confirming" /\ future[r] = "unexpected"
    /\ Ends(r, "FAILED", "operation")
    /\ UNCHANGED <<aggVars, handlerVars, futureVars, crashes>>

\* Faulty variant: the confirmation is awaited without a timeout.
ConfirmTimeoutFaulty(r) == FALSE

\* Faulty variant: the failure is stored without its reason.
ConfirmTimeoutSilent(r) ==
    /\ r \in Provisions \union Releases
    /\ task[r] = "confirming"
    /\ future' = [future EXCEPT ![r] = Cancelled(@)]
    /\ Ends(r, "FAILED", NoError)
    /\ UNCHANGED <<aggVars, handlerVars, pending, waiter, dpFuture, crashes>>

\* Faulty variant: the task reports the timeout and then watches the data plane all the same.
ConfirmTimeoutGoesOn(r) ==
    /\ r \in Provisions \union Releases
    /\ task[r] = "confirming"
    /\ future' = [future EXCEPT ![r] = Cancelled(@)]
    /\ store' = [store EXCEPT !.status = "FAILED", !.lastError = "operation"]
    /\ reports' = reports \union {Report(r)}
    /\ WatchesDataPlane(r)
    /\ UNCHANGED <<aggVars, handlerVars, pending, crashes>>

\* nsi_timeout: it cancels the future, and wins over an answer the task has not resumed with.
ConfirmTimeout(r) ==
    /\ r \in Provisions \union Releases
    /\ task[r] = "confirming"
    /\ future' = [future EXCEPT ![r] = Cancelled(@)]
    /\ Ends(r, "FAILED", "operation")
    /\ UNCHANGED <<aggVars, handlerVars, pending, waiter, dpFuture, crashes>>

\* Confirmed, answered otherwise or timed out, a terminate ends in TERMINATED and keeps last_error.
TerminateEnds(r) ==
    /\ r \in Terminates
    /\ task[r] = "confirming"
    /\ future' = [future EXCEPT ![r] = Cancelled(@)]
    /\ Ends(r, "TERMINATED", store.lastError)
    /\ UNCHANGED <<aggVars, handlerVars, pending, waiter, dpFuture, crashes>>

Target(r) == IF r \in Provisions THEN "up" ELSE "down"
SuccessStatus(r) == IF r \in Provisions THEN "ACTIVATED" ELSE "RESERVED"

\* Faulty variant: any data-plane change counts as success.
DataPlaneReachesFaulty(r) ==
    /\ task[r] = "watching" /\ dpFuture[r] \in {"up", "down"}
    /\ Ends(r, SuccessStatus(r), NoError)
    /\ UNCHANGED <<aggVars, handlerVars, futureVars, crashes>>

DataPlaneReaches(r) ==
    /\ task[r] = "watching" /\ dpFuture[r] = Target(r)
    /\ Ends(r, SuccessStatus(r), NoError)
    /\ UNCHANGED <<aggVars, handlerVars, futureVars, crashes>>

DataPlaneErrs(r) ==
    /\ task[r] = "watching" /\ dpFuture[r] = "error"
    /\ Ends(r, "FAILED", "event")
    /\ UNCHANGED <<aggVars, handlerVars, futureVars, crashes>>

\* Faulty variant: after the other change it waits without registering again.
DataPlaneDiffersFaulty(r) ==
    /\ task[r] = "watching" /\ dpFuture[r] \in {"up", "down"} \ {Target(r)}
    /\ dpFuture' = [dpFuture EXCEPT ![r] = "waiting"]
    /\ UNCHANGED <<aggVars, store, handlerVars, pending, future, waiter, taskVars, crashes>>

\* The other change: wait again for the rest of the time, or give up if there is none left.
DataPlaneDiffers(r) ==
    /\ task[r] = "watching" /\ dpFuture[r] \in {"up", "down"} \ {Target(r)}
    /\ \/ WatchesDataPlane(r)
       \/ /\ task' = [task EXCEPT ![r] = "history"]
          /\ UNCHANGED <<waiter, dpFuture>>
    /\ UNCHANGED <<aggVars, store, handlerVars, pending, future, reports, crashes>>

\* dataplane_timeout: cancel_pending_by_connection cancels whichever future is registered.
DataPlaneTimeout(r) ==
    /\ task[r] = "watching"
    /\ dpFuture' = [o \in Operations |->
          IF o \in {r, waiter} THEN Cancelled(dpFuture[o]) ELSE dpFuture[o]]
    /\ waiter' = NoRequest
    /\ task' = [task EXCEPT ![r] = "history"]
    /\ UNCHANGED <<aggVars, store, handlerVars, pending, future, reports, crashes>>

\* The CancelledError of somebody else's timeout ends the task: it is not an Exception.
WatchCancelled(r) ==
    /\ task[r] = "watching" /\ dpFuture[r] = "cancelled"
    /\ task' = [task EXCEPT ![r] = "dead"]
    /\ UNCHANGED <<aggVars, store, handlerVars, futureVars, reports, crashes>>

\* After a timeout the notification history is queried; a failed query finds no event.
HistoryAnswered(r) ==
    /\ task[r] = "history"
    /\ \/ task' = [task EXCEPT ![r] = IF agg.errors THEN "eventFound" ELSE "nothingFound"]
       \/ "queryFails" \in Faults /\ task' = [task EXCEPT ![r] = "nothingFound"]
    /\ UNCHANGED <<aggVars, store, handlerVars, futureVars, reports, crashes>>

\* The task resumes with what the query found when it was answered.
DataPlaneMissed(r) ==
    /\ task[r] \in {"eventFound", "nothingFound"}
    /\ Ends(r, "FAILED", IF task[r] = "eventFound" THEN "event" ELSE "operation")
    /\ UNCHANGED <<aggVars, handlerVars, futureVars, crashes>>

\* A re-delivery is a task of its own: it reads the stored reservation when it first runs.
Redelivers(r) ==
    /\ task[r] = "redelivering"
    /\ reports' = reports \union {[by |-> r, to |-> r, status |-> store.status,
                                   lastError |-> store.lastError, again |-> TRUE,
                                   second |-> HasReported(r)]}
    /\ task' = [task EXCEPT ![r] = "done"]
    /\ UNCHANGED <<aggVars, store, handlerVars, futureVars, crashes>>

(***************************************************************************)
(* POST /nsi/v2/callback.                                                  *)
(***************************************************************************)
Resolved(f, kind) == IF f = "waiting" THEN kind ELSE f

\* An answer: resolve_pending pops the correlationId and sets the result of a waiting future.
DeliverAnswer(m) ==
    /\ Serving
    /\ m.to # NoRequest
    /\ net' = net \ {m}
    /\ pending' = pending \ {m.to}
    /\ future' = IF m.to \in pending
                 THEN [future EXCEPT ![m.to] = Resolved(@, m.kind)] ELSE future
    /\ UNCHANGED <<agg, sla, requests, acked, accepted, store, handlerVars, waiter, dpFuture,
                   taskVars, crashes>>

\* A notification: it wakes the one operation registered for the connection, or nobody.
DeliverNotification(m) ==
    /\ Serving
    /\ m.to = NoRequest
    /\ net' = net \ {m}
    /\ waiter' = NoRequest
    /\ dpFuture' = IF waiter # NoRequest
                   THEN [dpFuture EXCEPT ![waiter] = Resolved(@, m.kind)] ELSE dpFuture
    /\ UNCHANGED <<agg, sla, requests, acked, accepted, store, handlerVars, pending, future,
                   taskVars, crashes>>

(***************************************************************************)
(* A crash loses the store, the handlers, the tasks and the futures.       *)
(***************************************************************************)
Crash ==
    /\ "crash" \in Faults
    /\ crashes < MaxCrashes /\ crashes' = crashes + 1
    /\ store' = NoEntry
    /\ pc' = [r \in Requests |->
          IF r = Boot THEN "refreshing"
          ELSE IF r \in Operations /\ pc[r] # "idle" THEN "done" ELSE "idle"]
    /\ asked' = [r \in Requests |-> IF r = Boot THEN {"summary"} ELSE {}]
    /\ view' = [r \in Requests |-> Blank]
    /\ reply' = [r \in Operations |->
          IF pc[r] \notin {"idle", "done"} THEN "lost" ELSE reply[r]]
    /\ pending' = {} /\ waiter' = NoRequest
    /\ future' = [r \in Operations |-> "none"]
    /\ dpFuture' = [r \in Operations |-> "none"]
    /\ task' = [r \in Operations |->
          IF task[r] \in RunningTasks \union {"redelivering"} THEN "killed" ELSE task[r]]
    /\ UNCHANGED <<aggVars, reports>>

(***************************************************************************)
(* The next-state relation.                                                *)
(***************************************************************************)
Refreshes(r) ==
    \/ SummaryAnswered(r) \/ NotificationsAnswered(r) \/ ResultsAnswered(r)
    \/ SummaryFails(r) \/ NotFound(r) \/ Retrieve(r)

Dispatches(r) == Redeliver(r) \/ JoinInFlight(r) \/ Refuse(r) \/ Proceed(r)

Posts(r) == PostAcked(r) \/ PostFails(r) \/ PostGarbled(r)

Completes(r) ==
    \/ ConfirmArrives(r) \/ UnexpectedArrives(r) \/ ConfirmTimeout(r) \/ TerminateEnds(r)
    \/ DataPlaneReaches(r) \/ DataPlaneErrs(r) \/ DataPlaneDiffers(r) \/ DataPlaneTimeout(r)
    \/ WatchCancelled(r) \/ HistoryAnswered(r) \/ DataPlaneMissed(r) \/ Redelivers(r)

ProxyUnchanged == UNCHANGED <<store, handlerVars, futureVars, taskVars, crashes>>

Environment == AggNext /\ ProxyUnchanged

Next ==
    \/ \E r \in Requests : StartRefresh(r) \/ Refreshes(r)
    \/ \E r \in Operations : Dispatches(r) \/ Posts(r) \/ Completes(r)
    \/ \E m \in net : DeliverAnswer(m) \/ DeliverNotification(m)
    \/ Environment
    \/ Crash

Spec == Init /\ [][Next]_vars

(***************************************************************************)
(* Fairness.  Every await of the proxy ends: the HTTP client times out,    *)
(* the waits have nsi_timeout and dataplane_timeout, a ready coroutine is  *)
(* resumed.  Nothing is assumed of the aggregator or of the requesters.    *)
(***************************************************************************)
ProxyFairness ==
    /\ \A r \in Requests : WF_vars(Refreshes(r))
    /\ \A r \in Operations :
          WF_vars(Dispatches(r)) /\ WF_vars(Posts(r)) /\ WF_vars(Completes(r))

FairSpec == Spec /\ ProxyFairness

\* Somebody polls, and the clock moves on.
PolledSpec ==
    /\ FairSpec
    /\ \A r \in Reads \union Lists : WF_vars(StartRefresh(r))
    /\ WF_vars(SlaPasses /\ ProxyUnchanged)

(***************************************************************************)
(* The promises, kept by this module: what each request was answered, what *)
(* it is owed by its task, and what was reported.  A task that has died    *)
(* owes its result for ever.                                               *)
(***************************************************************************)
AnswerOf(r) ==
    CASE reply[r] = "none" -> IF pc[r] = "idle" THEN "none" ELSE "asked"
      [] reply[r] = "202" -> "accepted"
      [] reply[r] \in {"404", "409"} -> "refused"
      [] reply[r] = "lost" -> "lost"
      [] OTHER -> "failed"

OwedTo(r) ==
    CASE task[r] \in RunningTasks \union {"dead"} -> "result"
      [] task[r] = "redelivering" -> "repeat"
      [] OTHER -> "nothing"

OutcomesOf(r) ==
    CASE r \in Provisions -> {"ACTIVATED", "FAILED"}
      [] r \in Releases -> {"RESERVED", "FAILED"}
      [] OTHER -> {"TERMINATED"}

Promise == INSTANCE Promises WITH
    Askers <- Operations,
    Outcomes <- [r \in Operations |-> OutcomesOf(r)],
    Shown <- Statuses,
    answer <- [r \in Operations |-> AnswerOf(r)],
    owed <- [r \in Operations |-> OwedTo(r)],
    told <- {<<rep.by, rep.status, rep.second>> : rep \in reports},
    restarts <- crashes

\* Each request is answered once; only an accepted one gets a result, one result, and one that ends
\* its operation (the handlers, their tasks and the re-deliveries of reservations.py 848-1313).
KeepsPromises == Promise!Spec

(***************************************************************************)
(* Safety under any interleaving of requesters.                            *)
(***************************************************************************)
\* A healthy status never carries an error: whichever refresh or completion wrote last, a
\* reservation shown as RESERVED or ACTIVATED has lastError null (_resolve_last_error, and the
\* success paths that reset last_error).  ACTIVATING and DEACTIVATING may carry one.
HealthyHasNoError ==
    store.status \in {"RESERVING", "RESERVED", "ACTIVATED"} => store.lastError = NoError

\* While a handler posts its request or its task waits for the confirmation, the answer finds them:
\* their future is registered under the correlationId or already holds the answer, also when the
\* answer overtakes the acknowledgement (register_pending comes before the post).
AnswersFindTheirWaiter ==
    \A r \in Operations : pc[r] = "posting" \/ task[r] = "confirming" =>
        \/ future[r] = "waiting" /\ r \in pending
        \/ future[r] \in {"confirmed", "unexpected"} /\ r \notin pending

\* A task that runs, and a handler that posts, finds the reservation it is about in the store: no
\* read in between, however the aggregator has answered it, takes the entry away (update_status and
\* the tasks index _reservations without a check).
TasksFindTheirReservation ==
    store = NoEntry => \A r \in Operations :
        pc[r] # "posting" /\ task[r] \notin RunningTasks \union {"redelivering"}

\* Only the aggregator fails a connection without a reason: what the proxy fails itself, for a
\* timeout, an answer it did not expect, a drop or an error event, has a lastError, whichever
\* refreshes and completions wrote the entry in turn (lifecycle Failed has no text of its own).
FailureIsExplained ==
    store.status = "FAILED" /\ store.lastError = NoError => agg.lifecycle # "Created"

\* A terminate answered with 404 or 409 is never the one whose callbackURL a stored reservation
\* carries, so a running operation's result does not go to it ("Rejected before the callbackURL is
\* adopted").
RefusedTerminateGetsNoResult ==
    \A t \in Terminates : reply[t] \in {"404", "409"} =>
        store.callbackUrl # t /\ \A rep \in reports : rep.to # t

\* A provision reports ACTIVATED, and a release RESERVED, only after the aggregator confirmed that
\* very request and then reported the data plane up, respectively down (until a restart forgets).
SuccessIsEarned ==
    \A rep \in reports :
        ~rep.again /\ rep.by \notin Terminates /\ rep.status # "FAILED" /\ crashes = 0 =>
            future[rep.by] = "confirmed" /\ dpFuture[rep.by] = Target(rep.by)

TerminationConfirmed == \E t \in Terminates : task[t] = "done" /\ future[t] = "confirmed"

\* Who has read the connection before it was gone, or is still at work on it.
Overtaken(r) ==
    \/ view[r].lifecycle \notin {"Terminated", "Unknown"}
    \/ r \in Operations /\ (pc[r] = "posting" \/ task[r] \in RunningTasks)

Acts(r) == pc'[r] # pc[r] \/ (r \in Operations /\ task'[r] # task[r])

\* When a terminate has ended with the aggregator's confirmation, a handler or a task that it has
\* overtaken may still store what it knows from before, and only those may: whoever reads the
\* aggregator from then on stores TERMINATED and starts nothing, so those that can bring the
\* reservation back only become fewer, until a restart forgets.
LateComersRespectTheEnd ==
    [][TerminationConfirmed =>
          /\ \A r \in Requests : Overtaken(r)' => Overtaken(r)
          /\ store.status = "TERMINATED" /\ store'.status # "TERMINATED" =>
                crashes' # crashes \/ \E r \in Requests : Overtaken(r) /\ Acts(r)]_vars

(***************************************************************************)
(* Safety when a requester waits for the result of one operation before it *)
(* asks for the next (Patience = "result").                                *)
(***************************************************************************)
\* A task that waits for the data plane is the one the next notification wakes: the futures by
\* connection are never overwritten or cancelled under it.
WatcherIsRegistered ==
    \A r \in Operations : task[r] = "watching" =>
        dpFuture[r] # "cancelled" /\ (dpFuture[r] = "waiting" => waiter = r)

\* The result of an operation goes to the callbackURL of the request that started it.
ResultsGoHome == \A rep \in reports : rep.to = rep.by

\* A terminate that ended with the aggregator's confirmation is final: no later refresh and no
\* completion brings the reservation back, until a restart forgets.
ConfirmedTerminationIsFinal == TerminationConfirmed => store.status = "TERMINATED"

(***************************************************************************)
(* Liveness.                                                               *)
(***************************************************************************)
\* Every request that was started is answered.
RequestsAreAnswered == \A r \in Operations : pc[r] # "idle" ~> pc[r] = "done"

\* Every completion task ends with a result for its requester, whatever the aggregator does. The one
\* exception is a task that dies with the wait that the end of another operation cancelled.
TasksReport == \A r \in Operations :
    task[r] = "confirming" ~>
        \/ \E rep \in reports : rep.by = r
        \/ task[r] = "dead" /\ \E rep \in reports : rep.by # r

\* README: "a reservation always converges to a stable state".
Converges == <>[](store.status \notin TransientStatuses)

(***************************************************************************)
(* A statement of a comment that the code does not meet: it is refuted by  *)
(* a run of its own.                                                       *)
(***************************************************************************)
\* _complete_provision: the task drives the reservation "from ACTIVATING to ACTIVATED or FAILED".
TasksEndWithAResult == \A r \in Operations : task[r] # "dead"
=============================================================================
