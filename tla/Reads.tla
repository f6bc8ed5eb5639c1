-------------------------------- MODULE Reads --------------------------------
(***************************************************************************)
(* The reads of several connections beside each other: GET /reservations/  *)
(* {connectionId} with detail summary or full, the same with detail        *)
(* recursive, which waits for a queryRecursive callback, and GET           *)
(* /reservations.  Every one of them refreshes the store they share, and   *)
(* answers from it.  ConnectionOps has the reads of one connection beside  *)
(* its operations; here are the histories of error events as well, one     *)
(* notification id after the other, and the answers the readers get.       *)
(*                                                                         *)
(* moves counts what has happened at the aggregator.  It dates what the    *)
(* proxy knows: the moment a summary was taken is stored with the entry    *)
(* that was written from it (asOf), which the program does not do.         *)
(***************************************************************************)
EXTENDS StateMapping

CONSTANTS
    Conns, NoConn,  \* connectionIds, and none
    Gets,           \* GET /reservations/{connectionId}, detail summary or full
    Recursives,     \* the same with detail recursive
    Lists,          \* GET /reservations
    MaxMoves,       \* bound on what happens at the aggregator
    MaxEvents,      \* bound on the error events of one connection
    MaxActive,      \* bound on the requests under way at one time
    Faults          \* what may go wrong; each name is a guard below

Requests == Gets \union Recursives \union Lists

ASSUME ReadsAssumption ==
    /\ Gets \intersect Recursives = {} /\ Gets \intersect Lists = {} /\ Recursives \intersect Lists = {}
    /\ "summary" \notin Conns
    /\ MaxMoves \in Nat /\ MaxEvents \in 0..3 /\ MaxActive \in Nat
    /\ Faults \subseteq {"queryFails", "garbled", "unexpected"}

VARIABLES
    agg,        \* external: the aggregator's records
    moves,      \* external: how often one of them has changed
    asks,       \* external: how far it is with each queryRecursive
    net,        \* external: its answers on their way to the callback endpoint
    store,      \* _reservations
    logged,     \* how often each error event has been logged as new
    pc,         \* where each handler is
    aim,        \* the connection a GET is about
    asked,      \* the connections whose notifications are being queried, "summary" for that query
    todo,       \* the connections a refresh still has to write
    refined,    \* those whose result history has been read
    view,       \* what a refresh has read
    pending,    \* the correlationIds in _pending
    future,     \* the future of each queryRecursive
    stale,      \* the lists that showed something older than they may
    since,      \* moves when the request came that is under way
    oldest      \* moves when the oldest of those came that were under way then

externalVars == <<agg, moves, asks, net>>
storeVars == <<store, logged>>
refreshVars == <<aim, asked, todo, refined, view>>
futureVars == <<pending, future>>
vars == <<externalVars, storeVars, pc, refreshVars, futureVars, stale, since, oldest>>

Blank == [lifecycle |-> "Unknown", provision |-> "Released", events |-> 0, at |-> 0]
NoEntry == [status |-> "ABSENT", lastError |-> NoError, seen |-> {}, asOf |-> 0]

EventTexts == <<"first event", "second event", "third event">>
Events == 1..MaxEvents

AggRecords == [lifecycle : LifecycleStates \union {"Unknown"}, provision : ProvisionStates,
    events : 0..MaxEvents]
Views == [lifecycle : LifecycleStates \union {"Unknown"}, provision : ProvisionStates,
    events : 0..MaxEvents, at : Nat]
Entries == [status : Statuses \union {"ABSENT"},
    lastError : {NoError, "late"} \union {EventTexts[n] : n \in Events},
    seen : SUBSET Events, asOf : Nat]

TypeOK ==
    /\ agg \in [Conns -> AggRecords]
    /\ moves \in 1..(MaxMoves + 1)
    /\ asks \in [Recursives -> {"none", "posted", "accepted", "answered"}]
    /\ net \subseteq [to : Recursives, kind : {"result", "unexpected"}, found : Views]
    /\ store \in [Conns -> Entries]
    /\ logged \in [Conns -> [Events -> Nat]]
    /\ pc \in [Requests -> {"idle", "posting", "waiting", "refreshing", "done"}]
    /\ aim \in [Requests -> Conns \union {NoConn}]
    /\ asked \in [Requests -> SUBSET (Conns \union {"summary"})]
    /\ todo \in [Requests -> SUBSET Conns]
    /\ refined \in [Requests -> SUBSET Conns]
    /\ view \in [Requests -> [Conns -> Views]]
    /\ pending \subseteq Recursives
    /\ future \in [Recursives -> [is : {"none", "waiting", "cancelled", "result", "unexpected"},
                                  found : Views]]
    /\ stale \subseteq Lists
    /\ since \in [Requests -> Nat] /\ oldest \in [Requests -> Nat]

Init ==
    /\ agg = [c \in Conns |-> [lifecycle |-> "Created", provision |-> "Released", events |-> 0]]
    /\ moves = 1
    /\ asks = [r \in Recursives |-> "none"] /\ net = {}
    /\ store = [c \in Conns |-> NoEntry]
    /\ logged = [c \in Conns |-> [n \in Events |-> 0]]
    /\ pc = [r \in Requests |-> "idle"]
    /\ aim = [r \in Requests |-> NoConn]
    /\ asked = [r \in Requests |-> {}]
    /\ todo = [r \in Requests |-> {}]
    /\ refined = [r \in Requests |-> {}]
    /\ view = [r \in Requests |-> [c \in Conns |-> Blank]]
    /\ pending = {}
    /\ future = [r \in Recursives |-> [is |-> "none", found |-> Blank]]
    /\ stale = {}
    /\ since = [r \in Requests |-> 0] /\ oldest = [r \in Requests |-> 0]

(***************************************************************************)
(* The aggregator (external).                                              *)
(***************************************************************************)
Moves(c, record) ==
    /\ moves <= MaxMoves /\ moves' = moves + 1
    /\ agg' = [agg EXCEPT ![c] = record]
    /\ UNCHANGED <<asks, net>>

Provisioned(c) ==
    /\ agg[c].lifecycle = "Created" /\ agg[c].provision = "Released"
    /\ Moves(c, [agg[c] EXCEPT !.provision = "Provisioned"])

ErrorEvent(c) ==
    /\ agg[c].lifecycle = "Created" /\ agg[c].events < MaxEvents
    /\ Moves(c, [agg[c] EXCEPT !.events = @ + 1])

\* A connection fails or ends, and one day the aggregator does not know it any more.
EndsAtAggregator(c) ==
    /\ agg[c].lifecycle = "Created"
    /\ \E how \in {"Failed", "Terminated", "Unknown"} : Moves(c, [agg[c] EXCEPT !.lifecycle = how])

\* What a query of the connection reads, and when; its notifications are another query.
SummaryOf(c) ==
    [lifecycle |-> agg[c].lifecycle, provision |-> agg[c].provision, events |-> 0, at |-> moves]

\* It acknowledges a queryRecursive.  What it refuses looks like a failed post.
Accepts(r) ==
    /\ asks[r] = "posted"
    /\ asks' = [asks EXCEPT ![r] = "accepted"]
    /\ UNCHANGED <<agg, moves, net>>

\* It answers once, with the connection as it then is, perhaps before its acknowledgement is read.
Answers(r) ==
    /\ asks[r] = "accepted"
    /\ asks' = [asks EXCEPT ![r] = "answered"]
    /\ \/ net' = net \union {[to |-> r, kind |-> "result", found |-> SummaryOf(aim[r])]}
       \/ /\ "unexpected" \in Faults
          /\ net' = net \union {[to |-> r, kind |-> "unexpected", found |-> Blank]}
    /\ UNCHANGED <<agg, moves>>

Environment ==
    /\ \/ \E c \in Conns : Provisioned(c) \/ ErrorEvent(c) \/ EndsAtAggregator(c)
       \/ \E r \in Recursives : Accepts(r) \/ Answers(r)
    /\ UNCHANGED <<storeVars, pc, refreshVars, futureVars, stale, since, oldest>>

(***************************************************************************)
(* What a refresh writes, and logs.                                        *)
(***************************************************************************)
\* The most recent error event is the one with the highest notificationId.
FormatLastError(events) == IF events = 0 THEN NoError ELSE EventTexts[events]

\* Faulty variant: the ids that were read replace those that are remembered.
RememberedFaulty(seen, events) == 1..events

\* _record_seen_error_events: what has been logged once is not logged as new again.
Remembered(seen, events) == seen \union 1..events

Base(v) == MapNsiStates([lifecycle |-> v.lifecycle, reservation |-> "ReserveStart",
    provision |-> v.provision, active |-> FALSE], v.events > 0)

\* What a result history can make of a status; StatusHistory and ConnectionOps say when.
Resolutions(status) ==
    IF status \in TransientStatuses
    THEN {Refine(status, TRUE, FALSE, overdue) : overdue \in BOOLEAN}
    ELSE {Refine(status, FALSE, FALSE, FALSE)}

\* Faulty variant: the aggregator's own state is stored where none is derived from it.
UpdatedEntryFaulty(entry, v, derived) ==
    [status |-> IF derived.reason = NoError THEN v.lifecycle ELSE derived.status,
     lastError |-> entry.lastError, seen |-> entry.seen, asOf |-> v.at]

UpdatedEntry(entry, v, derived) ==
    [status |-> derived.status,
     lastError |-> ResolveLastError(derived, FormatLastError(v.events), entry.lastError),
     seen |-> Remembered(entry.seen, v.events),
     asOf |-> v.at]

UpdateStore(c, v, derived) ==
    /\ store' = [store EXCEPT ![c] = UpdatedEntry(@, v, derived)]
    /\ logged' = [logged EXCEPT ![c] = [n \in Events |->
          IF n \in 1..v.events \ store[c].seen THEN @[n] + 1 ELSE @[n]]]

(***************************************************************************)
(* Requests come and are answered.                                         *)
(***************************************************************************)
Active(r) == pc[r] \notin {"idle", "done"}

Begins(r, where) ==
    /\ pc[r] = "idle" /\ Cardinality({q \in Requests : Active(q)}) < MaxActive
    /\ pc' = [pc EXCEPT ![r] = where]
    /\ since' = [since EXCEPT ![r] = moves]
    /\ oldest' = [oldest EXCEPT ![r] = Min({moves} \union {since[o] : o \in {q \in Requests : Active(q)}})]

Forgets(r) ==
    /\ aim' = IF r \in Recursives THEN aim ELSE [aim EXCEPT ![r] = NoConn]
    /\ asked' = [asked EXCEPT ![r] = {}]
    /\ todo' = [todo EXCEPT ![r] = {}]
    /\ refined' = [refined EXCEPT ![r] = {}]
    /\ view' = [view EXCEPT ![r] = [c \in Conns |-> Blank]]

\* A request ends with an answer, fresh enough or not: what a GET shows was read after it came and is
\* written in the step that answers, and so only lists are judged.  GET and list come again; the
\* correlationId of a recursive one is never used again.
Replies(r, fresh) ==
    /\ pc' = [pc EXCEPT ![r] = IF r \in Recursives THEN "done" ELSE "idle"]
    /\ stale' = IF fresh THEN stale ELSE stale \union {r}
    /\ since' = [since EXCEPT ![r] = 0] /\ oldest' = [oldest EXCEPT ![r] = 0]
    /\ Forgets(r)

\* A status that says nothing of a connection.
Fails(r, status) == status \in {"500", "502", "504"} /\ Replies(r, TRUE)

(***************************************************************************)
(* GET /reservations/{connectionId}: the summary and the notifications are *)
(* queried at the same time.                                               *)
(***************************************************************************)
StartGet(r, c) ==
    /\ r \in Gets
    /\ Begins(r, "refreshing")
    /\ aim' = [aim EXCEPT ![r] = c]
    /\ asked' = [asked EXCEPT ![r] = {"summary", c}]
    /\ todo' = [todo EXCEPT ![r] = {c}]
    /\ UNCHANGED <<externalVars, storeVars, refined, view, futureVars, stale>>

GetSummary(r) ==
    /\ r \in Gets /\ "summary" \in asked[r]
    /\ asked' = [asked EXCEPT ![r] = @ \ {"summary"}]
    /\ view' = [view EXCEPT ![r][aim[r]] = [SummaryOf(aim[r]) EXCEPT !.events = view[r][aim[r]].events]]
    /\ UNCHANGED <<externalVars, storeVars, pc, aim, todo, refined, futureVars, stale, since, oldest>>

\* A notification query that fails, or that cannot be parsed, reads an empty history.
NotificationsAnswered(r, c) ==
    /\ c \in asked[r]
    /\ asked' = [asked EXCEPT ![r] = @ \ {c}]
    /\ \/ view' = [view EXCEPT ![r][c] = [@ EXCEPT !.events = agg[c].events]]
       \/ "queryFails" \in Faults /\ UNCHANGED view
    /\ UNCHANGED <<externalVars, storeVars, pc, aim, todo, refined, futureVars, stale, since, oldest>>

\* It cannot be had (502); one that cannot be parsed raises out of the handler (500).
SummaryFails(r) ==
    /\ "queryFails" \in Faults
    /\ "summary" \in asked[r]
    /\ Fails(r, "502")
    /\ UNCHANGED <<externalVars, storeVars, futureVars>>

NotFound(r) ==
    /\ r \in Gets /\ pc[r] = "refreshing" /\ asked[r] = {}
    /\ view[r][aim[r]].lifecycle = "Unknown"
    /\ Replies(r, TRUE)
    /\ UNCHANGED <<externalVars, storeVars, futureVars>>

\* The result history is read when all notifications have been, for a transient status only.
ToResolve(r, c) == c \in todo[r] /\ asked[r] = {} /\ view[r][c].lifecycle # "Unknown"

ResultsAnswered(r, c) ==
    /\ ToResolve(r, c) /\ c \notin refined[r]
    /\ Base(view[r][c]) \in TransientStatuses
    /\ refined' = [refined EXCEPT ![r] = @ \union {c}]
    /\ UNCHANGED <<externalVars, storeVars, pc, aim, asked, todo, view, futureVars, stale, since, oldest>>

Resolved(r, c) == ToResolve(r, c) /\ (Base(view[r][c]) \in TransientStatuses => c \in refined[r])

\* The reply is built from the stored reservation in the step that writes it.
Retrieve(r) ==
    /\ r \notin Lists /\ Resolved(r, aim[r])
    /\ \E derived \in Resolutions(Base(view[r][aim[r]])) : UpdateStore(aim[r], view[r][aim[r]], derived)
    /\ Replies(r, TRUE)
    /\ UNCHANGED <<externalVars, futureVars>>

(***************************************************************************)
(* GET /reservations.  One summary of all connections: those that it shows *)
(* as ended are written at once, without their notifications; for the rest *)
(* the notifications are read first, and then each is resolved by a task   *)
(* of its own.                                                             *)
(***************************************************************************)
StartList(r) ==
    /\ r \in Lists
    /\ Begins(r, "refreshing")
    /\ asked' = [asked EXCEPT ![r] = {"summary"}]
    /\ UNCHANGED <<externalVars, storeVars, aim, todo, refined, view, futureVars, stale>>

\* get_all lists every stored reservation, also one that the aggregator no longer reports; of those
\* that it does report, none may be missing or older than the oldest request in progress.
ListAnswered(r, known, entries) ==
    Replies(r, \A c \in known : entries[c] # NoEntry /\ entries[c].asOf >= oldest[r])

ListSummary(r) ==
    LET known == {c \in Conns : agg[c].lifecycle # "Unknown"}
        ended == {c \in known : Base(SummaryOf(c)) \in TerminalStatuses}
    IN  /\ r \in Lists /\ "summary" \in asked[r]
        /\ store' = [c \in Conns |->
              IF c \in ended
              THEN UpdatedEntry(store[c], SummaryOf(c), Refine(Base(SummaryOf(c)), FALSE, FALSE, FALSE))
              ELSE store[c]]
        /\ IF known = ended
           THEN ListAnswered(r, known, store')
           ELSE /\ view' = [view EXCEPT ![r] = [c \in Conns |-> SummaryOf(c)]]
                /\ asked' = [asked EXCEPT ![r] = known \ ended]
                /\ todo' = [todo EXCEPT ![r] = known \ ended]
                /\ UNCHANGED <<pc, aim, refined, stale, since, oldest>>
        /\ UNCHANGED <<externalVars, logged, futureVars>>

ResolveListed(r, c) ==
    /\ r \in Lists /\ Resolved(r, c)
    /\ \E derived \in Resolutions(Base(view[r][c])) : UpdateStore(c, view[r][c], derived)
    /\ todo' = [todo EXCEPT ![r] = @ \ {c}]
    /\ UNCHANGED <<externalVars, pc, aim, asked, refined, view, futureVars, stale, since, oldest>>

\* Faulty variant: the tasks that resolve are started and not awaited.
ListRepliesFaulty(r) ==
    /\ r \in Lists /\ pc[r] = "refreshing" /\ asked[r] = {}
    /\ ListAnswered(r, {c \in Conns : view[r][c].lifecycle # "Unknown"}, store)
    /\ UNCHANGED <<externalVars, storeVars, futureVars>>

\* The handler resumes when all of them have written, and reads the store then.
ListReplies(r) ==
    /\ r \in Lists /\ pc[r] = "refreshing" /\ asked[r] = {} /\ todo[r] = {}
    /\ ListAnswered(r, {c \in Conns : view[r][c].lifecycle # "Unknown"}, store)
    /\ UNCHANGED <<externalVars, storeVars, futureVars>>

(***************************************************************************)
(* GET /reservations/{connectionId}?detail=recursive.                      *)
(***************************************************************************)
StartRecursive(r, c) ==
    /\ r \in Recursives
    /\ Begins(r, "posting")
    /\ aim' = [aim EXCEPT ![r] = c]
    /\ pending' = pending \union {r}
    /\ future' = [future EXCEPT ![r] = [@ EXCEPT !.is = "waiting"]]
    /\ asks' = [asks EXCEPT ![r] = "posted"]
    /\ UNCHANGED <<agg, moves, net, storeVars, asked, todo, refined, view, stale>>

QueryAcked(r) ==
    /\ pc[r] = "posting" /\ asks[r] \in {"accepted", "answered"}
    /\ pc' = [pc EXCEPT ![r] = "waiting"]
    /\ UNCHANGED <<externalVars, storeVars, refreshVars, futureVars, stale, since, oldest>>

\* cancel_pending, and a cancelled wait_for.
Cancelled(r) ==
    IF future[r].is = "waiting" THEN [future EXCEPT ![r] = [@ EXCEPT !.is = "cancelled"]] ELSE future

\* A SOAP Fault, an error status or no answer: whatever the aggregator does with the request.
QueryPostFails(r) ==
    /\ pc[r] = "posting"
    /\ pending' = pending \ {r} /\ future' = Cancelled(r)
    /\ Fails(r, "502")
    /\ UNCHANGED <<externalVars, storeVars>>

\* An acknowledgement that cannot be parsed raises out of the handler: the future stays registered.
QueryGarbled(r) ==
    /\ "garbled" \in Faults
    /\ pc[r] = "posting" /\ asks[r] \in {"accepted", "answered"}
    /\ Fails(r, "500")
    /\ UNCHANGED <<externalVars, storeVars, futureVars>>

\* nsi_timeout cancels the future and leaves its correlationId in _pending.
QueryTimesOut(r) ==
    /\ pc[r] = "waiting"
    /\ future' = Cancelled(r)
    /\ Fails(r, "504")
    /\ UNCHANGED <<externalVars, storeVars, pending>>

QueryUnexpected(r) ==
    /\ pc[r] = "waiting" /\ future[r].is = "unexpected"
    /\ Fails(r, "502")
    /\ UNCHANGED <<externalVars, storeVars, futureVars>>

QueryNotFound(r) ==
    /\ pc[r] = "waiting" /\ future[r].is = "result" /\ future[r].found.lifecycle = "Unknown"
    /\ Replies(r, TRUE)
    /\ future' = [future EXCEPT ![r] = [@ EXCEPT !.found = Blank]]
    /\ UNCHANGED <<externalVars, storeVars, pending>>

\* The notifications are queried when the result has come.
QueryResolved(r) ==
    /\ pc[r] = "waiting" /\ future[r].is = "result" /\ future[r].found.lifecycle # "Unknown"
    /\ pc' = [pc EXCEPT ![r] = "refreshing"]
    /\ view' = [view EXCEPT ![r][aim[r]] = future[r].found]
    /\ asked' = [asked EXCEPT ![r] = {aim[r]}]
    /\ todo' = [todo EXCEPT ![r] = {aim[r]}]
    /\ future' = [future EXCEPT ![r] = [@ EXCEPT !.found = Blank]]
    /\ UNCHANGED <<externalVars, storeVars, aim, refined, pending, stale, since, oldest>>

(***************************************************************************)
(* POST /nsi/v2/callback.                                                  *)
(***************************************************************************)
\* Whose future an answer finds: that of its correlationId.
Addressees(m) == {m.to} \intersect pending

Deliver(m) ==
    /\ net' = net \ {m}
    /\ pending' = pending \ Addressees(m)
    /\ future' = [r \in Recursives |->
          IF r \in Addressees(m) /\ future[r].is = "waiting" THEN [is |-> m.kind, found |-> m.found]
          ELSE future[r]]
    /\ UNCHANGED <<agg, moves, asks, storeVars, pc, refreshVars, stale, since, oldest>>

(***************************************************************************)
(* The next-state relation.                                                *)
(***************************************************************************)
Comes(r) == StartList(r) \/ \E c \in Conns : StartGet(r, c) \/ StartRecursive(r, c)

Refreshes(r) ==
    \/ GetSummary(r) \/ ListSummary(r) \/ SummaryFails(r) \/ NotFound(r) \/ Retrieve(r)
    \/ \E c \in Conns : NotificationsAnswered(r, c) \/ ResultsAnswered(r, c) \/ ResolveListed(r, c)
    \/ ListReplies(r)

Queries(r) ==
    \/ QueryAcked(r) \/ QueryPostFails(r) \/ QueryGarbled(r) \/ QueryTimesOut(r)
    \/ QueryUnexpected(r) \/ QueryNotFound(r) \/ QueryResolved(r)

Next ==
    \/ \E r \in Requests : Comes(r) \/ Refreshes(r)
    \/ \E r \in Recursives : Queries(r)
    \/ \E m \in net : Deliver(m)
    \/ Environment

Spec == Init /\ [][Next]_vars

(***************************************************************************)
(* Properties.                                                             *)
(***************************************************************************)
\* A list shows every reservation that the aggregator reports, and each as it was after the oldest
\* request came that the list overlapped: of an older state nothing is left in the store.
ListIsFresh == \A r \in Lists : r \notin stale

\* An error event is logged as new once, whatever order overlapping refreshes read and write in,
\* and every event that a lastError shows has been logged (_record_seen_error_events).
EventsLoggedOnce ==
    \A c \in Conns : \A n \in Events :
        /\ logged[c][n] <= 1
        /\ store[c].lastError = EventTexts[n] => logged[c][n] = 1
=============================================================================
