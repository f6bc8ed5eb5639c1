-------------------------------- MODULE Reserve --------------------------------
(***************************************************************************)
(* The first phase of a connection: POST /reservations with the two-phase  *)
(* reserve and commit behind it, its idempotency by globalReservationId,   *)
(* and the terminate that may meet it.                                     *)
(*                                                                         *)
(* The connection that the aggregator creates for a reserve request is     *)
(* named like the request.  A call is one SOAP request of the proxy with   *)
(* a correlationId of its own: <<operation, request>>.  As in              *)
(* ConnectionOps an action is what a coroutine does between two awaits,    *)
(* and messages arrive in any order or never.                              *)
(*                                                                         *)
(* The data plane plays no part before a connection is committed, so no    *)
(* status is transient here and a refresh needs no result history.         *)
(***************************************************************************)
EXTENDS StateMapping

CONSTANTS
    Keyed,          \* reserve requests, all with the same globalReservationId
    Unkeyed,        \* reserve requests without a globalReservationId
    Terminates,     \* terminate requests
    NoRequest,
    Patience,       \* what requesters wait for: "none", or each other's "reply"
    Faults          \* what may go wrong; each name is a guard below

Reserves == Keyed \union Unkeyed
Requests == Reserves \union Terminates

ASSUME ReserveAssumption ==
    /\ Keyed \intersect Unkeyed = {} /\ Reserves \intersect Terminates = {}
    /\ NoRequest \notin Requests
    /\ Patience \in {"none", "reply"}
    /\ Faults \subseteq {"refuse", "postFails", "fails", "errorEvent", "crash"}

\* What the match statements of the completion tasks tell apart: the confirmation, or a message
\* that is not (reserveFailed, reserveTimeout, reserveCommitFailed).
Kinds == {"confirmed", "failed"}

Calls == ({"reserve", "commit"} \X Reserves) \union ({"terminate"} \X Terminates)

VARIABLES
    agg,            \* external: the aggregator's record of each connection
    posted, acked,  \* external: calls on their way to the aggregator, and accepted ones
    net,            \* external: answers sent; each arrives late, twice or never
    objects,        \* the Reservation objects a connection may have had in the store
    current,        \* which of them the store holds: made by a refresh, or by the reserve
    inFlight,       \* _reserves_in_flight
    pc,             \* where each handler is
    aim,            \* the connection a terminate is about
    view,           \* the summary that a handler's refresh got
    held,           \* the objects a reserve handler has resolved its candidates to
    reply, told,    \* the HTTP status each requester got, with the connectionId
    pending, future,
    task,           \* where each completion task is
    reports,        \* the results handed to _send_callback
    crashed

externalVars == <<agg, posted, acked, net>>
storeVars == <<objects, current, inFlight>>
handlerVars == <<pc, aim, view, held, reply, told>>
futureVars == <<pending, future>>
taskVars == <<task, reports>>
vars == <<externalVars, storeVars, handlerVars, futureVars, taskVars, crashed>>

AggRecords == [lifecycle : {"None", "Created", "Terminating", "Terminated"},
    reservation : ReservationStates, errors : BOOLEAN]
Nothing == [lifecycle |-> "None", reservation |-> "ReserveStart", errors |-> FALSE]

Entries == [status : Statuses \union {"ABSENT"}, lastError : Reasons,
    callbackUrl : Requests \union {NoRequest}]
NoEntry == [status |-> "ABSENT", lastError |-> NoError, callbackUrl |-> NoRequest]
Makers == {"none", "refresh", "reserve"}
Reports == [by : Requests, conn : Reserves, to : Requests \union {NoRequest},
    status : Statuses \union {"ABSENT"}, lastError : Reasons, second : BOOLEAN]
RunningTasks == {"reserving", "postingCommit", "committing", "terminating", "redelivering"}

TypeOK ==
    /\ agg \in [Reserves -> AggRecords]
    /\ posted \subseteq Calls /\ acked \subseteq Calls
    /\ net \subseteq Calls \X Kinds
    /\ objects \in [Reserves -> [Makers -> Entries]]
    /\ current \in [Reserves -> Makers]
    /\ inFlight \subseteq Reserves
    /\ pc \in [Requests -> {"idle", "finding", "resolving", "refreshed", "posting", "done"}]
    /\ aim \in [Terminates -> Reserves \union {NoRequest}]
    /\ view \in [Requests -> [Reserves -> AggRecords]]
    /\ held \in [Reserves -> [Reserves -> Makers]]
    /\ reply \in [Requests -> {"none", "202", "404", "409", "502", "lost"}]
    /\ told \in [Reserves -> Reserves \union {NoRequest}]
    /\ pending \subseteq Calls
    /\ future \in [Calls -> Kinds \union {"none", "waiting", "cancelled"}]
    /\ task \in [Requests -> RunningTasks \union {"none", "delivering", "done", "killed"}]
    /\ reports \subseteq Reports
    /\ crashed \in BOOLEAN

Init ==
    /\ agg = [c \in Reserves |-> Nothing]
    /\ posted = {} /\ acked = {} /\ net = {}
    /\ objects = [c \in Reserves |-> [m \in Makers |-> NoEntry]]
    /\ current = [c \in Reserves |-> "none"]
    /\ inFlight = {}
    /\ pc = [r \in Requests |-> "idle"]
    /\ aim = [t \in Terminates |-> NoRequest]
    /\ view = [r \in Requests |-> [c \in Reserves |-> Nothing]]
    /\ held = [r \in Reserves |-> [c \in Reserves |-> "none"]]
    /\ reply = [r \in Requests |-> "none"]
    /\ told = [r \in Reserves |-> NoRequest]
    /\ pending = {} /\ future = [call \in Calls |-> "none"]
    /\ task = [r \in Requests |-> "none"]
    /\ reports = {}
    /\ crashed = FALSE

(***************************************************************************)
(* The aggregator (external).                                              *)
(***************************************************************************)
Moves(c, from, to) ==
    /\ agg[c].lifecycle = "Created" /\ agg[c].reservation = from
    /\ agg' = [agg EXCEPT ![c].reservation = to]

Accepts(call) ==
    /\ call \in posted
    /\ \/ /\ call[1] = "reserve"
          /\ agg' = [agg EXCEPT ![call[2]] =
                [lifecycle |-> "Created", reservation |-> "ReserveChecking", errors |-> FALSE]]
       \/ call[1] = "commit" /\ Moves(call[2], "ReserveHeld", "ReserveCommitting")
       \/ /\ call[1] = "terminate"
          /\ agg[aim[call[2]]].lifecycle \in {"Created", "Terminating"}
          /\ agg' = [agg EXCEPT ![aim[call[2]]].lifecycle = "Terminating"]
    /\ posted' = posted \ {call} /\ acked' = acked \union {call}
    /\ UNCHANGED net

\* A request is always refused if the aggregator's state machine has no room for it.
Refuses(call) ==
    /\ call \in posted
    /\ \/ "refuse" \in Faults
       \/ call[1] = "commit" /\ (agg[call[2]].lifecycle # "Created"
                                 \/ agg[call[2]].reservation # "ReserveHeld")
       \/ call[1] = "terminate" /\ agg[aim[call[2]]].lifecycle = "Terminated"
    /\ posted' = posted \ {call}
    /\ UNCHANGED <<agg, acked, net>>

Answers(call, kind) == net' = net \union {<<call, kind>>} /\ UNCHANGED <<posted, acked>>

Progresses(c) ==
    \/ Moves(c, "ReserveChecking", "ReserveHeld") /\ Answers(<<"reserve", c>>, "confirmed")
    \/ Moves(c, "ReserveCommitting", "ReserveStart") /\ Answers(<<"commit", c>>, "confirmed")
    \/ /\ "fails" \in Faults
       /\ \/ Moves(c, "ReserveChecking", "ReserveFailed") /\ Answers(<<"reserve", c>>, "failed")
          \/ Moves(c, "ReserveHeld", "ReserveTimeout") /\ Answers(<<"reserve", c>>, "failed")
          \/ Moves(c, "ReserveCommitting", "ReserveFailed") /\ Answers(<<"commit", c>>, "failed")

Terminated(t) ==
    /\ <<"terminate", t>> \in acked
    /\ agg[aim[t]].lifecycle = "Terminating"
    /\ agg' = [agg EXCEPT ![aim[t]].lifecycle = "Terminated"]
    /\ Answers(<<"terminate", t>>, "confirmed")

\* Error events of the data plane come later and belong to ConnectionOps.
ErrorEvent(c) ==
    /\ "errorEvent" \in Faults
    /\ agg[c].lifecycle = "Created" /\ agg[c].reservation \in OpenReservations
    /\ ~agg[c].errors
    /\ agg' = [agg EXCEPT ![c].errors = TRUE]
    /\ UNCHANGED <<posted, acked, net>>

Environment ==
    /\ \/ \E call \in posted : Accepts(call) \/ Refuses(call)
       \/ \E c \in Reserves : Progresses(c) \/ ErrorEvent(c)
       \/ \E t \in Terminates : Terminated(t)
    /\ UNCHANGED <<storeVars, handlerVars, futureVars, taskVars, crashed>>

(***************************************************************************)
(* The stored reservations.                                                *)
(***************************************************************************)
Stored(c) == objects[c][current[c]]

\* The object a refresh writes: the stored one, or a new one.
Maker(c) == IF current[c] = "none" THEN "refresh" ELSE current[c]

RefreshedEntry(c, snapshot, errors) ==
    LET status == MapNsiStates([lifecycle |-> snapshot.lifecycle, provision |-> "Released",
                      reservation |-> snapshot.reservation, active |-> FALSE], errors)
    IN  [status |-> status,
         lastError |-> ResolveLastError([status |-> status, reason |-> NoError],
                          IF errors THEN "event" ELSE NoError, Stored(c).lastError),
         callbackUrl |-> Stored(c).callbackUrl]

\* Error events never go away, so a history read earlier, or not at all, is one without them.
ErrorsSeen(c) == {FALSE, agg[c].errors}

(***************************************************************************)
(* create_reservation.                                                     *)
(***************************************************************************)
Registers(call) ==
    /\ pending' = pending \union {call}
    /\ future' = [future EXCEPT ![call] = "waiting"]
    /\ posted' = posted \union {call}
    /\ UNCHANGED <<agg, acked, net>>

Replies(r, code) ==
    /\ pc' = [pc EXCEPT ![r] = "done"]
    /\ reply' = [reply EXCEPT ![r] = code]
    /\ view' = [view EXCEPT ![r] = [c \in Reserves |-> Nothing]]

MayStart(r) == Patience = "reply" =>
    \A other \in Requests \ {r} : pc[other] \in {"idle", "done"}

StartKeyed(r) ==
    /\ r \in Keyed /\ pc[r] = "idle" /\ MayStart(r)
    /\ pc' = [pc EXCEPT ![r] = "finding"]
    /\ UNCHANGED <<externalVars, storeVars, aim, view, held, reply, told, futureVars, taskVars, crashed>>

StartUnkeyed(r) ==
    /\ r \in Unkeyed /\ pc[r] = "idle" /\ MayStart(r)
    /\ pc' = [pc EXCEPT ![r] = "posting"]
    /\ Registers(<<"reserve", r>>)
    /\ UNCHANGED <<storeVars, aim, view, held, reply, told, taskVars, crashed>>

CandidatesFound(r) ==
    /\ r \in Keyed /\ pc[r] = "finding"
    /\ pc' = [pc EXCEPT ![r] = "resolving"]
    /\ view' = [view EXCEPT ![r] = [c \in Reserves |-> IF c \in Keyed THEN agg[c] ELSE Nothing]]
    /\ UNCHANGED <<externalVars, storeVars, aim, held, reply, told, futureVars, taskVars, crashed>>

\* A handler that learns nothing of what it asked for replies, and leaves everything as it is.
GivesUp(r, code) ==
    /\ pc[r] = "finding"
    /\ Replies(r, code)
    /\ UNCHANGED <<externalVars, storeVars, aim, held, told, futureVars, taskVars, crashed>>

FindFails(r) == "postFails" \in Faults /\ r \in Keyed /\ GivesUp(r, "502")

Candidates(r) == {c \in Keyed : view[r][c].lifecycle # "None"}

\* The candidates are resolved concurrently, each when its notifications have been queried.
CandidateResolved(r, c) ==
    /\ r \in Keyed /\ pc[r] = "resolving"
    /\ c \in Candidates(r) /\ held[r][c] = "none"
    /\ \E errors \in ErrorsSeen(c) :
          objects' = [objects EXCEPT ![c][Maker(c)] = RefreshedEntry(c, view[r][c], errors)]
    /\ current' = [current EXCEPT ![c] = Maker(c)]
    /\ held' = [held EXCEPT ![r][c] = Maker(c)]
    /\ UNCHANGED <<externalVars, inFlight, pc, aim, view, reply, told, futureVars, taskVars, crashed>>

AllResolved(r) ==
    /\ r \in Keyed /\ pc[r] = "resolving"
    /\ \A c \in Candidates(r) : held[r][c] # "none"

\* The live reservations among the candidates, by the status their objects have by now.
Live(r) == {c \in Candidates(r) : objects[c][held[r][c]].status # "TERMINATED"}

\* Faulty variant: only a reservation that is RESERVED is reused.
ReusableFaulty(r) == {c \in Live(r) : objects[c][held[r][c]].status = "RESERVED"}

\* The reservations that a repeated reserve may reuse: the first one the aggregator lists.
Reusable(r) == Live(r)

\* Faulty variant: a reservation that is still reserving keeps the first callbackURL.
AdoptedUrlFaulty(r, entry) == IF entry.status = "RESERVING" THEN entry.callbackUrl ELSE r

AdoptedUrl(r, entry) == r

Reuse(r, c) ==
    /\ AllResolved(r) /\ c \in Reusable(r)
    /\ LET existing == objects[c][held[r][c]]
       IN  /\ objects' = [objects EXCEPT ![c][held[r][c]] =
                 [existing EXCEPT !.callbackUrl = AdoptedUrl(r, existing)]]
           /\ task' = [task EXCEPT ![r] =
                 IF existing.status # "RESERVING" THEN "redelivering" ELSE @]
    /\ told' = [told EXCEPT ![r] = c]
    /\ Replies(r, "202")
    /\ UNCHANGED <<externalVars, current, inFlight, aim, held, futureVars, reports, crashed>>

ReserveAnew(r) ==
    /\ AllResolved(r) /\ Reusable(r) = {}
    /\ pc' = [pc EXCEPT ![r] = "posting"]
    /\ Registers(<<"reserve", r>>)
    /\ UNCHANGED <<storeVars, aim, view, held, reply, told, taskVars, crashed>>

\* Faulty variant: the aggregator's reservation state is stored instead of the proxy's status.
NewEntryFaulty(r) == [status |-> "ReserveChecking", lastError |-> NoError, callbackUrl |-> r]

NewEntry(r) == [status |-> "RESERVING", lastError |-> NoError, callbackUrl |-> r]

\* The ReserveResponse: a new object replaces whatever a refresh has stored for the connection.
ReserveAcked(r) ==
    /\ r \in Reserves /\ pc[r] = "posting" /\ <<"reserve", r>> \in acked
    /\ objects' = [objects EXCEPT ![r]["reserve"] = NewEntry(r)]
    /\ current' = [current EXCEPT ![r] = "reserve"]
    /\ inFlight' = inFlight \union {r}
    /\ task' = [task EXCEPT ![r] = "reserving"]
    /\ told' = [told EXCEPT ![r] = r]
    /\ Replies(r, "202")
    /\ UNCHANGED <<externalVars, aim, held, futureVars, reports, crashed>>

Cancelled(f) == IF f = "waiting" THEN "cancelled" ELSE f

\* cancel_pending, after a refusal or an HTTP failure whatever the aggregator did.
PostFailed(call) ==
    /\ "postFails" \in Faults \/ call \notin posted \union acked
    /\ pending' = pending \ {call}
    /\ future' = [future EXCEPT ![call] = Cancelled(@)]

HandlerPostFails(r) ==
    /\ pc[r] = "posting"
    /\ PostFailed(IF r \in Reserves THEN <<"reserve", r>> ELSE <<"terminate", r>>)
    /\ Replies(r, "502")
    /\ UNCHANGED <<externalVars, storeVars, aim, held, told, taskVars, crashed>>

(***************************************************************************)
(* _complete_reserve.  The mark of the reserve in flight is removed when   *)
(* the delivery of its result has ended.                                   *)
(***************************************************************************)
\* second tells a result from the first one of the same request, which the program does not do.
HasReported(r) == \E rep \in reports : rep.by = r

Reported(r, c, entry) == [by |-> r, conn |-> c, to |-> entry.callbackUrl,
    status |-> entry.status, lastError |-> entry.lastError, second |-> HasReported(r)]

Ends(r, c, status, lastError) ==
    LET entry == [Stored(c) EXCEPT !.status = status, !.lastError = lastError]
    IN  /\ objects' = [objects EXCEPT ![c][current[c]] = entry]
        /\ reports' = reports \union {Reported(r, c, entry)}
        /\ task' = [task EXCEPT ![r] = "delivering"]

Fails(r) ==
    /\ Ends(r, r, "FAILED", "operation")
    /\ UNCHANGED <<current, inFlight, handlerVars, crashed>>

\* reserveConfirmed: the commit is registered and posted.
ReserveConfirmed(r) ==
    /\ task[r] = "reserving" /\ future[<<"reserve", r>>] = "confirmed"
    /\ Registers(<<"commit", r>>)
    /\ task' = [task EXCEPT ![r] = "postingCommit"]
    /\ UNCHANGED <<storeVars, handlerVars, reports, crashed>>

ReserveFailed(r) ==
    /\ task[r] = "reserving" /\ future[<<"reserve", r>>] = "failed"
    /\ Fails(r)
    /\ UNCHANGED <<externalVars, futureVars>>

\* nsi_timeout of either phase.
WaitTimeout(r, phase, call) ==
    /\ task[r] = phase
    /\ future' = [future EXCEPT ![call] = Cancelled(@)]
    /\ Fails(r)
    /\ UNCHANGED <<externalVars, pending>>

\* Faulty variant: the answer to the reserve is awaited without a timeout.
ReserveTimesOutFaulty(r) == FALSE

\* Faulty variant: the timeout is reported, and the commit is awaited all the same.
CommitTimeoutGoesOn(r) ==
    /\ task[r] = "committing"
    /\ objects' = [objects EXCEPT ![r][current[r]] = [@ EXCEPT !.status = "FAILED",
                                                               !.lastError = "operation"]]
    /\ reports' = reports \union {Reported(r, r, objects'[r][current[r]])}
    /\ UNCHANGED <<externalVars, current, inFlight, handlerVars, futureVars, task, crashed>>

ReserveTimesOut(r) == WaitTimeout(r, "reserving", <<"reserve", r>>)
CommitTimesOut(r) == WaitTimeout(r, "committing", <<"commit", r>>)

CommitAcked(r) ==
    /\ task[r] = "postingCommit" /\ <<"commit", r>> \in acked
    /\ task' = [task EXCEPT ![r] = "committing"]
    /\ UNCHANGED <<externalVars, storeVars, handlerVars, futureVars, reports, crashed>>

CommitPostFails(r) ==
    /\ task[r] = "postingCommit"
    /\ PostFailed(<<"commit", r>>)
    /\ Fails(r)
    /\ UNCHANGED externalVars

\* Faulty variant: any answer to the commit counts as its confirmation.
CommittedFaulty(r) ==
    /\ task[r] = "committing" /\ future[<<"commit", r>>] \in {"confirmed", "failed"}
    /\ Ends(r, r, "RESERVED", NoError)
    /\ UNCHANGED <<externalVars, current, inFlight, handlerVars, futureVars, crashed>>

Committed(r) ==
    /\ task[r] = "committing" /\ future[<<"commit", r>>] = "confirmed"
    /\ Ends(r, r, "RESERVED", NoError)
    /\ UNCHANGED <<externalVars, current, inFlight, handlerVars, futureVars, crashed>>

CommitFailed(r) ==
    /\ task[r] = "committing" /\ future[<<"commit", r>>] = "failed"
    /\ Fails(r)
    /\ UNCHANGED <<externalVars, futureVars>>

\* Faulty variant: the mark stays when a result has been delivered.
FinishedFaulty(r) ==
    /\ task[r] = "delivering"
    /\ task' = [task EXCEPT ![r] = "done"]
    /\ inFlight' = inFlight
    /\ UNCHANGED <<externalVars, objects, current, handlerVars, futureVars, reports, crashed>>

Finished(r) ==
    /\ task[r] = "delivering"
    /\ task' = [task EXCEPT ![r] = "done"]
    /\ inFlight' = inFlight \ {r}
    /\ UNCHANGED <<externalVars, objects, current, handlerVars, futureVars, reports, crashed>>

Redelivers(r) ==
    /\ task[r] = "redelivering"
    /\ LET c == IF r \in Reserves THEN told[r] ELSE aim[r]
           entry == IF r \in Reserves THEN objects[c][held[r][c]] ELSE Stored(c)
       IN  reports' = reports \union {[Reported(r, c, entry) EXCEPT !.to = r]}
    /\ task' = [task EXCEPT ![r] = "done"]
    /\ UNCHANGED <<externalVars, storeVars, handlerVars, futureVars, crashed>>

(***************************************************************************)
(* terminate_reservation, for a connection that some requester was told.   *)
(***************************************************************************)
StartTerminate(t, c) ==
    /\ t \in Terminates /\ pc[t] = "idle" /\ MayStart(t)
    /\ \E r \in Reserves : told[r] = c
    /\ aim' = [aim EXCEPT ![t] = c]
    /\ pc' = [pc EXCEPT ![t] = "finding"]
    /\ UNCHANGED <<externalVars, storeVars, view, held, reply, told, futureVars, taskVars, crashed>>

TerminateSummary(t) ==
    /\ t \in Terminates /\ pc[t] = "finding"
    /\ view' = [view EXCEPT ![t][aim[t]] = agg[aim[t]]]
    /\ pc' = [pc EXCEPT ![t] = "refreshed"]
    /\ UNCHANGED <<externalVars, storeVars, aim, held, reply, told, futureVars, taskVars, crashed>>

TerminateSummaryFails(t) == "postFails" \in Faults /\ t \in Terminates /\ GivesUp(t, "502")

\* The aggregator may have dropped a connection that it has terminated.
TerminateNotFound(t) ==
    t \in Terminates /\ GivesUp(t, "404") /\ agg[aim[t]].lifecycle = "Terminated"

\* Faulty variant: RESERVING may be terminated whoever waits on it.
MayTerminateFaulty(t, status) ==
    \/ status \in {"RESERVED", "FAILED", "RESERVING"}
    \/ view[t][aim[t]].lifecycle = "Terminating"

MayTerminate(t, status) ==
    \/ status \in {"RESERVED", "FAILED"}
    \/ status = "RESERVING" /\ aim[t] \notin inFlight
    \/ view[t][aim[t]].lifecycle = "Terminating" /\ aim[t] \notin inFlight

Stores(c, entry, url) ==
    /\ objects' = [objects EXCEPT ![c][Maker(c)] = [entry EXCEPT !.callbackUrl = url]]
    /\ current' = [current EXCEPT ![c] = Maker(c)]
    /\ UNCHANGED inFlight

\* Faulty variant: the callbackURL is adopted before the dispatch.
UrlWhenRefusedFaulty(t, entry) == t

\* A refused terminate does not adopt its callbackURL.
UrlWhenRefused(t, entry) == entry.callbackUrl

TerminatedAlready(t, entry) ==
    /\ entry.status = "TERMINATED"
    /\ Stores(aim[t], entry, t)
    /\ task' = [task EXCEPT ![t] = "redelivering"]
    /\ Replies(t, "202")
    /\ UNCHANGED <<externalVars, aim, held, told, futureVars, reports, crashed>>

TerminateProceeds(t, entry) ==
    /\ entry.status # "TERMINATED" /\ MayTerminate(t, entry.status)
    /\ Stores(aim[t], entry, t)
    /\ pc' = [pc EXCEPT ![t] = "posting"]
    /\ Registers(<<"terminate", t>>)
    /\ UNCHANGED <<aim, view, held, reply, told, taskVars, crashed>>

TerminateRefused(t, entry) ==
    /\ entry.status # "TERMINATED" /\ ~MayTerminate(t, entry.status)
    /\ Stores(aim[t], entry, UrlWhenRefused(t, entry))
    /\ Replies(t, "409")
    /\ UNCHANGED <<externalVars, aim, held, told, futureVars, taskVars, crashed>>

TerminateDispatch(t) ==
    /\ t \in Terminates /\ pc[t] = "refreshed"
    /\ \E errors \in ErrorsSeen(aim[t]) :
          LET entry == RefreshedEntry(aim[t], view[t][aim[t]], errors)
          IN  TerminatedAlready(t, entry) \/ TerminateProceeds(t, entry) \/ TerminateRefused(t, entry)

TerminateAcked(t) ==
    /\ t \in Terminates /\ pc[t] = "posting" /\ <<"terminate", t>> \in acked
    /\ task' = [task EXCEPT ![t] = "terminating"]
    /\ Replies(t, "202")
    /\ UNCHANGED <<externalVars, storeVars, aim, held, told, futureVars, reports, crashed>>

TerminateEnds(t) ==
    /\ task[t] = "terminating"
    /\ future' = [future EXCEPT ![<<"terminate", t>>] = Cancelled(@)]
    /\ Ends(t, aim[t], "TERMINATED", Stored(aim[t]).lastError)
    /\ UNCHANGED <<externalVars, current, inFlight, handlerVars, pending, crashed>>

(***************************************************************************)
(* The callback endpoint, and a crash.  A process that starts again        *)
(* refreshes what the aggregator knows; that writes nothing which the      *)
(* first refresh of a handler would not write, so it is no step here.      *)
(***************************************************************************)
\* resolve_pending; a second answer, or one that nothing waits for, changes nothing.
DeliverAnswer(call, kind) ==
    /\ <<call, kind>> \in net
    /\ call \in pending
    /\ pending' = pending \ {call}
    /\ future' = [future EXCEPT ![call] = IF @ = "waiting" THEN kind ELSE @]
    /\ UNCHANGED <<externalVars, storeVars, handlerVars, taskVars, crashed>>

Crash ==
    /\ "crash" \in Faults /\ ~crashed /\ crashed' = TRUE
    /\ objects' = [c \in Reserves |-> [m \in Makers |-> NoEntry]]
    /\ current' = [c \in Reserves |-> "none"]
    /\ inFlight' = {}
    /\ pc' = [r \in Requests |-> IF pc[r] = "idle" THEN "idle" ELSE "done"]
    /\ reply' = [r \in Requests |-> IF pc[r] \in {"idle", "done"} THEN reply[r] ELSE "lost"]
    /\ view' = [r \in Requests |-> [c \in Reserves |-> Nothing]]
    /\ held' = [r \in Reserves |-> [c \in Reserves |-> "none"]]
    /\ pending' = {} /\ future' = [call \in Calls |-> "none"]
    /\ task' = [r \in Requests |->
          IF task[r] \in RunningTasks \union {"delivering"} THEN "killed" ELSE task[r]]
    /\ UNCHANGED <<externalVars, aim, told, reports>>

(***************************************************************************)
(* The specification.                                                      *)
(***************************************************************************)
Unanswered(r) == FindFails(r) \/ TerminateSummaryFails(r) \/ TerminateNotFound(r)

HandlerStep(r) ==
    \/ CandidatesFound(r) \/ Unanswered(r)
    \/ \E c \in Reserves : CandidateResolved(r, c) \/ Reuse(r, c)
    \/ ReserveAnew(r) \/ ReserveAcked(r)
    \/ TerminateSummary(r) \/ TerminateDispatch(r) \/ TerminateAcked(r)
    \/ HandlerPostFails(r)

TaskStep(r) ==
    \/ /\ r \in Reserves
       /\ \/ ReserveConfirmed(r) \/ ReserveFailed(r) \/ ReserveTimesOut(r)
          \/ CommitAcked(r) \/ CommitPostFails(r)
          \/ Committed(r) \/ CommitFailed(r) \/ CommitTimesOut(r)
    \/ r \in Terminates /\ TerminateEnds(r)
    \/ Finished(r) \/ Redelivers(r)

RequesterStep(r) ==
    \/ StartKeyed(r) \/ StartUnkeyed(r)
    \/ \E c \in Reserves : StartTerminate(r, c)

Next ==
    \/ \E r \in Requests : RequesterStep(r) \/ HandlerStep(r) \/ TaskStep(r)
    \/ \E call \in Calls, kind \in Kinds : DeliverAnswer(call, kind)
    \/ Environment
    \/ Crash

Spec == Init /\ [][Next]_vars

\* The event loop runs every coroutine that can run.  Nothing is asked of the aggregator: an HTTP
\* request that it does not answer fails at the client's timeout, an answer may never come.
FairSpec == Spec /\ \A r \in Requests : WF_vars(HandlerStep(r)) /\ WF_vars(TaskStep(r))

(***************************************************************************)
(* The promises that ConnectionOps keeps, kept by this module as well.     *)
(***************************************************************************)
AnswerOf(r) ==
    CASE reply[r] = "none" -> IF pc[r] = "idle" THEN "none" ELSE "asked"
      [] reply[r] = "202" -> "accepted"
      [] reply[r] \in {"404", "409"} -> "refused"
      [] reply[r] = "lost" -> "lost"
      [] OTHER -> "failed"

OwedTo(r) ==
    CASE task[r] = "redelivering" -> "repeat"
      [] task[r] \in RunningTasks \ {"redelivering"} -> "result"
      [] OTHER -> "nothing"

Promise == INSTANCE Promises WITH
    Askers <- Requests,
    Outcomes <- [r \in Requests |->
        IF r \in Reserves THEN {"RESERVED", "FAILED"} ELSE {"TERMINATED"}],
    Shown <- Statuses,
    answer <- [r \in Requests |-> AnswerOf(r)],
    owed <- [r \in Requests |-> OwedTo(r)],
    told <- {<<rep.by, rep.status, rep.second>> : rep \in reports},
    restarts <- IF crashed THEN 1 ELSE 0

\* Each request is answered once; only an accepted one gets a result, one result, and one that ends
\* its operation, also when the reserve and a repeat or a terminate meet (reservations.py 610-845).
KeepsPromises == Promise!Spec

(***************************************************************************)
(* Properties.                                                             *)
(***************************************************************************)
\* A repeat that comes after the earlier replies reserves anew beside a live connection of its
\* globalReservationId, or beside a reserve that may yet become one, only if the aggregator did not
\* list it when it was asked and its requester was not told of it: the reply was a failure or was
\* lost.  Failures, restarts and terminates in between do not make it overlook one that was
\* acknowledged (create_reservation, reservations.py:746-785).
RepeatReusesWhatIsThere ==
    [][\A r \in Keyed : pc[r] # "posting" /\ pc'[r] = "posting" =>
          \A c \in Keyed \ {r} :
             agg[c].lifecycle = "Created" \/ <<"reserve", c>> \in posted =>
                view[r][c].lifecycle = "None" /\ reply[c] \in {"502", "lost"}]_vars

\* Whoever is told RESERVED has a connection that the aggregator committed, whichever of the
\* answers to reserve and commit were lost, late or negative (_complete_reserve, 610-706).
ReservedMeansCommitted ==
    \A rep \in reports : rep.status = "RESERVED" =>
        agg[rep.conn].lifecycle # "None" /\ agg[rep.conn].reservation = "ReserveStart"

\* While a reserve of this proxy waits on a connection, no terminate is sent for it unless the
\* aggregator has already decided the reservation or reported an error (terminate, 1253-1278).
TerminateSparesReserve ==
    [][\A t \in Terminates :
          (pc[t] # "posting" /\ pc'[t] = "posting" /\ aim[t] \in inFlight) =>
              \/ agg[aim[t]].errors
              \/ agg[aim[t]].reservation \in {"ReserveStart"} \union FailedReservations]_vars

\* A terminate that was answered 404 or 409 never gets the result of the reserve it met: the refusal
\* comes before the callbackURL is adopted (terminate_reservation, 1245-1280).
RefusedTerminateGetsNothing ==
    \A rep \in reports : rep.to \in Terminates => reply[rep.to] \notin {"404", "409"}

\* After a retry was told a connection, the first requester's URL is not used for it any more:
\* the reserve task delivers to the updated one (create_reservation, 757-760).
RetryTakesOver ==
    [][\A rep \in reports' \ reports :
          rep.to \in Keyed /\ rep.conn = rep.to => \A r \in Keyed \ {rep.to} : told[r] # rep.conn]_vars

\* The mark of a reserve in flight, which makes terminate refuse, is removed whatever the reserve
\* met: failed or lost answers, timeouts, a refused commit (the finally of _complete_reserve).
MarkIsRemoved == \A c \in Reserves : c \in inFlight ~> c \notin inFlight

\* A reserve that was accepted gets a result reported, whatever is lost and whoever terminates the
\* connection meanwhile, unless the process dies first (_complete_reserve, 610-706).
AcceptedReserveReports ==
    \A c \in Reserves : told[c] = c ~> crashed \/ \E rep \in reports : rep.by = c

\* README.md:403: "A repeat reserve carrying the same globalReservationId is idempotent: instead
\* of creating a duplicate, the proxy reuses the existing reservation".  Two live connections with
\* the same globalReservationId, each acknowledged to its own requester, are such a duplicate.
RepeatMakesNoDuplicate ==
    \A c, d \in Keyed :
        (\A r \in {c, d} : told[r] = r /\ agg[r].lifecycle = "Created") => c = d
=============================================================================
