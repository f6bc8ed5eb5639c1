# Verification of the NSI aggregator proxy

The proxy (`src/aggregator_proxy`) puts a small JSON API in front of an NSI Connection Service
aggregator. A requester reserves, provisions, releases, terminates, reads and lists connections;
the proxy turns each operation into a SOAP request, answers the requester with `202` at once, and
delivers the final result later to the `callbackURL` the requester gave. It keeps no durable state:
the aggregator is the source of truth, and the status of a reservation is derived anew from the
aggregator's answers on every read.

This directory holds TLA+ modules for the parts of the proxy where something can go wrong between
two awaits, the TLC configurations that check them, and proofs checked by TLAPS.

## 1. Inventory

| Component | Code | State | Operations | Modelled |
|---|---|---|---|---|
| State mapping | `state_mapping.py` | none | `map_nsi_states_to_status`, `derive_status` | `StateMapping`, `StatusHistory` |
| Provision, release, terminate | `routers/reservations.py` 848-1313 | handler and completion-task locals | three handlers, three `_complete_*` tasks | `ConnectionOps`, terminate also in `Reserve`; what they promise in `Promises` |
| Refresh, GET, list | `routers/reservations.py` 236-574, 1332-1390 | locals of the refresh, the future of a recursive query | summary, recursive, notification and result queries, `_update_store_from_query` | `ConnectionOps` (beside the operations), `Reads` (beside each other) |
| Reservation store | `reservation_store.py` | reservations, futures by correlationId and by connection, reserves in flight | create/update, register/resolve/cancel | `ConnectionOps` (one entry), `Reserve` (the objects behind an entry, marks), `Reads` (several entries) |
| NSI callback endpoint | `routers/nsi_callback.py` | none of its own | dispatch a message to the futures | `ConnectionOps`, `Reserve`, `Reads` |
| Start and stop | `main.py` | the whole process | startup refresh; a crash forgets everything | `ConnectionOps` |
| Reserve and commit | `routers/reservations.py` 577-845 | reserve task, reserves in flight | `create_reservation`, `_complete_reserve` | `Reserve`, `Promises` |
| Callback delivery | `routers/reservations.py` 139-169 | attempt counter, payload | `_send_callback` | `CallbackDelivery` |
| Error events | `nsi_soap/parser.py`, `routers/reservations.py` 170-276 | notification ids already seen | choose and format `lastError`, remember and log events | `ConnectionOps` (that one exists and wins), `Reads` (which one, and what is logged) |
| Authentication, MCP server | `auth.py`, `mcp_server.py` | none | who is let in, by headers or by the claims of a token | `Gateway` |
| Settings, uPA client | `settings.py`, `nsi_client.py`, `dependencies.py` | the environment of the process | validation at the start | `Gateway` (what relates settings to each other) |
| Providers | `routers/providers.py`, `dds_proxy.py` | none | list the peers of the aggregator, query one | `Gateway` |
| SOAP builder and parser, clients, logging, chart | `nsi_soap/*`, `nsi_client.py`, ... | none | I/O, formatting, wiring | no |

How they interact: everything runs on one asyncio event loop. A handler refreshes the reservation
(two or three queries), dispatches on the refreshed status, registers a future under a new
correlationId, posts the SOAP request and, when it is acknowledged, starts a completion task. The
callback endpoint wakes the task through the future. A provision or a release task then registers a
second future under the connectionId and waits for a `DataPlaneStateChange`. Every refresh and every
task writes the same `Reservation` object, and the result is built from that object.

What makes this hard, and what has to hold (the list with source lines is `hazards` in
`PROJECT.json`):

* interleavings of handlers, tasks and refreshes on one stored object: the status, the error and the
  `callbackURL` it holds must belong together;
* answers that overtake acknowledgements, come after the timeout or never;
* idempotency: a repeated reserve is recognised only through what the aggregator lists;
* a reserve in flight and a terminate of its connection: who may go on, and who gets which result;
* one slot per connection for data-plane notifications, however many tasks wait;
* snapshots: a refresh is put together from answers given at different times, and written later;
* restarts, which lose every task and every future while the aggregator carries on;
* deadlines computed from timestamps of a history that spans several provision/release cycles;
* liveness: each request is answered, each task ends with a result, the status converges;
* a requester that is not ready for its result yet, or took it while the answer was lost;
* reads that overlap each other: every one of them writes the store and answers from it;
* two ways to decide one question: the list of providers and their query, a group in a header and the
  same group in a token.

## 2. Modules

`StateMapping` -- the pure functions, as operators: `MapNsiStates` is the priority list of
`map_nsi_states_to_status`; `Refine` holds the decisions of `derive_status` and `DeriveStatus` the
same over explicit timestamps; `ResolveLastError` is `_resolve_last_error`. A timestamp that is
absent or unreadable is `NoTime`; an error text is one of the four sources it can come from.

`StatusHistory` (instance `MCStatusHistory`) -- `derive_status` over time. The aggregator's history
grows by results and data-plane changes while a clock runs; ghost variables record what really
happened (`opAt`, `dropped`), and the derived status is compared with it at every moment.

`Aggregator` -- the environment, all of it external: the aggregator's record of one committed
connection, the requests on their way to it, and the answers and notifications on their way back.
Its actions are what the proxy's code has to be prepared for: accepting, refusing, confirming,
answering with another message, the data plane coming up and going down, error events, a forced end,
forgetting a terminated connection. Messages are a set that is delivered in any order or never.
`Faults` selects the failures of a run; each name is a guard.

`ConnectionOps` -- the proxy around that connection. An action is what a coroutine does between two
awaits. The correspondence:

| Variable | Code |
|---|---|
| `store` | the `Reservation`: `status`, `last_error`, `callback_url` |
| `pc`, `asked`, `view` | the position of a handler, the queries of its refresh that are open, and the parts of the answers it has |
| `reply` | the HTTP status the requester got |
| `pending`, `future` | `_pending` and the futures in it |
| `waiter`, `dpFuture` | `_pending_by_connection` and the futures in it |
| `task` | the position of `_complete_provision`, `_complete_release`, `_complete_terminate` or of a re-delivery |
| `reports` | the results handed to `_send_callback` |

| Actions | Code |
|---|---|
| `StartRefresh`, `SummaryAnswered`, `NotificationsAnswered`, `ResultsAnswered`, `SummaryFails`, `NotFound` | `_refresh_reservation`, `_refresh_all_reservations` and their queries |
| `Retrieve` | GET, list and the startup refresh |
| `Redeliver`, `JoinInFlight`, `Refuse`, `Proceed` | the `match reservation.status` of the three handlers |
| `PostAcked`, `PostFails`, `PostGarbled` | the synchronous answer to the posted request |
| `ConfirmArrives`, `UnexpectedArrives`, `ConfirmTimeout`, `TerminateEnds` | the first wait of a task (`nsi_timeout`) |
| `DataPlaneReaches`, `DataPlaneErrs`, `DataPlaneDiffers`, `DataPlaneTimeout`, `WatchCancelled`, `HistoryAnswered`, `DataPlaneMissed` | `_await_dataplane_change` and `_dataplane_failure` |
| `Redelivers` | a re-delivery task that runs for the first time |
| `DeliverAnswer`, `DeliverNotification` | `nsi_callback` |
| `Crash` | a restart: all state is lost, the startup refresh runs again |

`Reserve` (instance `MCReserve`, for symmetry) -- the phase before: `POST /reservations`, the two-phase reserve and commit behind it, and
the terminate that may meet it. There are several connections, each named like the request it was
created for, and the aggregator's record of each is part of the module.

| Variable | Code |
|---|---|
| `agg`, `posted`, `acked`, `net` | external: the aggregator and the calls and answers between it and the proxy |
| `objects`, `current` | the `Reservation` objects of a connection, and which of them `_reservations` holds: the one a refresh made, or the one the `ReserveResponse` made |
| `inFlight` | `_reserves_in_flight` |
| `pc`, `view`, `held` | the position of a handler, the summary its refresh got, the objects its candidates resolved to |
| `reply`, `told`, `aim` | the HTTP status, the connectionId in it, the connection a terminate is for |
| `pending`, `future`, `task`, `reports` | as in `ConnectionOps`; a call `<<operation, request>>` stands for a correlationId |

| Actions | Code |
|---|---|
| `StartKeyed`, `CandidatesFound`, `FindFails`, `CandidateResolved`, `Reuse`, `ReserveAnew` | `create_reservation` up to the post, `_find_reservation_by_global_id`, `_finalize_refresh` |
| `StartUnkeyed`, `ReserveAcked`, `HandlerPostFails` | the post of the reserve and its synchronous answer |
| `ReserveConfirmed`, `ReserveFailed`, `ReserveTimesOut`, `CommitAcked`, `CommitPostFails`, `Committed`, `CommitFailed`, `CommitTimesOut` | `_complete_reserve` |
| `Finished` | the end of the delivery; for a reserve the `finally` that removes the mark |
| `StartTerminate`, `TerminateSummary`, `TerminateSummaryFails`, `TerminateNotFound`, `TerminateDispatch`, `TerminateAcked`, `TerminateEnds` | `terminate_reservation`, `_complete_terminate` |
| `Redelivers`, `DeliverAnswer`, `Crash` | as in `ConnectionOps` |

`Promises` -- an operation as its requester sees it, and the abstract specification that `ConnectionOps`
and `Reserve` implement: a request is asked and then accepted, turned down or lost with a restart;
an accepted request may be owed a result, or the repeat of an older one; what is owed is told once, and
a result has a status that ends the operation. A result that is told again is told as a second one, so
that an identical repetition shows. The refinement mapping is `Promise` in either module:
`answer` comes from `pc` and `reply`, `owed` from `task` (a task that died owes for ever), `told` from
`reports`, `restarts` from the crashes; in `Reserve` the store, the marks and both futures of a
reserve disappear behind it. `KeepsPromises == Promise!Spec` is the property.

`CallbackDelivery` -- one call of `_send_callback` per delivery, all to the callbackURL of one
requester, whose process (external) awaits a result now and then and answers `409` otherwise. An exchange
can be lost before or after the requester took the result. `phase` and `attempt` are the loop, `payload`
is the version of the reservation that was serialised, `left` the rest of the sleep; `age` and `readyAge`
date what happened for `NotGivenUpEarly`.

`Reads` (instance `MCReads`) -- several reads over several connections: `GET` with detail summary or full
(`StartGet` to `Retrieve`), with detail recursive (`StartRecursive` to `QueryResolved`, then as before), and
the list (`StartList` to `ListReplies`). Where `ConnectionOps` knows whether there is an error event,
`Reads` has the notification ids, the ids remembered in `_record_seen_error_events` and how often each
event was logged as new. `asOf` dates an entry of the store by the moment its summary was taken, and
`stale` collects the answers that are older than their request; both are not in the program.

| Variable | Code |
|---|---|
| `agg`, `moves`, `asks`, `net` | external: the aggregator's records, its clock, the recursive queries it has, its callbacks |
| `store`, `logged` | `_reservations`, and the "New error events" log |
| `pc`, `aim`, `asked`, `todo`, `refined`, `view` | the position of a handler, its connection, its open queries, what is still to be written, what has been read |
| `pending`, `future` | `_pending` and the futures of the recursive queries |

`Gateway` (instance `MCGateway`) -- what keeps no reservations. `Starts` is the validation of the
settings; `Judge` and `JudgeCallback` are the two authentication dependencies, `HeadersOf` the headers that
each route gives a caller, `ForwardUserIdentity` the hook of the MCP client among them: it edits a request that may carry headers
already, and writes over them what the token says, as far as it says anything; `AsksProviders` to
`UpaAnswers` are the two routes of the providers, each with its own read of the DDS, whose documents
change in between (`DdsChanges`).

`StateMapping_proofs` -- lemmas about the pure functions; `StatusHistory_proofs`, `ConnectionOps_proofs`,
`Reserve_proofs`, `CallbackDelivery_proofs`, `Reads_proofs`, `Gateway_proofs` -- the theorems about the state
machines, and that the handlers and tasks implement `Promises`.

Assumptions and abstractions of `ConnectionOps`:

* One connection that is already committed, starting either released or active; no reserve is in
  flight for it, so `is_reserve_in_flight` is false in the guard of terminate. The reserve phase is
  the subject of `Reserve`.
* Time is logical: `provAt`, `relAt` and `upAt` number the results, and `sla` says which of them are
  older than `DATAPLANE_TIMEOUT`. What the real timestamps add is the subject of `StatusHistory`.
* A timeout may fire whenever the task waits, also when the answer is already in the future but the
  task has not resumed.
* The data plane comes up at most once after each `provisionConfirmed`, and after it.
* An operation whose effect the connection is in already (a provision of a provisioned connection)
  may be accepted once more or refused by the aggregator.
* Delivering a result is one step, the handing over to `_send_callback`; the rest is `CallbackDelivery`.
* A requester sends each operation once; `Provisions`, `Releases` and `Terminates` are sets, so a
  retry is another member. `Patience` says what a requester waits for before the next operation is
  started: nothing, the reply of the others, or their result.
* The `except Exception` branch of the tasks ("internal error") has no trigger in what is modelled.

Assumptions and abstractions of `Reserve`:

* All `Keyed` requests carry the same `globalReservationId`, `Unkeyed` ones carry none. Of several
  live candidates the code takes the first one the aggregator lists; the model takes any.
* The handling of a summary is split where the code awaits: each candidate is resolved on its own,
  when its notifications have been queried, and the status of the resolved objects is read again when
  all of them are there.
* A terminate names a connection that some requester was told; a connection whose reply was lost is
  known to nobody.
* An answer in `net` stays there: it may arrive late, twice or never. A lost answer is a wait that
  times out. Error events of the data plane belong to `ConnectionOps`; here they can come before the
  commit only, which is what lets a refresh see `FAILED` while the reserve task waits.
* GET, list and the startup refresh are no steps of their own: what they write is what the first
  refresh of a handler writes, see `ConnectionOps` and `Reads` for reads that overlap. Left out as well are an
  answer to the reserve that cannot be parsed (it raises out of the handler like in `ConnectionOps`) and
  the "internal error" branch.

Assumptions and abstractions of the other three:

* `CallbackDelivery`: time passes in steps of the delay's unit, an exchange takes any time; the requester
  takes one result for each step of its process that awaits one. `stored` is only a version number.
* `Reads`: no operation runs beside the reads; what changes a connection is the aggregator. A result
  history makes of a transient status whatever `Refine` can make of it (`Resolutions`); when it does which
  is the subject of `StatusHistory`. A recursive query is answered at most once, with the connection as it
  is when it is answered. The segments of an answer are copied and left out.
* `Gateway`: a header is the set of names between its commas; a claim has the names it holds and a shape (a
  list, one text, or neither, of which `_serialize_groups` makes nothing). Requests are judged in one step,
  which has no await in it. A token reaches the hook only when fastmcp has verified it; tokens that it
  refuses are outside. Which headers a request carries when it comes to the hook is decided by fastmcp:
  `Carried` is any set of them. `GET /health` and the documentation routes
  have no step; the latter are judged like a read.

## 3. Runs

Each property of a passing run has a mutant of the code that breaks it (`mutants` in
`PROJECT.json`; the faulty variants stand before the definitions they vary).

| Run | Instance | Question |
|---|---|---|
| `status_history` | clock to 9, 4 results, timeout 2, startTime absent, 0 or 4 | Is a drop recognised exactly when there was one, is nothing failed early, does no transient status outlast its deadline, does time alone never undo a failure? |
| `conn_faults` | one provision, one terminate, unsynchronised; every fault; one crash | Types; does the answer to a request always find its future; does a refused terminate never get a result; is a healthy status free of errors, and a failure never without one unless the aggregator failed the connection itself; does no read take away the entry that a task is about; who can bring a reservation back after its termination was confirmed? |
| `conn_patient` | one provision, release and terminate, each after the result of the other; drops, error events, unexpected answers | Is the task that watches the data plane the one that is woken, do results go to the request that started the operation, is a confirmed termination final, is success reported only when earned? |
| `conn_live` | one provision, one release, each after the reply to the other; failing posts, unexpected answers, error events; fairness of the proxy only | Is every request answered, and does every task report unless the end of the other operation cancelled its wait? Does each step keep the promises? |
| `conn_converges` | one provision, one release, and somebody who keeps listing; the clock moves | Does the status settle? |
| `reserve_retries` | a reserve and its repeat with the same id, one after the reply of the other, one terminate; failed answers, failing posts, one crash | Does a repeat reserve anew beside a live connection only when that was neither listed nor acknowledged; is RESERVED reported only of a committed connection; does the retry take the result over; does each step keep the promises? |
| `reserve_terminate` | one reserve, two terminates of its connection; failed answers, error events, failing posts; fairness of the proxy only | Is no terminate sent under a waiting reserve without reason; does a refused terminate get nothing; is the mark always removed; does the reserve always report? |
| `callback_delivery` | two deliveries, three attempts, a requester whose process awaits a result twice, one write of the store, lost requests and answers; fairness of the delivery | Is a result taken once, as it was when the delivery began; is it given up only on a requester that was not ready in time; does every delivery end? |
| `reads` | two connections, a `GET`, a recursive `GET` and a list, two of them at a time; one event at the aggregator; failing and garbled answers, unexpected callbacks | Does a list show every reservation, none older than the oldest request it overlapped; is an error event logged once? |
| `gateway` | 83 settings, one request of each kind, every claim and three sets of carried headers, two NSAs, two URLs, one change of the DDS | Does a failed start prevent the failing assertion; is only a peer asked, at a URL of its own; are the list and the query exact; do both surfaces decide alike? |
| `bad_*` | small instances of `ConnectionOps` and `Reserve` | Statements of the documentation that the code does not meet, see section 5 |

Bounds. `conn_faults`: two operations are what it takes for one task to
run into another one's future, store entry or `callbackURL`; three of different kinds are covered by
`conn_patient`, where they come one after the other. One crash is enough for a second startup
refresh and for answers that arrive for tasks that no longer exist. `status_history`: four results are
two full cycles of provision and release, and nine instants leave room for each to become overdue.
`reserve_retries`: a repeat is about one earlier request, so two are enough for a lost reply, a retry and
the answer to either; the terminate makes room for a reservation that is no longer live.
`reserve_terminate`: the first terminate is refused or sent, the second meets what it left; in both runs
requesters wait for the `reply` of one another, while the completion tasks behind the replies overlap.
`callback_delivery`: three attempts are a first, a middle and a last one; two deliveries compete for two
steps of the process, so that one of them meets `409` also after the other was taken. `reads`: two
connections are what it takes for a list to write one while it still reads the other, and `MaxActive`
keeps two requests under way, the pairs that overlap; `MaxMoves` and `MaxEvents` of one give each of them
a before and an after, which is what staleness and "seen already" are about (a second move and three
requests at a time exceed what can be explored in minutes). `gateway`: `MCConfigurations` has every combination
of the settings that decide who is let in, every combination of those of the uPA queries, and both
together; `MCCarried` has a request that carries nothing, one with a user and a group, and one with a client
certificate; the one change of the DDS can lie between any two reads of it.
`Boot`, the startup refresh, is part of every run of `ConnectionOps` and goes through the code of a list;
`l1` is a client's list and `g1` a GET.

`TerminateSparesReserve` allows what the code means to allow: a connection that the aggregator has
decided (committed, or failed) or for which it reported an error event counts as `RESERVED` or `FAILED`
and may be terminated even while the task has yet to take notice.

`ConfirmedTerminationIsFinal` is checked of operations that take turns, without reads: a GET or another
operation that has read the connection before the termination was confirmed may write what it saw
afterwards. What holds with overlaps is `LateComersRespectTheEnd`, in `conn_faults`: after the end only those can
bring the reservation back, and they only become fewer. It is proved for any number of operations and reads.

`RepeatReusesWhatIsThere` speaks of the moment a request posts its reserve, and of every connection that lives
by then or may yet come of a call on its way. It excuses the repeat only where it cannot have known better:
the aggregator did not list the connection, and the requester got a failure or no reply for it. Section 5
says what follows when both are the case.

`SamePolicy` compares a tool call with the portal's request of the same user. It asks for a groups claim that is
a list or a text, and for either a request that carries no headers of its own or a token with both an email
address and groups: `_forward_user_identity` writes no header for a claim that is missing, and leaves the
one that the request came with.

Deadlock checking is off: when every request is answered and the aggregator has nothing to report,
the system is at rest. The same holds for `Reserve`; in
`Gateway` a refused start is the end. `reads` and `callback_delivery` check deadlock.

Fairness. `FairSpec` assumes weak fairness of the proxy's own steps only, separately for the
refresh, the dispatch, the post and the completion of each request. The code justifies it: every await
of a handler is an HTTP call that answers, fails or times out, every wait of a task is bounded by
`nsi_timeout` or `dataplane_timeout`, and a ready coroutine is resumed by the event loop. Nothing is
assumed of the aggregator, of the delivery of messages or of requesters.
`FairSpec` of `Reserve` has weak fairness of the handler and of the task of each request; there a post
whose answer never comes fails at the HTTP client's timeout, which is `HandlerPostFails` or
`CommitPostFails` under the fault `postFails`. `FairSpec` of `CallbackDelivery` has weak fairness of each
delivery and of the clock: the HTTP client ends every exchange after five seconds, and a sleep ends.
`PolledSpec` adds what convergence needs: somebody keeps reading, and the clock passes
`DATAPLANE_TIMEOUT`.

## 4. Proofs

`ConnectionOps_proofs` proves for every set of requests, every set of faults, every `Patience` and
every bound on crashes, from the named assumptions on the constants (the kinds of requests are
disjoint, `NoRequest` is none of them):

* `TypeCorrect` -- `[]TypeOK`. Inductive as it stands, one step per action. It rests on lemmas about
  the pure functions (`MappedStatus`, `RefinedStatus`, `ResolvedError`) and on one lemma for each of
  the shapes a step shares (`AnswersAreTyped`, `EndIsTyped`, `AggregatorTyped`).
* `HealthyNeverFails` -- `[]HealthyHasNoError`. Inductive on top of the types. The point is
  `RefreshedIsHealthy`: a refresh that saw an error event derives a terminal status
  (`ErrorIsTerminal`), and one that saw none resets the error unless it derives `FAILED`.
* `AnswersFind` -- `[]AnswersFindTheirWaiter`, with the strengthening `TasksFollowReplies`: a task
  exists only after its handler has replied, so the clean-up of a failed post never hits it.
* `RefusedGetNothing` -- `[]RefusedTerminateGetsNoResult`, through `RefusedInv`: a terminate that has
  not been dispatched is not the stored `callbackURL` either, and a reply is final.
* `SuccessEarned` -- `[]SuccessIsEarned`, through `EarnedInv`: while a task watches the data plane its
  confirmation is in its future, and once it has reported nothing touches its futures.
* `FailuresExplained` -- `[]FailureIsExplained`, through `ExplainedInv`: a snapshot that shows the connection
  `Failed` may be old, but a connection never becomes `Created` again (`NeverCreatedAgain`), so whatever
  derives `FAILED` from it without a reason is still right when it is written.
* `ReportedOnce` -- no request is sent a second result, and none is sent one that was not answered `202`. The
  results of the model are records that say whether the same request had one before, so an identical second one
  would show.
* `TheEndIsRespected` -- `LateComersRespectTheEnd`: a confirmation, whether in flight or received, means that the
  aggregator has ended the connection for good, so a refresh that reads from then on can derive nothing but
  `TERMINATED`, on which no operation is dispatched. Nothing is assumed of who overlaps whom.

For requesters that take turns (`ASSUME Patience = "result"`): the code serialises nothing itself, and without
turns (`Patience = "reply"` in `conn_patient.cfg`) TLC finds a counterexample to each.

* `WatcherRegistered` -- `[]WatcherIsRegistered`. `TurnsInv` says that at most one operation is under way;
  `OnlyStartsGetUnderWay` is the lemma that makes it inductive.
* `ResultsComeHome` -- `[]ResultsGoHome`, through `HomeInv`: from its dispatch to its result the stored
  `callbackURL` is the operation's own.

`Reserve_proofs` proves for every set of requests, faults and every `Patience`, from `ReserveAssumption`
(the kinds of requests are disjoint, `NoRequest` is none of them):

* `TypeCorrect` -- `[]TypeOK`, through `TInv == TypeOK /\ Aimed`: types alone are not inductive, because a
  terminate writes to the entry its `aim` names, and must have one when it gets that far. The lemmas
  follow the parts of `Next`: handlers, tasks, requesters, the environment, deliveries, the crash.
* `RefusedGetsNothing` -- `[]RefusedTerminateGetsNothing`, through `OInv`, which adds `Owned`: wherever
  the `callbackURL` of a terminate is found (in any object of the store, in a pending re-delivery, in a
  report), that terminate got past its dispatch, and a reply of 409 is final. `KeptStays` is the lemma
  that no step takes this away; `OwnedStores` and `OwnedEnds` are the two ways a step writes the store.

* `ReservedIsCommitted` -- `[]ReservedMeansCommitted`, and `SparesReserve` -- `TerminateSparesReserve` --, both
  through `CourseInv`, which ties every future, every answer under way and every snapshot to the aggregator's
  record: a reserve is sent once and its connection exists from its acceptance on (`SentOnce`); a snapshot
  may be old, but where it shows the reservation as decided it is still right (`Sighted`, `Follows`); a commit
  is confirmed, and an object shown as `RESERVED` or `TERMINATED`, only when the aggregator has come that
  far (`Warranted`). The two properties are steps from there.
* `ReportedOnce` -- as in `ConnectionOps_proofs`, for reserves, repeats and terminates.
* `RepeatsReuse` -- `RepeatReusesWhatIsThere`, and `TakenOver` -- `RetryTakesOver` --, for requesters that wait for
  each other's reply (`ASSUME Patience = "reply"`; the run `bad_duplicate_reserve` shows what happens
  without it). `PatientInv` adds to `CourseInv` that one handler is active at a time (`Alone`), that
  a connection has one object and whoever was told of another's connection has its `callbackURL` by
  then (`OneObject`), that as long as a connection lives that its own requester was told everybody else with its
  `globalReservationId` is listed it (`Listed`), and that a reserve that was answered `202` has been told the
  connection made for it and has nothing on its way any more (`Informed`).

`ConnectionOps_proofs` and `Reserve_proofs` also prove that the two state machines implement `Promises`, for every
value of the constants: `Refines` is `Spec => KeepsPromises`, in both. The initial states map to initial
states; each action maps to a step of `Promises` or to none, which is done once for each shape
(`AskStep`, `AcceptStep`, `TurnDownStep`, `TellStep`, `NothingPromised`) and then per group of actions. The
steps need an invariant: a handler has replied exactly when it is done (`HandlersInv`, `Replied`), so
that it accepts or turns down once; and whatever a task reports shows a status that the API knows, because
the entry it is built from exists (`StoredInv`, `Existing`). The first of these gives
`TasksHaveReservation` -- `[]TasksFindTheirReservation` -- on the way: only a restart takes an entry away.

`CallbackDelivery_proofs`, for any number of deliveries and attempts, any delay and any bound, from
`DeliveryAssumption`:

* `TypeCorrect` -- `[]TypeOK`, through `TInv`: a delivery that has not begun has posted nothing, and a result is
  taken only in a step of the requester's process that has been counted.
* `TakenOnce` and `TakenAsSerialised` -- through `AInv`: a delivery that sleeps has been answered `409`, so
  what the requester took of it was taken from its last exchange, and nothing is posted after that.
* `GivesUpLate` -- `[]NotGivenUpEarly`, through `GInv`: `Timed` ties the age of a delivery to the attempts it
  has made (`DueFacts` is the arithmetic), `Heard` says that a requester that awaited a result still does or
  took one, and `Late` puts them together at the last attempt.

`Reads_proofs`, for any number of connections, requests and moves, and at most three events each:
`LoggedOnce` -- `[]EventsLoggedOnce`, through `IInv`: an event has been logged once if it is remembered and
never if not (`Logged`), whichever refresh writes (`StoreUpdated`, `EntryUpdated`), and the ids remembered
are never replaced. `Typed` and `Aimed` are the part of the types that this takes.
`TypeCorrect` and `ListsAreFresh` -- `[]ListIsFresh` -- follow from `DInv`, which
dates everything: nothing is dated later than now (`Clocks`), what a handler has read is not older
than its request (`Sourced`, `Found`), what it overlaps is accounted for (`Overlaps`), and what is in the store
when it answers is what it wrote or what a newer one wrote (`Written`). The assumption that `"summary"` is
not a connection is there because `asked` holds both.

`StatusHistory_proofs`, for any timeout, any start time and histories of any length: `DropsDetected`,
`NothingFailedEarly`, `TransientsBounded` and `FailuresOutlastTime`. `HInv` says that the results and the
changes are in the order of their times (`Ordered`), that `provision`, `opAt` and `dropped` are what the last of them
make of the connection (`Recorded`), and that an active or dropped data plane has a change after the
confirmation that explains it (`Explained`). `DerivedAgrees` then turns `DeriveStatus`, which looks through
the history, into what the four properties say, and `LatestResult` is the lemma about its look-up.

`Gateway_proofs`, for any settings, callers and documents: `TypeCorrect`, `AsksPeersOnly`, `OnePolicy` and
`ListExact`, through `IInv`: a process that runs has had its settings validated (`Validated`), only a request for
providers is ever in progress, and it has seen whatever the DDS lists now (`Busy`, `Seen`), an answer is the
judgement of the caller's headers (`Judged`), and what a list has shown is what the documents still say
(`Shown`). `OnePolicy` -- `[]SamePolicy` -- rests on `SameJudgement`: where the policy is enforced and the tools are
offered the settings have the hook installed (`McpAuthorises`), and under the conditions of `Forwarded` nothing
that `Judge` looks at is left of what the request carried.

`StateMapping_proofs` holds the lemmas about the pure functions that these rest on, and those about the helpers:
the latest result of a history, the larger of two, and the least of a set of naturals (`MinIsLeast`, by the
well-foundedness of `<`).

Every invariant and every action property of the passing runs is stated by one of these theorems, except
`ConfirmedTerminationIsFinal`: what holds of it in general is `TheEndIsRespected`.

Only model-checked: liveness, because fairness and `ENABLED` are outside what the prover supports
(`RequestsAreAnswered`, `TasksReport`, `Converges`, `MarkIsRemoved`, `AcceptedReserveReports`, `DeliveryEnds`). The two
violations are TLC's as well. What `MapNsiStates` and `DeriveStatus` return is proved as far as the theorems need
it; a value for each input is not a theorem of its own.

## 5. Findings

Each is a run that TLC must find violated, with the line it contradicts quoted in `PROJECT.json`.

* `bad_task_dies` -- `cancel_pending_by_connection` cancels whichever future is registered. A provision
  task that times out kills a release task that is watching, and its requester never hears.
* `bad_duplicate_reserve` -- two reserves with one `globalReservationId` that overlap both find nothing at
  the aggregator and both reserve, where the README says that a repeat creates no duplicate.

Also seen, without a run of their own.

Disagreements with the README or the tests:

* README line 403: a repeat reserves no duplicate. That holds when the repeat comes after the aggregator has the
  first connection. A first reserve whose post failed on the way, and was answered `502`, may still arrive after
  the repeat has asked for the list: the repeat finds nothing and reserves anew, the aggregator accepts both
  calls, and both connections live, the first unknown to every requester. A third request can then be told
  either. `RepeatReusesWhatIsThere` states what holds instead.
* README line 372: the group check "enforces the same policy for both surfaces". A token without a groups
  claim, or with one that is neither a list nor a text, leaves the group header of the request as it is
  (`mcp_server.py` 70-72), a token without an email address the user header; with both claims
  there the statement holds.
* README line 489: a retry of a provision that is in flight is answered "rather than re-provisioning". Between
  the acknowledgement and `provisionConfirmed` the aggregator's provision state is `Provisioning`, which the
  refresh maps to `RESERVED`; a retry in that window provisions again.
* README line 97: `FAILED` is for a data plane that came up and went inactive on its own. A GET whose summary
  was answered before an activation and whose history was answered after it stores `FAILED` ("dropped") for
  a connection that is up. The next read repairs it.
* `tests/test_terminate.py` line 162: a refused terminate must not redirect a running operation's result to
  its own callback. Terminate keeps to it; `provision` (line 983) and `release` (line 1124) adopt the
  `callbackURL` before they refuse with `409`, and the refused requester receives the running result.
* README line 640: a list queries the aggregator "to refresh all reservation states". It also shows the stored
  reservations that the aggregator no longer reports, for which a GET answers `404`; and what it shows may be
  older than its own query when an older GET writes its answer in between. `ListIsFresh` bounds how old:
  not older than the oldest request the list overlapped.
* README line 841: `lastError` contains the most recent error event. A list writes the terminal connections
  without their notifications, and so clears the `lastError` of a terminated one, which a GET shows.
* README line 328: groups are matched against a header split at commas and blanks, while
  `OIDC_REQUIRED_GROUPS` is split at commas only: a required group with a blank in its name never matches.

Behaviour that no document speaks of: after a terminate that timed out, the next refresh turns
`TERMINATED` back into `RESERVED`; a retry that overlaps the first reserve may adopt its `callbackURL` on an
object that the `ReserveResponse` then replaces, so that the result goes to the first requester only; a
`DataPlaneStateChange` that arrives between the confirmation and the task's registration wakes nobody; a
retry that joins an operation whose task has ended is answered `202` and never gets a result; lifecycle
`Failed` without an error event is `FAILED` with `lastError` null; a recursive query that times out, or whose
acknowledgement cannot be parsed, leaves its correlationId in `_pending`.

## 6. Not modelled

* Building and parsing SOAP (`nsi_soap`), building the JSON replies, the wording of errors and logs: formatting
  without state. The models start from parsed messages, and an answer that cannot be parsed is a fault.
* The criteria and the segments of a reservation: data that is copied. Of the criteria of a repeated reserve
  only a warning in the log depends.
* The syntax of single settings (group lists, paths, trailing slashes), TLS contexts, logging, the assembly of
  the application, the Helm chart and the Dockerfile: wiring.
* fastmcp, oauth2-proxy, the edge proxy, the DDS, the aggregator and the requesters are external: they are
  modelled by what the code under `src/` has to be prepared for.

## 7. What could follow

1. `RepeatsReuse` and `TakenOver` by connection instead of for all requests: it is enough that the requests with
   one `globalReservationId` wait for each other.
2. The repair after a confirmed end: that a read which began after it stores `TERMINATED` over whatever an older
   one wrote. The date of a snapshot, as in `Reads`, would make that an invariant.
3. An abstract delivery (taken at most once, as serialised, not given up early) that `CallbackDelivery` implements.
