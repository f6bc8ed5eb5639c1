----------------------------- MODULE Reads_proofs -----------------------------
(***************************************************************************)
(* What holds of overlapping reads for any number of connections, requests *)
(* and aggregator moves: an error event is logged as new once, and what a  *)
(* list shows is no older than it may be.                                  *)
(***************************************************************************)
EXTENDS Reads, StateMapping_proofs

Messages == [to : Recursives, kind : {"result", "unexpected"}, found : Views]
Futures == [is : {"none", "waiting", "cancelled", "result", "unexpected"}, found : Views]
LogCounts == [Events -> Nat]
Places == {"idle", "posting", "waiting", "refreshing", "done"}

\* The part of the type invariant that the argument needs.
Typed ==
    /\ agg \in [Conns -> AggRecords] /\ moves \in Nat
    /\ asks \in [Recursives -> {"none", "posted", "accepted", "answered"}]
    /\ net \subseteq Messages
    /\ store \in [Conns -> Entries] /\ logged \in [Conns -> LogCounts]
    /\ pc \in [Requests -> Places]
    /\ aim \in [Requests -> Conns \union {NoConn}]
    /\ asked \in [Requests -> SUBSET (Conns \union {"summary"})]
    /\ todo \in [Requests -> SUBSET Conns]
    /\ view \in [Requests -> [Conns -> Views]]
    /\ future \in [Recursives -> Futures]

\* A request that waits for answers about a connection is about one.
Aimed ==
    /\ \A r \in Gets : pc[r] = "refreshing" => aim[r] \in Conns
    /\ \A r \in Requests : asked[r] # {} \/ todo[r] # {} => pc[r] = "refreshing"
    /\ \A r \in Recursives : pc[r] # "idle" \/ asks[r] # "none" => aim[r] \in Conns

\* What has been logged is what is remembered, and a stored error event is remembered.
Logged ==
    \A c \in Conns : \A n \in Events :
        /\ logged[c][n] = IF n \in store[c].seen THEN 1 ELSE 0
        /\ store[c].lastError = EventTexts[n] => n \in store[c].seen

IInv == Typed /\ Aimed /\ Logged

(***************************************************************************)
(* What an update writes.                                                  *)
(***************************************************************************)
LEMMA EventFacts ==
    /\ Events \subseteq 1..3 /\ MaxEvents \in 0..3
    /\ \A n \in 0..MaxEvents : 1..n \subseteq Events
    /\ \A n \in Events : n \in 1..n
    /\ \A n, k \in 1..3 : EventTexts[n] = EventTexts[k] => n = k
    /\ \A n \in 1..3 : EventTexts[n] \notin {NoError, "late"}
<1>1. MaxEvents \in 0..3
  BY ReadsAssumption
<1>2. EventTexts[1] = "first event" /\ EventTexts[2] = "second event" /\ EventTexts[3] = "third event"
  BY DEF EventTexts
<1>3. \A n \in 1..3 : n = 1 \/ n = 2 \/ n = 3
  OBVIOUS
<1>4. \A n, k \in 1..3 : EventTexts[n] = EventTexts[k] => n = k
  BY <1>2, <1>3
<1>5. \A n \in 1..3 : EventTexts[n] \notin {NoError, "late"}
  BY <1>2, <1>3 DEF NoError
<1> QED
  BY <1>1, <1>4, <1>5 DEF Events

\* Whether the history says so or not, a base status stays what it is or becomes FAILED.
LEMMA ResolutionFacts ==
    ASSUME NEW v, NEW derived \in Resolutions(Base(v))
    PROVE  derived.status \in Statuses /\ derived.reason \in {NoError, "late"}
<1>1. Base(v) \in Statuses
  BY MappedStatus DEF Base
<1>2. ASSUME NEW known, NEW overdue
      PROVE  /\ Refine(Base(v), known, FALSE, overdue).status \in {Base(v), "FAILED"}
             /\ Refine(Base(v), known, FALSE, overdue).reason \in {NoError, "late"}
  BY DEF Refine
<1>3. \E known \in BOOLEAN, overdue \in BOOLEAN : derived = Refine(Base(v), known, FALSE, overdue)
  BY DEF Resolutions
<1>4. "FAILED" \in Statuses
  BY DEF Statuses
<1> QED
  BY <1>1, <1>2, <1>3, <1>4

LEMMA EntryUpdated ==
    ASSUME NEW entry \in Entries, NEW v \in Views, NEW derived,
           derived.status \in Statuses, derived.reason \in {NoError, "late"}
    PROVE  /\ UpdatedEntry(entry, v, derived) \in Entries
           /\ UpdatedEntry(entry, v, derived).seen = entry.seen \union 1..v.events
           /\ \A n \in Events : UpdatedEntry(entry, v, derived).lastError = EventTexts[n]
                => n \in 1..v.events \/ entry.lastError = EventTexts[n]
<1> DEFINE error == ResolveLastError(derived, FormatLastError(v.events), entry.lastError)
<1>1. /\ v.events \in 0..MaxEvents /\ v.at \in Nat
      /\ entry.seen \subseteq Events
      /\ entry.lastError \in {NoError, "late"} \union {EventTexts[n] : n \in Events}
  BY DEF Views, Entries
<1>2. CASE v.events = 0
  <2>1. error \in {NoError, derived.reason, entry.lastError}
    BY <1>2 DEF ResolveLastError, FormatLastError
  <2>2. error \in {NoError, "late"} \union {EventTexts[n] : n \in Events}
    BY <1>1, <2>1
  <2>3. \A n \in Events : error = EventTexts[n] => entry.lastError = EventTexts[n]
    BY <2>1, EventFacts
  <2>4. entry.seen \union 1..v.events \subseteq Events
    BY <1>1, EventFacts
  <2> QED
    BY <1>1, <2>2, <2>3, <2>4 DEF UpdatedEntry, Remembered, Entries
<1>3. CASE v.events # 0
  <2>1. v.events \in Events /\ v.events \in 1..v.events
    BY <1>1, <1>3 DEF Events
  <2>2. error = EventTexts[v.events]
    BY <1>3, <2>1, EventFacts DEF ResolveLastError, FormatLastError
  <2>3. error \in {NoError, "late"} \union {EventTexts[n] : n \in Events}
    BY <2>1, <2>2
  <2>4. \A n \in Events : error = EventTexts[n] => n \in 1..v.events
    BY <2>1, <2>2, EventFacts
  <2>5. entry.seen \union 1..v.events \subseteq Events
    BY <1>1, EventFacts
  <2> QED
    BY <1>1, <2>3, <2>4, <2>5 DEF UpdatedEntry, Remembered, Entries
<1> QED
  BY <1>2, <1>3

\* The one who reads an event and finds it new logs it, and remembers it in the same step.
LEMMA StoreUpdated ==
    ASSUME Typed, Logged,
           NEW c \in Conns, NEW v \in Views, NEW derived,
           derived.status \in Statuses, derived.reason \in {NoError, "late"},
           UpdateStore(c, v, derived)
    PROVE  store' \in [Conns -> Entries] /\ logged' \in [Conns -> LogCounts] /\ Logged'
<1> DEFINE entry == UpdatedEntry(store[c], v, derived)
<1> DEFINE counts == [n \in Events |->
        IF n \in 1..v.events \ store[c].seen THEN logged[c][n] + 1 ELSE logged[c][n]]
<1>1. store[c] \in Entries /\ logged[c] \in LogCounts
  BY DEF Typed
<1>2. /\ entry \in Entries
      /\ entry.seen = store[c].seen \union 1..v.events
      /\ \A n \in Events : entry.lastError = EventTexts[n]
            => n \in 1..v.events \/ store[c].lastError = EventTexts[n]
  BY <1>1, EntryUpdated
<1>3. counts \in LogCounts
  BY <1>1 DEF LogCounts
<1> HIDE DEF entry, counts
<1>4. store' = [store EXCEPT ![c] = entry] /\ logged' = [logged EXCEPT ![c] = counts]
  BY DEF UpdateStore, entry, counts
<1>5. store' \in [Conns -> Entries] /\ logged' \in [Conns -> LogCounts]
  BY <1>2, <1>3, <1>4 DEF Typed
<1>6. ASSUME NEW n \in Events
      PROVE  /\ counts[n] = IF n \in entry.seen THEN 1 ELSE 0
             /\ entry.lastError = EventTexts[n] => n \in entry.seen
  <2>1. /\ logged[c][n] = IF n \in store[c].seen THEN 1 ELSE 0
        /\ store[c].lastError = EventTexts[n] => n \in store[c].seen
    BY DEF Logged
  <2>2. counts[n] = IF n \in 1..v.events \ store[c].seen THEN logged[c][n] + 1 ELSE logged[c][n]
    BY DEF counts
  <2> QED
    BY <1>2, <2>1, <2>2
<1>7. Logged'
  <2> SUFFICES ASSUME NEW d \in Conns, NEW n \in Events
               PROVE  /\ logged'[d][n] = IF n \in store'[d].seen THEN 1 ELSE 0
                      /\ store'[d].lastError = EventTexts[n] => n \in store'[d].seen
    BY DEF Logged, Events
  <2>1. CASE d = c
    <3>1. store'[d] = entry /\ logged'[d] = counts
      BY <1>4, <2>1 DEF Typed
    <3> QED
      BY <1>6, <3>1
  <2>2. CASE d # c
    <3>1. store'[d] = store[d] /\ logged'[d] = logged[d]
      BY <1>4, <2>2 DEF Typed
    <3> QED
      BY <3>1 DEF Logged
  <2> QED
    BY <2>1, <2>2
<1> QED
  BY <1>5, <1>7

(***************************************************************************)
(* The requests.                                                           *)
(***************************************************************************)
LEMMA RequestFacts ==
    /\ Gets \subseteq Requests /\ Recursives \subseteq Requests /\ Lists \subseteq Requests
    /\ \A r \in Gets : r \notin Recursives /\ r \notin Lists
    /\ \A r \in Recursives : r \notin Gets /\ r \notin Lists
    /\ \A r \in Requests : r \in Gets \/ r \in Recursives \/ r \in Lists
BY ReadsAssumption DEF Requests

LEMMA BlankIsView == Blank \in Views
BY ReadsAssumption DEF Blank, Views, LifecycleStates, ProvisionStates

LEMMA SummaryIsView ==
    ASSUME Typed, NEW c \in Conns
    PROVE  SummaryOf(c) \in Views /\ SummaryOf(c).events = 0
<1>1. agg[c] \in AggRecords /\ moves \in Nat
  BY DEF Typed
<1>2. 0 \in 0..MaxEvents
  BY ReadsAssumption
<1> QED
  BY <1>1, <1>2 DEF SummaryOf, Views, AggRecords

\* An answered request has forgotten everything but, if it is a recursive one, what it was about.
LEMMA Answered ==
    ASSUME Typed, Aimed, NEW r \in Requests, NEW fresh, pc[r] # "idle", Replies(r, fresh),
           UNCHANGED asks
    PROVE  /\ pc' \in [Requests -> Places] /\ aim' \in [Requests -> Conns \union {NoConn}]
           /\ asked' \in [Requests -> SUBSET (Conns \union {"summary"})]
           /\ todo' \in [Requests -> SUBSET Conns]
           /\ view' \in [Requests -> [Conns -> Views]]
           /\ Aimed'
<1> USE DEF Replies, Forgets, Typed
<1>1. pc' \in [Requests -> Places]
  BY DEF Places
<1>2. aim' \in [Requests -> Conns \union {NoConn}]
  OBVIOUS
<1>3. asked' \in [Requests -> SUBSET (Conns \union {"summary"})] /\ todo' \in [Requests -> SUBSET Conns]
  OBVIOUS
<1>4. view' \in [Requests -> [Conns -> Views]]
  <2>1. [c \in Conns |-> Blank] \in [Conns -> Views]
    BY BlankIsView
  <2> QED
    BY <2>1
<1>5. Aimed'
  <2>1. ASSUME NEW q \in Gets, pc'[q] = "refreshing"
        PROVE  aim'[q] \in Conns
    BY <2>1, RequestFacts DEF Aimed
  <2>2. ASSUME NEW q \in Recursives, pc'[q] # "idle" \/ asks'[q] # "none"
        PROVE  aim'[q] \in Conns
    BY <2>2, RequestFacts DEF Aimed
  <2>3. ASSUME NEW q \in Requests, asked'[q] # {} \/ todo'[q] # {}
        PROVE  pc'[q] = "refreshing"
    BY <2>3 DEF Aimed
  <2> QED
    BY <2>1, <2>2, <2>3 DEF Aimed
<1> QED
  BY <1>1, <1>2, <1>3, <1>4, <1>5

\* What has not changed is as it was.
LEMMA LogKept == ASSUME Logged, UNCHANGED storeVars PROVE Logged'
BY DEF Logged, storeVars

\* A request that is answered from elsewhere than a refresh of its own.
LEMMA AnsweredOnly ==
    ASSUME IInv, NEW r \in Requests, NEW fresh, pc[r] # "idle", Replies(r, fresh),
           UNCHANGED <<externalVars, storeVars>>, future' \in [Recursives -> Futures]
    PROVE  IInv'
<1>1. UNCHANGED <<agg, moves, asks, net, store, logged>>
  BY DEF externalVars, storeVars
<1>2. /\ pc' \in [Requests -> Places] /\ aim' \in [Requests -> Conns \union {NoConn}]
      /\ asked' \in [Requests -> SUBSET (Conns \union {"summary"})]
      /\ todo' \in [Requests -> SUBSET Conns]
      /\ view' \in [Requests -> [Conns -> Views]]
      /\ Aimed'
  BY <1>1, Answered DEF IInv
<1>3. Typed'
  BY <1>1, <1>2 DEF Typed, IInv
<1>4. Logged'
  BY <1>1, LogKept DEF IInv, storeVars
<1> QED
  BY <1>2, <1>3, <1>4 DEF IInv

LEMMA InitInv == Init => IInv
<1> SUFFICES ASSUME Init PROVE IInv
  OBVIOUS
<1>1. 0 \in 0..MaxEvents
  BY ReadsAssumption
<1>2. agg \in [Conns -> AggRecords] /\ moves \in Nat
  BY <1>1 DEF Init, AggRecords, LifecycleStates, ProvisionStates
<1>3. NoEntry \in Entries
  BY DEF NoEntry, Entries
<1>4. store \in [Conns -> Entries] /\ logged \in [Conns -> LogCounts]
  BY <1>3 DEF Init, LogCounts
<1>5. /\ view \in [Requests -> [Conns -> Views]]
      /\ future \in [Recursives -> Futures]
  BY BlankIsView DEF Init, Futures
<1>6. Typed
  BY <1>2, <1>4, <1>5 DEF Init, Typed, Places
<1>7. Aimed
  BY RequestFacts DEF Init, Aimed
<1>8. Logged
  BY EventFacts DEF Init, Logged, NoEntry
<1> QED
  BY <1>6, <1>7, <1>8 DEF IInv

(***************************************************************************)
(* The steps of a GET.                                                     *)
(***************************************************************************)
LEMMA StepGet ==
    ASSUME IInv, NEW r \in Requests,
           \/ GetSummary(r) \/ SummaryFails(r) \/ NotFound(r)
           \/ \E c \in Conns : StartGet(r, c) \/ NotificationsAnswered(r, c) \/ ResultsAnswered(r, c)
    PROVE  IInv'
<1> USE DEF IInv
<1>1. ASSUME NEW c \in Conns, StartGet(r, c) PROVE IInv'
  <2> USE <1>1 DEF StartGet, Begins
  <2>1. UNCHANGED <<agg, moves, asks, net, store, logged, view, future>>
    BY DEF externalVars, storeVars, futureVars
  <2>2. Typed'
    BY <2>1 DEF Typed, Places
  <2>3. Aimed'
    <3>1. ASSUME NEW q \in Gets, pc'[q] = "refreshing" PROVE aim'[q] \in Conns
      BY <3>1 DEF Aimed, Typed
    <3>2. ASSUME NEW q \in Recursives, pc'[q] # "idle" \/ asks'[q] # "none" PROVE aim'[q] \in Conns
      BY <2>1, <3>2, RequestFacts DEF Aimed, Typed
    <3>3. ASSUME NEW q \in Requests, asked'[q] # {} \/ todo'[q] # {} PROVE pc'[q] = "refreshing"
      BY <3>3 DEF Aimed, Typed
    <3> QED
      BY <3>1, <3>2, <3>3 DEF Aimed
  <2>4. Logged'
    BY <2>1, LogKept DEF storeVars
  <2> QED
    BY <2>2, <2>3, <2>4
<1>2. ASSUME GetSummary(r) PROVE IInv'
  <2> USE <1>2 DEF GetSummary
  <2>1. UNCHANGED <<agg, moves, asks, net, store, logged, pc, aim, todo, future>>
    BY DEF externalVars, storeVars, futureVars
  <2>2. aim[r] \in Conns
    BY DEF Aimed
  <2>3. [SummaryOf(aim[r]) EXCEPT !.events = view[r][aim[r]].events] \in Views
    <3>1. view[r][aim[r]] \in Views
      BY <2>2 DEF Typed
    <3> QED
      BY <2>2, <3>1, SummaryIsView DEF Views
  <2>4. view' \in [Requests -> [Conns -> Views]]
    BY <2>3 DEF Typed
  <2>5. Typed'
    BY <2>1, <2>4 DEF Typed
  <2>6. Aimed'
    BY <2>1 DEF Aimed, Typed
  <2>7. Logged'
    BY <2>1, LogKept DEF storeVars
  <2> QED
    BY <2>5, <2>6, <2>7
<1>3. ASSUME NEW c \in Conns, NotificationsAnswered(r, c) PROVE IInv'
  <2> USE <1>3 DEF NotificationsAnswered
  <2>1. UNCHANGED <<agg, moves, asks, net, store, logged, pc, aim, todo, future>>
    BY DEF externalVars, storeVars, futureVars
  <2>2. view' \in [Requests -> [Conns -> Views]]
    <3>1. view[r][c] \in Views /\ agg[c].events \in 0..MaxEvents
      BY DEF Typed, AggRecords
    <3>2. [view[r][c] EXCEPT !.events = agg[c].events] \in Views
      BY <3>1 DEF Views
    <3> DEFINE w == [view[r][c] EXCEPT !.events = agg[c].events]
    <3>3. \/ view' = [view EXCEPT ![r] = [view[r] EXCEPT ![c] = w]]
          \/ view' = view
      OBVIOUS
    <3> HIDE DEF w
    <3>4. w \in Views
      BY <3>2 DEF w
    <3>5. view \in [Requests -> [Conns -> Views]]
      BY DEF Typed
    <3>6. [view[r] EXCEPT ![c] = w] \in [Conns -> Views]
      BY <3>4, <3>5
    <3> QED
      BY <3>3, <3>5, <3>6
  <2>3. Typed'
    BY <2>1, <2>2 DEF Typed
  <2>4. Aimed'
    BY <2>1 DEF Aimed, Typed
  <2>5. Logged'
    BY <2>1, LogKept DEF storeVars
  <2> QED
    BY <2>3, <2>4, <2>5
<1>4. ASSUME SummaryFails(r) PROVE IInv'
  <2>1. pc[r] # "idle" /\ Replies(r, TRUE) /\ UNCHANGED <<externalVars, storeVars>>
    BY <1>4 DEF SummaryFails, Fails, Aimed
  <2>2. future' \in [Recursives -> Futures]
    BY <1>4 DEF SummaryFails, futureVars, Typed
  <2> QED
    BY <2>1, <2>2, AnsweredOnly
<1>5. ASSUME NotFound(r) PROVE IInv'
  <2>1. /\ pc[r] # "idle" /\ Replies(r, TRUE)
        /\ UNCHANGED <<externalVars, storeVars>>
    BY <1>5 DEF NotFound
  <2>2. future' \in [Recursives -> Futures]
    BY <1>5 DEF NotFound, futureVars, Typed
  <2> QED
    BY <2>1, <2>2, AnsweredOnly
<1>6. ASSUME NEW c \in Conns, ResultsAnswered(r, c) PROVE IInv'
  <2>1. UNCHANGED <<agg, moves, asks, net, store, logged, pc, aim, asked, todo, view, future>>
    BY <1>6 DEF ResultsAnswered, externalVars, storeVars, futureVars
  <2>2. Typed'
    BY <2>1 DEF Typed
  <2>3. Aimed'
    BY <2>1 DEF Aimed
  <2>4. Logged'
    BY <2>1, LogKept DEF storeVars
  <2> QED
    BY <2>2, <2>3, <2>4
<1> QED
  BY <1>1, <1>2, <1>3, <1>4, <1>5, <1>6

LEMMA StepRetrieve ==
    ASSUME IInv, NEW r \in Requests, Retrieve(r)
    PROVE  IInv'
<1> USE DEF IInv
<1>1. aim[r] \in todo[r] /\ aim[r] \in Conns /\ pc[r] # "idle"
  BY DEF Retrieve, Resolved, ToResolve, Typed, Aimed
<1>2. view[r][aim[r]] \in Views
  BY <1>1 DEF Typed
<1>3. PICK derived \in Resolutions(Base(view[r][aim[r]])) : UpdateStore(aim[r], view[r][aim[r]], derived)
  BY DEF Retrieve
<1>4. derived.status \in Statuses /\ derived.reason \in {NoError, "late"}
  BY <1>3, ResolutionFacts
<1>5. store' \in [Conns -> Entries] /\ logged' \in [Conns -> LogCounts] /\ Logged'
  BY <1>1, <1>2, <1>3, <1>4, StoreUpdated
<1>6. UNCHANGED <<agg, moves, asks, net, future>>
  BY DEF Retrieve, externalVars, futureVars
<1>7. PICK fresh : Replies(r, fresh)
  BY DEF Retrieve
<1>8. /\ pc' \in [Requests -> Places] /\ aim' \in [Requests -> Conns \union {NoConn}]
      /\ asked' \in [Requests -> SUBSET (Conns \union {"summary"})]
      /\ todo' \in [Requests -> SUBSET Conns]
      /\ view' \in [Requests -> [Conns -> Views]]
      /\ Aimed'
  BY <1>1, <1>6, <1>7, Answered
<1>9. Typed'
  BY <1>5, <1>6, <1>8 DEF Typed
<1> QED
  BY <1>5, <1>8, <1>9

(***************************************************************************)
(* The steps of a list.                                                    *)
(***************************************************************************)
\* What ended is written without its notifications: nothing is logged, and nothing forgotten.
LEMMA StepListSummary ==
    ASSUME IInv, NEW r \in Requests, ListSummary(r)
    PROVE  IInv'
<1> DEFINE known == {c \in Conns : agg[c].lifecycle # "Unknown"}
<1> DEFINE ended == {c \in known : Base(SummaryOf(c)) \in TerminalStatuses}
<1> DEFINE derived(c) == Refine(Base(SummaryOf(c)), FALSE, FALSE, FALSE)
<1>1. /\ UNCHANGED <<agg, moves, asks, net, logged, future>>
      /\ r \in Lists /\ "summary" \in asked[r]
  BY DEF ListSummary, externalVars, futureVars
<1>2. pc[r] = "refreshing"
  BY <1>1 DEF IInv, Aimed
<1>3. ASSUME NEW c \in Conns
      PROVE  /\ UpdatedEntry(store[c], SummaryOf(c), derived(c)) \in Entries
             /\ UpdatedEntry(store[c], SummaryOf(c), derived(c)).seen = store[c].seen
             /\ \A n \in Events :
                  UpdatedEntry(store[c], SummaryOf(c), derived(c)).lastError = EventTexts[n]
                    => store[c].lastError = EventTexts[n]
  <2>1. derived(c).status \in Statuses /\ derived(c).reason \in {NoError, "late"}
    <3>1. Base(SummaryOf(c)) \in Statuses
      BY MappedStatus DEF Base
    <3> QED
      BY <3>1 DEF Refine, Statuses
  <2>2. SummaryOf(c) \in Views /\ SummaryOf(c).events = 0 /\ store[c] \in Entries
    BY SummaryIsView DEF IInv, Typed
  <2> DEFINE v == SummaryOf(c)
  <2> DEFINE d == derived(c)
  <2>3. d.status \in Statuses /\ d.reason \in {NoError, "late"} /\ v \in Views /\ v.events = 0
    BY <2>1, <2>2
  <2> HIDE DEF v, d
  <2>4. /\ UpdatedEntry(store[c], v, d) \in Entries
        /\ UpdatedEntry(store[c], v, d).seen = store[c].seen \union 1..v.events
        /\ \A n \in Events : UpdatedEntry(store[c], v, d).lastError = EventTexts[n]
             => n \in 1..v.events \/ store[c].lastError = EventTexts[n]
    BY <2>2, <2>3, EntryUpdated, ZenonT(60)
  <2>5. 1..v.events = {}
    BY <2>3
  <2> QED
    BY <2>4, <2>5 DEF v, d
<1>4. store' = [c \in Conns |-> IF c \in ended THEN UpdatedEntry(store[c], SummaryOf(c), derived(c))
                                ELSE store[c]]
  BY DEF ListSummary
<1>5. \/ ListAnswered(r, known, store')
      \/ /\ view' = [view EXCEPT ![r] = [c \in Conns |-> SummaryOf(c)]]
         /\ asked' = [asked EXCEPT ![r] = known \ ended]
         /\ todo' = [todo EXCEPT ![r] = known \ ended]
         /\ UNCHANGED <<pc, aim>>
  BY DEF ListSummary
<1>6. known \ ended \subseteq Conns
  OBVIOUS
<1> HIDE DEF known, ended, derived
<1>7. store' \in [Conns -> Entries]
  BY <1>3, <1>4 DEF IInv, Typed
<1>8. Logged'
  <2> SUFFICES ASSUME NEW d \in Conns, NEW n \in Events
               PROVE  /\ logged'[d][n] = IF n \in store'[d].seen THEN 1 ELSE 0
                      /\ store'[d].lastError = EventTexts[n] => n \in store'[d].seen
    BY DEF Logged, Events
  <2>1. /\ logged'[d][n] = IF n \in store[d].seen THEN 1 ELSE 0
        /\ store[d].lastError = EventTexts[n] => n \in store[d].seen
    BY <1>1 DEF IInv, Logged
  <2>2. /\ store'[d].seen = store[d].seen
        /\ store'[d].lastError = EventTexts[n] => store[d].lastError = EventTexts[n]
    BY <1>3, <1>4
  <2> QED
    BY <2>1, <2>2
<1>9. CASE ListAnswered(r, known, store')
  <2>1. PICK fresh : Replies(r, fresh)
    BY <1>9 DEF ListAnswered
  <2>2. /\ pc' \in [Requests -> Places] /\ aim' \in [Requests -> Conns \union {NoConn}]
        /\ asked' \in [Requests -> SUBSET (Conns \union {"summary"})]
        /\ todo' \in [Requests -> SUBSET Conns]
        /\ view' \in [Requests -> [Conns -> Views]]
        /\ Aimed'
    BY <1>1, <1>2, <2>1, Answered DEF IInv
  <2>3. Typed'
    BY <1>1, <1>7, <2>2 DEF IInv, Typed
  <2> QED
    BY <1>8, <2>2, <2>3 DEF IInv
<1>10. CASE /\ view' = [view EXCEPT ![r] = [c \in Conns |-> SummaryOf(c)]]
            /\ asked' = [asked EXCEPT ![r] = known \ ended]
            /\ todo' = [todo EXCEPT ![r] = known \ ended]
            /\ UNCHANGED <<pc, aim>>
  <2>1. [c \in Conns |-> SummaryOf(c)] \in [Conns -> Views]
    BY SummaryIsView DEF IInv
  <2>2. view' \in [Requests -> [Conns -> Views]]
    BY <1>10, <2>1 DEF IInv, Typed
  <2>3. Typed'
    BY <1>1, <1>6, <1>7, <1>10, <2>2 DEF IInv, Typed
  <2>4. Aimed'
    BY <1>1, <1>2, <1>10 DEF IInv, Typed, Aimed
  <2> QED
    BY <1>8, <2>3, <2>4 DEF IInv
<1> QED
  BY <1>5, <1>9, <1>10

LEMMA StepList ==
    ASSUME IInv, NEW r \in Requests,
           StartList(r) \/ ListReplies(r) \/ \E c \in Conns : ResolveListed(r, c)
    PROVE  IInv'
<1> USE DEF IInv
<1>1. ASSUME StartList(r) PROVE IInv'
  <2> USE <1>1 DEF StartList, Begins
  <2>1. UNCHANGED <<agg, moves, asks, net, store, logged, aim, todo, view, future>>
    BY DEF externalVars, storeVars, futureVars
  <2>2. Typed'
    BY <2>1 DEF Typed, Places
  <2>3. Aimed'
    BY <2>1, RequestFacts DEF Aimed, Typed
  <2>4. Logged'
    BY <2>1, LogKept DEF storeVars
  <2> QED
    BY <2>2, <2>3, <2>4
<1>2. ASSUME NEW c \in Conns, ResolveListed(r, c) PROVE IInv'
  <2>1. UNCHANGED <<agg, moves, asks, net, pc, aim, asked, view, future>>
    BY <1>2 DEF ResolveListed, externalVars, futureVars
  <2>2. view[r][c] \in Views
    BY DEF Typed
  <2>3. PICK derived \in Resolutions(Base(view[r][c])) : UpdateStore(c, view[r][c], derived)
    BY <1>2 DEF ResolveListed
  <2>4. derived.status \in Statuses /\ derived.reason \in {NoError, "late"}
    BY <2>3, ResolutionFacts
  <2>5. store' \in [Conns -> Entries] /\ logged' \in [Conns -> LogCounts] /\ Logged'
    BY <2>2, <2>3, <2>4, StoreUpdated
  <2>6. todo' = [todo EXCEPT ![r] = todo[r] \ {c}]
    BY <1>2 DEF ResolveListed
  <2>7. Typed'
    BY <2>1, <2>5, <2>6 DEF Typed
  <2>8. Aimed'
    BY <2>1, <2>6 DEF Typed, Aimed
  <2> QED
    BY <2>5, <2>7, <2>8
<1>3. ASSUME ListReplies(r) PROVE IInv'
  <2>1. pc[r] # "idle" /\ UNCHANGED <<externalVars, storeVars>>
    BY <1>3 DEF ListReplies
  <2>2. PICK fresh : Replies(r, fresh)
    BY <1>3 DEF ListReplies, ListAnswered
  <2>3. future' \in [Recursives -> Futures]
    BY <1>3 DEF ListReplies, futureVars, Typed
  <2> QED
    BY <2>1, <2>2, <2>3, AnsweredOnly
<1> QED
  BY <1>1, <1>2, <1>3

(***************************************************************************)
(* The steps of a recursive query, of the callback endpoint and outside.   *)
(***************************************************************************)
\* Whatever a future becomes that keeps what it has found, or has found a view.
LEMMA FutureUpdated ==
    ASSUME Typed, NEW r \in Recursives,
           NEW is \in {"none", "waiting", "cancelled", "result", "unexpected"}, NEW found \in Views
    PROVE  /\ [future EXCEPT ![r] = [future[r] EXCEPT !.is = is]] \in [Recursives -> Futures]
           /\ [future EXCEPT ![r] = [future[r] EXCEPT !.found = found]] \in [Recursives -> Futures]
<1>1. future[r] \in Futures
  BY DEF Typed
<1>2. /\ [future[r] EXCEPT !.is = is] \in Futures
      /\ [future[r] EXCEPT !.found = found] \in Futures
  BY <1>1 DEF Futures
<1> QED
  BY <1>2 DEF Typed

LEMMA FutureCancelled ==
    ASSUME Typed, NEW r \in Recursives
    PROVE  Cancelled(r) \in [Recursives -> Futures]
<1>1. [future EXCEPT ![r] = [future[r] EXCEPT !.is = "cancelled"]] \in [Recursives -> Futures]
  BY FutureUpdated, BlankIsView
<1> QED
  BY <1>1 DEF Cancelled, Typed

LEMMA StepQuery ==
    ASSUME IInv, NEW r \in Recursives, Queries(r)
    PROVE  IInv'
<1> USE RequestFacts DEF IInv
<1>0. r \in Requests
  OBVIOUS
<1>1. ASSUME QueryAcked(r) PROVE IInv'
  <2>1. /\ UNCHANGED <<agg, moves, asks, net, store, logged, aim, asked, todo, view, future>>
        /\ pc[r] = "posting" /\ pc' = [pc EXCEPT ![r] = "waiting"]
    BY <1>1 DEF QueryAcked, externalVars, storeVars, refreshVars, futureVars
  <2>2. Typed'
    BY <2>1 DEF Typed, Places
  <2>3. Aimed'
    BY <2>1 DEF Aimed, Typed
  <2>4. Logged'
    BY <2>1, LogKept DEF storeVars
  <2> QED
    BY <2>2, <2>3, <2>4
<1>2. ASSUME QueryPostFails(r) PROVE IInv'
  <2>1. /\ pc[r] # "idle" /\ Replies(r, TRUE) /\ UNCHANGED <<externalVars, storeVars>>
        /\ future' = Cancelled(r)
    BY <1>2 DEF QueryPostFails, Fails
  <2> QED
    BY <1>0, <2>1, FutureCancelled, AnsweredOnly
<1>3. ASSUME QueryGarbled(r) PROVE IInv'
  <2>1. /\ pc[r] # "idle" /\ Replies(r, TRUE) /\ UNCHANGED <<externalVars, storeVars>>
        /\ future' \in [Recursives -> Futures]
    BY <1>3 DEF QueryGarbled, Fails, futureVars, Typed
  <2> QED
    BY <1>0, <2>1, AnsweredOnly
<1>4. ASSUME QueryTimesOut(r) PROVE IInv'
  <2>1. /\ pc[r] # "idle" /\ Replies(r, TRUE) /\ UNCHANGED <<externalVars, storeVars>>
        /\ future' = Cancelled(r)
    BY <1>4 DEF QueryTimesOut, Fails
  <2> QED
    BY <1>0, <2>1, FutureCancelled, AnsweredOnly
<1>5. ASSUME QueryUnexpected(r) PROVE IInv'
  <2>1. /\ pc[r] # "idle" /\ Replies(r, TRUE) /\ UNCHANGED <<externalVars, storeVars>>
        /\ future' \in [Recursives -> Futures]
    BY <1>5 DEF QueryUnexpected, Fails, futureVars, Typed
  <2> QED
    BY <1>0, <2>1, AnsweredOnly
<1>6. ASSUME QueryNotFound(r) PROVE IInv'
  <2>1. /\ pc[r] # "idle" /\ Replies(r, TRUE)
        /\ UNCHANGED <<externalVars, storeVars>>
        /\ future' = [future EXCEPT ![r] = [future[r] EXCEPT !.found = Blank]]
    BY <1>6 DEF QueryNotFound
  <2>2. future' \in [Recursives -> Futures]
    BY <2>1, FutureUpdated, BlankIsView
  <2> QED
    BY <1>0, <2>1, <2>2, AnsweredOnly
<1>7. ASSUME QueryResolved(r) PROVE IInv'
  <2> USE <1>7 DEF QueryResolved
  <2>1. /\ UNCHANGED <<agg, moves, asks, net, store, logged, aim>>
        /\ aim[r] \in Conns
    BY DEF externalVars, storeVars, Aimed
  <2>2. future' \in [Recursives -> Futures]
    BY FutureUpdated, BlankIsView
  <2>3. view' \in [Requests -> [Conns -> Views]]
    <3> DEFINE w == [view[r] EXCEPT ![aim[r]] = future[r].found]
    <3>1. future[r] \in Futures /\ view[r] \in [Conns -> Views]
      BY DEF Typed
    <3>2. w \in [Conns -> Views]
      BY <3>1 DEF Futures
    <3>3. view' = [view EXCEPT ![r] = w]
      OBVIOUS
    <3> HIDE DEF w
    <3> QED
      BY <3>2, <3>3 DEF Typed
  <2>4. Typed'
    BY <2>1, <2>2, <2>3 DEF Typed, Places
  <2>5. Aimed'
    BY <2>1 DEF Aimed, Typed
  <2>6. Logged'
    BY <2>1, LogKept DEF storeVars
  <2> QED
    BY <2>4, <2>5, <2>6
<1> QED
  BY <1>1, <1>2, <1>3, <1>4, <1>5, <1>6, <1>7 DEF Queries

LEMMA StepStartRecursive ==
    ASSUME IInv, NEW r \in Requests, NEW c \in Conns, StartRecursive(r, c)
    PROVE  IInv'
<1> USE RequestFacts DEF IInv, StartRecursive, Begins
<1>1. UNCHANGED <<agg, moves, net, store, logged, asked, todo, view>>
  BY DEF storeVars
<1>2. future' \in [Recursives -> Futures]
  BY FutureUpdated, BlankIsView
<1>3. Typed'
  BY <1>1, <1>2 DEF Typed, Places
<1>4. Aimed'
  <2>1. ASSUME NEW q \in Gets, pc'[q] = "refreshing" PROVE aim'[q] \in Conns
    BY <2>1 DEF Aimed, Typed
  <2>2. ASSUME NEW q \in Recursives, pc'[q] # "idle" \/ asks'[q] # "none" PROVE aim'[q] \in Conns
    BY <2>2 DEF Aimed, Typed
  <2>3. ASSUME NEW q \in Requests, asked'[q] # {} \/ todo'[q] # {} PROVE pc'[q] = "refreshing"
    BY <1>1, <2>3 DEF Aimed, Typed
  <2> QED
    BY <2>1, <2>2, <2>3 DEF Aimed
<1>5. Logged'
  BY <1>1, LogKept DEF storeVars
<1> QED
  BY <1>3, <1>4, <1>5

LEMMA StepDeliver ==
    ASSUME IInv, NEW m \in net, Deliver(m)
    PROVE  IInv'
<1> USE DEF IInv
<1>1. UNCHANGED <<agg, moves, asks, store, logged, pc, aim, asked, todo, view>>
  BY DEF Deliver, storeVars, refreshVars
<1>2. m \in Messages
  BY DEF Typed
<1>3. [is |-> m.kind, found |-> m.found] \in Futures
  BY <1>2 DEF Messages, Futures
<1>4. net' \subseteq Messages /\ future' \in [Recursives -> Futures]
  BY <1>3 DEF Deliver, Typed
<1>5. Typed'
  BY <1>1, <1>4 DEF Typed
<1>6. Aimed'
  BY <1>1 DEF Aimed
<1>7. Logged'
  BY <1>1, LogKept DEF storeVars
<1> QED
  BY <1>5, <1>6, <1>7

LEMMA StepEnvironment ==
    ASSUME IInv, Environment
    PROVE  IInv'
<1> USE DEF IInv
<1>1. UNCHANGED <<store, logged, pc, aim, asked, todo, view, future>>
  BY DEF Environment, storeVars, refreshVars, futureVars
<1>2. Logged'
  BY <1>1, LogKept DEF storeVars
<1>3. ASSUME NEW c \in Conns, NEW record \in AggRecords, Moves(c, record)
      PROVE  Typed' /\ Aimed'
  <2>1. agg' \in [Conns -> AggRecords] /\ moves' \in Nat /\ UNCHANGED <<asks, net>>
    BY <1>3 DEF Moves, Typed
  <2> QED
    BY <1>1, <2>1 DEF Typed, Aimed
<1>4. ASSUME NEW c \in Conns, Provisioned(c) \/ ErrorEvent(c) \/ EndsAtAggregator(c)
      PROVE  \E record \in AggRecords : Moves(c, record)
  <2>1. agg[c] \in AggRecords /\ MaxEvents \in Nat
    BY ReadsAssumption DEF Typed
  <2>2. [agg[c] EXCEPT !.provision = "Provisioned"] \in AggRecords
    BY <2>1 DEF AggRecords, ProvisionStates
  <2>3. agg[c].events < MaxEvents => [agg[c] EXCEPT !.events = agg[c].events + 1] \in AggRecords
    BY <2>1 DEF AggRecords
  <2>4. \A how \in {"Failed", "Terminated", "Unknown"} : [agg[c] EXCEPT !.lifecycle = how] \in AggRecords
    BY <2>1 DEF AggRecords, LifecycleStates
  <2> QED
    BY <1>4, <2>2, <2>3, <2>4 DEF Provisioned, ErrorEvent, EndsAtAggregator
<1>5. ASSUME NEW r \in Recursives, Accepts(r) \/ Answers(r)
      PROVE  Typed' /\ Aimed'
  <2>1. UNCHANGED <<agg, moves>> /\ asks[r] # "none"
    BY <1>5 DEF Accepts, Answers
  <2>2. asks' \in [Recursives -> {"none", "posted", "accepted", "answered"}]
    BY <1>5 DEF Accepts, Answers, Typed
  <2>3. aim[r] \in Conns
    BY <2>1 DEF Aimed
  <2>4. /\ [to |-> r, kind |-> "result", found |-> SummaryOf(aim[r])] \in Messages
        /\ [to |-> r, kind |-> "unexpected", found |-> Blank] \in Messages
    BY <2>3, SummaryIsView, BlankIsView DEF Messages
  <2>5. net' \subseteq Messages
    BY <1>5, <2>4 DEF Accepts, Answers, Typed
  <2>6. Aimed'
    <3>1. ASSUME NEW q \in Recursives, asks'[q] # "none" PROVE aim[q] \in Conns
      BY <1>5, <2>3, <3>1 DEF Accepts, Answers, Typed, Aimed
    <3> QED
      BY <1>1, <3>1 DEF Aimed
  <2> QED
    BY <1>1, <2>1, <2>2, <2>5, <2>6 DEF Typed
<1> QED
  BY <1>2, <1>3, <1>4, <1>5 DEF Environment

(***************************************************************************)
(* The invariant.                                                          *)
(***************************************************************************)
LEMMA StepInv == IInv /\ [Next]_vars => IInv'
<1> SUFFICES ASSUME IInv, [Next]_vars PROVE IInv'
  OBVIOUS
<1>1. CASE UNCHANGED vars
  <2>1. UNCHANGED <<agg, moves, asks, net, store, logged, pc, aim, asked, todo, view, future>>
    BY <1>1 DEF vars, externalVars, storeVars, refreshVars, futureVars
  <2> QED
    BY <2>1 DEF IInv, Typed, Aimed, Logged
<1>2. ASSUME NEW r \in Requests, Comes(r) PROVE IInv'
  BY <1>2, StepList, StepGet, StepStartRecursive DEF Comes
<1>3. ASSUME NEW r \in Requests, Refreshes(r) PROVE IInv'
  BY <1>3, StepGet, StepRetrieve, StepListSummary, StepList DEF Refreshes
<1>4. ASSUME NEW r \in Recursives, Queries(r) PROVE IInv'
  BY <1>4, StepQuery
<1>5. ASSUME NEW m \in net, Deliver(m) PROVE IInv'
  BY <1>5, StepDeliver
<1>6. ASSUME Environment PROVE IInv'
  BY <1>6, StepEnvironment
<1> QED
  BY <1>1, <1>2, <1>3, <1>4, <1>5, <1>6 DEF Next

\* An error event is logged as new once, and every event that a lastError shows has been, in whatever
\* order any number of overlapping GETs, recursive queries and lists read and write: the check and
\* the update of the remembered ids are one step of the event loop (_record_seen_error_events).
THEOREM LoggedOnce == Spec => []EventsLoggedOnce
<1>1. IInv => EventsLoggedOnce
  BY DEF IInv, Logged, EventsLoggedOnce
<1> QED
  BY <1>1, InitInv, StepInv, PTL DEF Spec

(***************************************************************************)
(* How old the answers are.                                                *)
(***************************************************************************)
Clocks ==
    /\ moves \in 1..(MaxMoves + 1)
    /\ since \in [Requests -> Nat] /\ oldest \in [Requests -> Nat]
    /\ \A r \in Requests : since[r] <= moves

\* The variables that the first invariant leaves aside.
Others == refined \in [Requests -> SUBSET Conns] /\ pending \subseteq Recursives /\ stale = {}

\* What a refresh is about to write was read after its request came.
Sourced ==
    /\ \A r \in Requests : \A c \in todo[r] : "summary" \notin asked[r] => view[r][c].at >= since[r]
    /\ \A r \in Gets : pc[r] = "refreshing" => todo[r] = {aim[r]}

\* So was what has been found for a recursive query: its correlationId is its own, and nothing was
\* said to it before it was posted.
Found ==
    /\ \A r \in Recursives : pc[r] = "idle" => asks[r] = "none"
    /\ \A m \in net : asks[m.to] = "answered" /\ (m.kind = "result" => m.found.at >= since[m.to])
    /\ \A r \in Recursives : pc[r] \in {"posting", "waiting"} /\ future[r].is = "result"
          => future[r].found.at >= since[r]

\* No request that is under way beside a list came before the oldest that the list overlaps.
Overlaps == \A l \in Lists, r \in Requests :
    pc[l] = "refreshing" /\ Active(r) => oldest[l] <= since[r]

\* An entry that is there and no older than any list that is under way.
Current(entry) ==
    /\ entry.status # "ABSENT"
    /\ \A l \in Lists : pc[l] = "refreshing" => entry.asOf >= oldest[l]

\* What a list does not still have to write is in the store, as new as the list needs it.
Written == \A l \in Lists :
    pc[l] = "refreshing" /\ "summary" \notin asked[l] =>
        \A c \in Conns \ todo[l] : view[l][c].lifecycle # "Unknown" =>
            store[c].status # "ABSENT" /\ store[c].asOf >= oldest[l]

DInv == Clocks /\ Others /\ Sourced /\ Found /\ Overlaps /\ Written

LEMMA InitDated == Init => DInv
<1> SUFFICES ASSUME Init PROVE DInv
  OBVIOUS
<1> USE RequestFacts, ReadsAssumption DEF Init
<1>1. Clocks /\ Others
  BY DEF Clocks, Others
<1>2. Sourced /\ Found
  BY DEF Sourced, Found
<1>3. Overlaps /\ Written
  BY DEF Overlaps, Written
<1> QED
  BY <1>1, <1>2, <1>3 DEF DInv

(***************************************************************************)
(* What is written is current.                                             *)
(***************************************************************************)
\* Every entry that a step writes is current; the others it leaves as they were.
StoreGrows == \A c \in Conns : store'[c] = store[c] \/ Current(store'[c])

LEMMA CurrentWritten ==
    ASSUME IInv, DInv, NEW r \in Requests, pc[r] = "refreshing", NEW c \in Conns, NEW entry,
           NEW v \in Views, NEW derived, derived.status \in Statuses,
           v.at >= since[r]
    PROVE  Current(UpdatedEntry(entry, v, derived))
<1> DEFINE new == UpdatedEntry(entry, v, derived)
<1>1. new.status \in Statuses /\ new.asOf = v.at /\ v.at \in Nat
  BY DEF UpdatedEntry, Views
<1>2. "ABSENT" \notin Statuses
  BY DEF Statuses
<1>3. ASSUME NEW l \in Lists, pc[l] = "refreshing" PROVE new.asOf >= oldest[l]
  <2>1. oldest[l] <= since[r]
    BY <1>3 DEF DInv, Overlaps, Active
  <2>2. oldest[l] \in Nat /\ since[r] \in Nat
    BY RequestFacts DEF DInv, Clocks
  <2> QED
    BY <1>1, <2>1, <2>2
<1> QED
  BY <1>1, <1>2, <1>3 DEF Current

\* A refresh writes what it has in hand when it may.
LEMMA ResolvedWritten ==
    ASSUME IInv, DInv, NEW r \in Requests, NEW c \in Conns, Resolved(r, c),
           \E derived \in Resolutions(Base(view[r][c])) : UpdateStore(c, view[r][c], derived)
    PROVE  /\ StoreGrows /\ Current(store'[c])
           /\ store'[c].asOf = view[r][c].at
           /\ view[r][c].at >= since[r]
<1>1. c \in todo[r] /\ asked[r] = {} /\ pc[r] = "refreshing"
  BY DEF Resolved, ToResolve, IInv, Aimed
<1>2. view[r][c].at >= since[r]
  BY <1>1 DEF DInv, Sourced
<1>3. PICK derived \in Resolutions(Base(view[r][c])) : UpdateStore(c, view[r][c], derived)
  OBVIOUS
<1> DEFINE new == UpdatedEntry(store[c], view[r][c], derived)
<1>4. Current(new)
  BY <1>1, <1>2, <1>3, ResolutionFacts, CurrentWritten DEF IInv, Typed
<1>5. new.asOf = view[r][c].at
  BY DEF UpdatedEntry
<1> HIDE DEF new
<1>6. store' = [store EXCEPT ![c] = new]
  BY <1>3 DEF UpdateStore, new
<1> QED
  BY <1>2, <1>4, <1>5, <1>6 DEF StoreGrows, IInv, Typed

\* What a list finds in the store stays current, and the list that moves on finds it so.
LEMMA WrittenKept ==
    ASSUME IInv, DInv, StoreGrows,
           \A l \in Lists : pc'[l] = "refreshing" =>
               \/ /\ pc[l] = "refreshing"
                  /\ UNCHANGED <<asked[l], todo[l], view[l], oldest[l]>>
               \/ "summary" \in asked'[l]
               \/ \A c \in Conns \ todo'[l] : view'[l][c].lifecycle # "Unknown" =>
                      store'[c].status # "ABSENT" /\ store'[c].asOf >= oldest'[l]
    PROVE  Written'
<1> SUFFICES ASSUME NEW l \in Lists, pc'[l] = "refreshing", "summary" \notin asked'[l],
                    NEW c \in Conns \ todo'[l], view'[l][c].lifecycle # "Unknown"
             PROVE  store'[c].status # "ABSENT" /\ store'[c].asOf >= oldest'[l]
  BY DEF Written
<1>1. CASE /\ pc[l] = "refreshing"
           /\ UNCHANGED <<asked[l], todo[l], view[l], oldest[l]>>
  <2>1. store[c].status # "ABSENT" /\ store[c].asOf >= oldest[l]
    BY <1>1 DEF DInv, Written
  <2> QED
    BY <1>1, <2>1 DEF StoreGrows, Current
<1> QED
  BY <1>1

(***************************************************************************)
(* A request is answered.                                                  *)
(***************************************************************************)
LEMMA AnsweredFresh ==
    ASSUME IInv, DInv, NEW r \in Requests, pc[r] # "idle", Replies(r, TRUE), StoreGrows, UNCHANGED externalVars, pending' \subseteq Recursives,
           \A q \in Recursives : q = r \/ future'[q] = future[q]
    PROVE  DInv'
<1> USE RequestFacts DEF DInv, IInv, Typed
<1>1. /\ pc' = [pc EXCEPT ![r] = IF r \in Recursives THEN "done" ELSE "idle"]
      /\ stale' = stale
      /\ since' = [since EXCEPT ![r] = 0] /\ oldest' = [oldest EXCEPT ![r] = 0]
      /\ UNCHANGED <<agg, moves, asks, net>>
  BY DEF Replies, externalVars
<1>2. /\ \A q \in Requests : q # r =>
           UNCHANGED <<pc[q], aim[q], asked[q], todo[q], refined[q], view[q], since[q], oldest[q]>>
      /\ asked'[r] = {} /\ todo'[r] = {} /\ refined'[r] = {}
      /\ pc'[r] \in {"idle", "done"} /\ (r \in Recursives => pc'[r] = "done")
      /\ since'[r] = 0 /\ oldest'[r] = 0
  BY DEF Replies, Forgets, Clocks, Others
<1>3. Clocks'
  BY <1>1 DEF Clocks
<1>4. Others'
  BY <1>1 DEF Others, Replies, Forgets
<1>5. Sourced'
  BY <1>2 DEF Sourced
<1>6. Found'
  <2>1. ASSUME NEW q \in Recursives, pc'[q] = "idle" PROVE asks'[q] = "none"
    BY <1>1, <1>2, <2>1 DEF Found
  <2>2. ASSUME NEW m \in net
        PROVE  asks'[m.to] = "answered" /\ (m.kind = "result" => m.found.at >= since'[m.to])
    <3>1. m.to \in Requests /\ m.found.at \in Nat
      BY DEF Messages, Views
    <3> QED
      BY <1>1, <1>2, <3>1 DEF Found
  <2>3. ASSUME NEW q \in Recursives, pc'[q] \in {"posting", "waiting"}, future'[q].is = "result"
        PROVE  future'[q].found.at >= since'[q]
    BY <1>2, <2>3 DEF Found
  <2> QED
    BY <1>1, <2>1, <2>2, <2>3 DEF Found
<1>7. Overlaps'
  BY <1>2 DEF Overlaps, Active
<1>8. Written'
  <2>1. \A l \in Lists : pc'[l] = "refreshing" =>
            pc[l] = "refreshing" /\ UNCHANGED <<asked[l], todo[l], view[l], oldest[l]>>
    BY <1>2
  <2> QED
    BY <2>1, WrittenKept
<1> QED
  BY <1>3, <1>4, <1>5, <1>6, <1>7, <1>8

(***************************************************************************)
(* A request comes.                                                        *)
(***************************************************************************)
LEMMA BegunOldest ==
    ASSUME IInv, DInv, NEW r \in Requests, NEW where, Begins(r, where)
    PROVE  /\ oldest' \in [Requests -> Nat] /\ since' \in [Requests -> Nat]
           /\ oldest'[r] <= moves /\ since'[r] = moves
           /\ \A q \in Requests : Active(q) => oldest'[r] <= since[q]
           /\ \A q \in Requests : q # r => UNCHANGED <<oldest[q], since[q], pc[q]>>
           /\ pc'[r] = where /\ pc[r] = "idle"
<1> DEFINE T == {moves} \union {since[o] : o \in {q \in Requests : Active(q)}}
<1>1. moves \in Nat /\ since \in [Requests -> Nat] /\ oldest \in [Requests -> Nat]
  BY DEF DInv, Clocks
<1>2. T \in SUBSET Nat /\ T # {} /\ moves \in T
  BY <1>1
<1>3. \A q \in Requests : Active(q) => since[q] \in T
  OBVIOUS
<1>4. oldest' = [oldest EXCEPT ![r] = Min(T)] /\ since' = [since EXCEPT ![r] = moves]
      /\ pc' = [pc EXCEPT ![r] = where] /\ pc[r] = "idle"
  BY DEF Begins
<1> HIDE DEF T
<1>5. Min(T) \in Nat /\ Min(T) <= moves /\ \A q \in Requests : Active(q) => Min(T) <= since[q]
  BY <1>2, <1>3, MinIsLeast
<1> QED
  BY <1>1, <1>4, <1>5 DEF IInv, Typed

\* What a request that comes disturbs, whatever it is about.
LEMMA BegunFresh ==
    ASSUME IInv, DInv, NEW r \in Requests, NEW where \in {"posting", "refreshing"}, Begins(r, where),
           IF r \in Recursives THEN where = "posting" ELSE "summary" \in asked'[r],
           UNCHANGED <<moves, net, store, refined, view, stale>>,
           \A q \in Requests : q # r => UNCHANGED <<aim[q], asked[q], todo[q]>>,
           r \in Gets => todo'[r] = {aim'[r]},
           r \notin Gets => todo'[r] = todo[r],
           \A q \in Recursives : q # r => UNCHANGED <<asks[q], future[q]>>,
           r \in Recursives => future'[r].is = "waiting",
           pending' \subseteq Recursives
    PROVE  DInv'
<1> USE RequestFacts DEF DInv, IInv, Typed
<1>1. /\ oldest' \in [Requests -> Nat] /\ since' \in [Requests -> Nat]
      /\ oldest'[r] <= moves /\ since'[r] = moves
      /\ \A q \in Requests : Active(q) => oldest'[r] <= since[q]
      /\ \A q \in Requests : q # r => UNCHANGED <<oldest[q], since[q], pc[q]>>
      /\ pc'[r] = where /\ pc[r] = "idle"
  BY BegunOldest
<1>2. Clocks'
  <2>1. ASSUME NEW q \in Requests PROVE since'[q] <= moves'
    <3>1. CASE q = r
      BY <1>1, <3>1
    <3>2. CASE q # r
      BY <1>1, <3>2 DEF Clocks
    <3> QED
      BY <3>1, <3>2
  <2> QED
    BY <1>1, <2>1 DEF Clocks
<1>3. Others'
  BY DEF Others
<1>4. Sourced'
  <2>1. ASSUME NEW q \in Requests, NEW c \in todo'[q], "summary" \notin asked'[q]
        PROVE  view'[q][c].at >= since'[q]
    <3>1. CASE q # r
      BY <1>1, <2>1, <3>1 DEF Sourced
    <3>2. CASE q = r
      <4>1. r \in Recursives /\ todo'[r] = todo[r] /\ todo[r] = {}
        BY <1>1, <2>1, <3>2 DEF Aimed
      <4> QED
        BY <2>1, <3>2, <4>1
    <3> QED
      BY <3>1, <3>2
  <2>2. ASSUME NEW q \in Gets, pc'[q] = "refreshing" PROVE todo'[q] = {aim'[q]}
    BY <1>1, <2>2 DEF Sourced
  <2> QED
    BY <2>1, <2>2 DEF Sourced
<1>5. Found'
  <2>1. ASSUME NEW q \in Recursives, pc'[q] = "idle" PROVE asks'[q] = "none"
    BY <1>1, <2>1 DEF Found
  <2>2. ASSUME NEW m \in net
        PROVE  asks'[m.to] = "answered" /\ (m.kind = "result" => m.found.at >= since'[m.to])
    <3>1. m.to \in Recursives /\ m.to # r
      BY <1>1 DEF Messages, Found
    <3> QED
      BY <1>1, <3>1 DEF Found
  <2>3. ASSUME NEW q \in Recursives, pc'[q] \in {"posting", "waiting"}, future'[q].is = "result"
        PROVE  future'[q].found.at >= since'[q]
    <3>1. q # r /\ UNCHANGED <<pc[q], future[q], since[q]>>
      BY <1>1, <2>3
    <3> QED
      BY <2>3, <3>1 DEF Found
  <2> QED
    BY <2>1, <2>2, <2>3 DEF Found
<1>6. Overlaps'
  <2> SUFFICES ASSUME NEW l \in Lists, NEW q \in Requests, pc'[l] = "refreshing", Active(q)'
               PROVE  oldest'[l] <= since'[q]
    BY DEF Overlaps
  <2>1. CASE l = r /\ q = r
    BY <1>1, <2>1
  <2>2. CASE l = r /\ q # r
    BY <1>1, <2>2 DEF Active
  <2>3. CASE l # r /\ q = r
    <3>1. oldest[l] <= since[l] /\ since[l] <= moves
      BY <1>1, <2>3 DEF Overlaps, Active, Clocks
    <3> QED
      BY <1>1, <2>3, <3>1 DEF Clocks
  <2>4. CASE l # r /\ q # r
    BY <1>1, <2>4 DEF Overlaps, Active
  <2> QED
    BY <2>1, <2>2, <2>3, <2>4
<1>7. Written'
  BY <1>1, WrittenKept DEF StoreGrows
<1> QED
  BY <1>2, <1>3, <1>4, <1>5, <1>6, <1>7

LEMMA FreshComes ==
    ASSUME IInv, DInv, NEW r \in Requests, Comes(r)
    PROVE  DInv'
<1> USE RequestFacts
<1>0. asked \in [Requests -> SUBSET (Conns \union {"summary"})] /\ todo \in [Requests -> SUBSET Conns]
      /\ aim \in [Requests -> Conns \union {NoConn}] /\ pending \subseteq Recursives
      /\ future \in [Recursives -> Futures]
      /\ asks \in [Recursives -> {"none", "posted", "accepted", "answered"}]
  BY DEF IInv, Typed, DInv, Others
<1>1. ASSUME NEW c \in Conns, StartGet(r, c) PROVE DInv'
  <2>1. /\ UNCHANGED <<moves, asks, net, store, refined, view, stale, pending, future>>
        /\ r \in Gets /\ Begins(r, "refreshing")
        /\ aim' = [aim EXCEPT ![r] = c]
        /\ asked' = [asked EXCEPT ![r] = {"summary", c}]
        /\ todo' = [todo EXCEPT ![r] = {c}]
    BY <1>1 DEF StartGet, externalVars, storeVars, futureVars
  <2>2. "summary" \in asked'[r] /\ aim'[r] = c /\ todo'[r] = {c}
    BY <1>0, <2>1
  <2> QED
    BY <1>0, <2>1, <2>2, BegunFresh
<1>2. ASSUME StartList(r) PROVE DInv'
  <2>1. /\ UNCHANGED <<moves, asks, net, store, refined, view, stale, pending, future, aim, todo>>
        /\ r \in Lists /\ Begins(r, "refreshing")
        /\ asked' = [asked EXCEPT ![r] = {"summary"}]
    BY <1>2 DEF StartList, externalVars, storeVars, futureVars
  <2>2. "summary" \in asked'[r]
    BY <1>0, <2>1
  <2> QED
    BY <1>0, <2>1, <2>2, BegunFresh
<1>3. ASSUME NEW c \in Conns, StartRecursive(r, c) PROVE DInv'
  <2>1. /\ UNCHANGED <<moves, net, store, refined, view, stale, asked, todo>>
        /\ r \in Recursives /\ Begins(r, "posting")
        /\ aim' = [aim EXCEPT ![r] = c]
        /\ pending' = pending \union {r}
        /\ future' = [future EXCEPT ![r] = [future[r] EXCEPT !.is = "waiting"]]
        /\ asks' = [asks EXCEPT ![r] = "posted"]
    BY <1>3 DEF StartRecursive, storeVars
  <2>2. future[r] \in Futures
    BY <1>0, <2>1
  <2>3. future'[r].is = "waiting"
    BY <1>0, <2>1, <2>2 DEF Futures
  <2> QED
    BY <1>0, <2>1, <2>3, BegunFresh
<1> QED
  BY <1>1, <1>2, <1>3 DEF Comes

(***************************************************************************)
(* A refresh goes on.                                                      *)
(***************************************************************************)
\* What a step of one request disturbs that does not answer it.
LEMMA GoesOnFresh ==
    ASSUME IInv, IInv', DInv, NEW r \in Requests, StoreGrows, pc[r] = "refreshing",
           UNCHANGED <<agg, moves, asks, net, pc, aim, pending, future, stale, since, oldest>>,
           refined' \in [Requests -> SUBSET Conns],
           \A q \in Requests : q # r => UNCHANGED <<asked[q], todo[q], view[q]>>,
           "summary" \notin asked'[r] => \A c \in todo'[r] : view'[r][c].at >= since[r],
           r \in Gets => todo'[r] = todo[r],
           r \in Lists =>
               \/ UNCHANGED <<asked[r], todo[r], view[r]>>
               \/ "summary" \in asked'[r]
               \/ \A c \in Conns \ todo'[r] : view'[r][c].lifecycle # "Unknown" =>
                      store'[c].status # "ABSENT" /\ store'[c].asOf >= oldest[r]
    PROVE  DInv'
<1> USE RequestFacts DEF DInv
<1>1. Clocks' /\ Others'
  BY DEF Clocks, Others
<1>2. Sourced'
  BY DEF Sourced
<1>3. Found' /\ Overlaps'
  BY DEF Found, Overlaps, Active
<1>4. Written'
  BY WrittenKept
<1> QED
  BY <1>1, <1>2, <1>3, <1>4

LEMMA FreshGoesOn ==
    ASSUME IInv, IInv', DInv, NEW r \in Requests,
           \/ GetSummary(r)
           \/ \E c \in Conns : NotificationsAnswered(r, c) \/ ResultsAnswered(r, c) \/ ResolveListed(r, c)
    PROVE  DInv'
<1> USE RequestFacts
<1>0. /\ asked \in [Requests -> SUBSET (Conns \union {"summary"})] /\ todo \in [Requests -> SUBSET Conns]
      /\ view \in [Requests -> [Conns -> Views]] /\ refined \in [Requests -> SUBSET Conns]
      /\ since \in [Requests -> Nat] /\ moves \in Nat /\ since[r] <= moves
  BY DEF IInv, Typed, DInv, Others, Clocks
<1>1. ASSUME GetSummary(r) PROVE DInv'
  <2>1. /\ r \in Gets /\ "summary" \in asked[r]
        /\ asked' = [asked EXCEPT ![r] = asked[r] \ {"summary"}]
        /\ view' = [view EXCEPT ![r][aim[r]] = [SummaryOf(aim[r]) EXCEPT !.events = view[r][aim[r]].events]]
        /\ UNCHANGED <<agg, moves, asks, net, store, pc, aim, todo, refined, pending, future, stale, since,
                      oldest>>
    BY <1>1 DEF GetSummary, externalVars, storeVars, futureVars
  <2>2. pc[r] = "refreshing" /\ todo[r] = {aim[r]} /\ aim[r] \in Conns
    BY <2>1 DEF IInv, Aimed, DInv, Sourced
  <2>3. view'[r][aim[r]].at = moves
    <3> DEFINE new == [SummaryOf(aim[r]) EXCEPT !.events = view[r][aim[r]].events]
    <3>1. new.at = moves
      BY DEF SummaryOf
    <3> HIDE DEF new
    <3>2. view' = [view EXCEPT ![r][aim[r]] = new]
      BY <2>1 DEF new
    <3>3. view'[r][aim[r]] = new
      BY <1>0, <2>2, <3>2
    <3> QED
      BY <3>1, <3>3
  <2>4. \A c \in todo'[r] : view'[r][c].at >= since[r]
    BY <1>0, <2>1, <2>2, <2>3
  <2>5. \A q \in Requests : q # r => UNCHANGED <<asked[q], todo[q], view[q]>>
    BY <1>0, <2>1
  <2> QED
    BY <1>0, <2>1, <2>2, <2>4, <2>5, GoesOnFresh DEF StoreGrows
<1>2. ASSUME NEW c \in Conns, NotificationsAnswered(r, c) PROVE DInv'
  <2>1. /\ c \in asked[r]
        /\ asked' = [asked EXCEPT ![r] = asked[r] \ {c}]
        /\ \/ view' = [view EXCEPT ![r][c] = [view[r][c] EXCEPT !.events = agg[c].events]]
           \/ view' = view
        /\ UNCHANGED <<agg, moves, asks, net, store, pc, aim, todo, refined, pending, future, stale, since,
                      oldest>>
    BY <1>2 DEF NotificationsAnswered, externalVars, storeVars, futureVars
  <2>2. pc[r] = "refreshing" /\ c # "summary"
    BY <2>1, ReadsAssumption DEF IInv, Aimed
  <2>3. ASSUME NEW d \in Conns
        PROVE  view'[r][d].at = view[r][d].at /\ view'[r][d].lifecycle = view[r][d].lifecycle
    <3> DEFINE new == [view[r][c] EXCEPT !.events = agg[c].events]
    <3>1. view[r][c] \in Views
      BY <1>0
    <3>2. new.at = view[r][c].at /\ new.lifecycle = view[r][c].lifecycle
      BY <3>1 DEF Views
    <3> HIDE DEF new
    <3>3. view' = view \/ view' = [view EXCEPT ![r][c] = new]
      BY <2>1 DEF new
    <3>4. view'[r][d] = view[r][d] \/ (d = c /\ view'[r][d] = new)
      BY <1>0, <3>3
    <3> QED
      BY <3>2, <3>4
  <2>4. \A q \in Requests : q # r => UNCHANGED <<asked[q], todo[q], view[q]>>
    BY <1>0, <2>1
  <2>5. "summary" \notin asked'[r] => "summary" \notin asked[r]
    BY <1>0, <2>1, <2>2
  <2>6. "summary" \notin asked'[r] => \A d \in todo'[r] : view'[r][d].at >= since[r]
    BY <1>0, <2>1, <2>3, <2>5 DEF DInv, Sourced
  <2>7. r \in Lists /\ "summary" \notin asked'[r] =>
            \A d \in Conns \ todo'[r] : view'[r][d].lifecycle # "Unknown" =>
                store'[d].status # "ABSENT" /\ store'[d].asOf >= oldest[r]
    BY <2>1, <2>2, <2>3, <2>5 DEF DInv, Written
  <2>8. StoreGrows /\ todo' = todo
    BY <2>1 DEF StoreGrows
  <2>9. /\ UNCHANGED <<agg, moves, asks, net, pc, aim, pending, future, stale, since, oldest>>
        /\ refined' \in [Requests -> SUBSET Conns]
    BY <1>0, <2>1
  <2> QED
    BY <2>2, <2>4, <2>6, <2>7, <2>8, <2>9, GoesOnFresh
<1>3. ASSUME NEW c \in Conns, ResultsAnswered(r, c) PROVE DInv'
  <2>1. /\ UNCHANGED <<agg, moves, asks, net, pc, aim, pending, future, stale, since, oldest>>
        /\ UNCHANGED <<store, asked, todo, view>>
        /\ refined' \in [Requests -> SUBSET Conns]
        /\ pc[r] = "refreshing"
    BY <1>0, <1>3 DEF ResultsAnswered, ToResolve, externalVars, storeVars, futureVars, IInv, Aimed
  <2>2. "summary" \notin asked'[r] => \A d \in todo'[r] : view'[r][d].at >= since[r]
    BY <2>1 DEF DInv, Sourced
  <2> QED
    BY <2>1, <2>2, GoesOnFresh DEF StoreGrows
<1>4. ASSUME NEW c \in Conns, ResolveListed(r, c) PROVE DInv'
  <2>1. /\ UNCHANGED <<agg, moves, asks, net, pc, aim, pending, future, stale, since, oldest>>
        /\ UNCHANGED <<asked, view, refined>>
        /\ todo' = [todo EXCEPT ![r] = todo[r] \ {c}]
        /\ r \in Lists /\ pc[r] = "refreshing"
    BY <1>4 DEF ResolveListed, Resolved, ToResolve, externalVars, storeVars, futureVars, IInv, Aimed
  <2>2. StoreGrows /\ Current(store'[c])
    BY <1>4, ResolvedWritten DEF ResolveListed
  <2>3. todo'[r] = todo[r] \ {c} /\ \A q \in Requests : q # r => UNCHANGED todo[q]
    BY <1>0, <2>1
  <2>4. "summary" \notin asked'[r] => \A d \in todo'[r] : view'[r][d].at >= since[r]
    BY <2>1, <2>3 DEF DInv, Sourced
  <2>5. "summary" \notin asked'[r] =>
            \A d \in Conns \ todo'[r] : view'[r][d].lifecycle # "Unknown" =>
                store'[d].status # "ABSENT" /\ store'[d].asOf >= oldest[r]
    <3> SUFFICES ASSUME "summary" \notin asked'[r], NEW d \in Conns \ todo'[r],
                        view'[r][d].lifecycle # "Unknown"
                 PROVE  store'[d].status # "ABSENT" /\ store'[d].asOf >= oldest[r]
      OBVIOUS
    <3>1. CASE d = c
      BY <2>1, <2>2, <3>1 DEF Current
    <3>2. CASE d # c
      <4>1. store[d].status # "ABSENT" /\ store[d].asOf >= oldest[r]
        BY <2>1, <2>3, <3>2 DEF DInv, Written
      <4> QED
        BY <2>1, <2>2, <4>1 DEF StoreGrows, Current
    <3> QED
      BY <3>1, <3>2
  <2> QED
    BY <1>0, <2>1, <2>2, <2>3, <2>4, <2>5, GoesOnFresh
<1> QED
  BY <1>1, <1>2, <1>3, <1>4

LEMMA FreshListSummary ==
    ASSUME IInv, IInv', DInv, NEW r \in Requests, ListSummary(r)
    PROVE  DInv'
<1> DEFINE known == {c \in Conns : agg[c].lifecycle # "Unknown"}
<1> DEFINE ended == {c \in known : Base(SummaryOf(c)) \in TerminalStatuses}
<1> DEFINE derived(c) == Refine(Base(SummaryOf(c)), FALSE, FALSE, FALSE)
<1>1. /\ r \in Lists /\ "summary" \in asked[r]
      /\ UNCHANGED <<agg, moves, asks, net, pending, future>> /\ UNCHANGED externalVars
      /\ store' = [c \in Conns |-> IF c \in ended THEN UpdatedEntry(store[c], SummaryOf(c), derived(c))
                                   ELSE store[c]]
  BY DEF ListSummary, externalVars, futureVars
<1>2. /\ pc[r] = "refreshing"
      /\ asked \in [Requests -> SUBSET (Conns \union {"summary"})] /\ todo \in [Requests -> SUBSET Conns]
      /\ view \in [Requests -> [Conns -> Views]] /\ refined \in [Requests -> SUBSET Conns]
      /\ moves \in Nat /\ since[r] <= moves /\ pending \subseteq Recursives
      /\ oldest[r] \in Nat /\ oldest[r] <= moves
  <2>1. pc[r] = "refreshing"
    BY <1>1 DEF IInv, Aimed
  <2>2. oldest[r] <= since[r] /\ since[r] <= moves /\ since[r] \in Nat /\ oldest[r] \in Nat
    BY <1>1, <2>1 DEF DInv, Overlaps, Clocks, Active
  <2> QED
    BY <2>1, <2>2 DEF IInv, Typed, DInv, Others
<1>3. ASSUME NEW c \in Conns
      PROVE  /\ SummaryOf(c) \in Views /\ SummaryOf(c).at = moves
             /\ SummaryOf(c).lifecycle = agg[c].lifecycle
             /\ Current(UpdatedEntry(store[c], SummaryOf(c), derived(c)))
  <2>1. SummaryOf(c) \in Views /\ SummaryOf(c).at = moves /\ SummaryOf(c).lifecycle = agg[c].lifecycle
    BY SummaryIsView DEF IInv, SummaryOf
  <2>2. derived(c).status \in Statuses
    <3>1. Base(SummaryOf(c)) \in Statuses
      BY MappedStatus DEF Base
    <3> QED
      BY <3>1 DEF Refine, Statuses
  <2> HIDE DEF derived
  <2>3. SummaryOf(c).at >= since[r]
    BY <1>2, <2>1
  <2> QED
    BY <1>2, <2>1, <2>2, <2>3, CurrentWritten
<1>4. \/ known = ended /\ ListAnswered(r, known, store')
      \/ /\ view' = [view EXCEPT ![r] = [c \in Conns |-> SummaryOf(c)]]
         /\ asked' = [asked EXCEPT ![r] = known \ ended]
         /\ todo' = [todo EXCEPT ![r] = known \ ended]
         /\ UNCHANGED <<pc, aim, refined, stale, since, oldest>>
  BY DEF ListSummary
<1> HIDE DEF derived
<1>5. StoreGrows /\ \A c \in ended : Current(store'[c])
  BY <1>1, <1>3 DEF StoreGrows
<1>6. CASE known = ended /\ ListAnswered(r, known, store')
  <2>1. \A c \in known : store'[c] # NoEntry /\ store'[c].asOf >= oldest[r]
    BY <1>1, <1>2, <1>5, <1>6 DEF Current, NoEntry
  <2>2. Replies(r, TRUE)
    BY <1>6, <2>1 DEF ListAnswered, Replies
  <2> QED
    BY <1>1, <1>2, <1>5, <2>2, AnsweredFresh
<1>7. CASE /\ view' = [view EXCEPT ![r] = [c \in Conns |-> SummaryOf(c)]]
           /\ asked' = [asked EXCEPT ![r] = known \ ended]
           /\ todo' = [todo EXCEPT ![r] = known \ ended]
           /\ UNCHANGED <<pc, aim, refined, stale, since, oldest>>
  <2>1. /\ \A q \in Requests : q # r => UNCHANGED <<asked[q], todo[q], view[q]>>
        /\ todo'[r] = known \ ended
        /\ \A c \in Conns : view'[r][c] = SummaryOf(c)
    BY <1>2, <1>7
  <2>2. \A c \in todo'[r] : view'[r][c].at >= since[r]
    BY <1>2, <1>3, <2>1
  <2>3. ASSUME NEW c \in Conns \ todo'[r], view'[r][c].lifecycle # "Unknown"
        PROVE  store'[c].status # "ABSENT" /\ store'[c].asOf >= oldest[r]
    <3>1. c \in ended
      BY <1>3, <2>1, <2>3
    <3> QED
      BY <1>1, <1>2, <1>5, <3>1 DEF Current
  <2>4. r \notin Gets
    BY <1>1, RequestFacts
  <2> HIDE DEF known, ended
  <2> QED
    BY <1>1, <1>2, <1>5, <1>7, <2>1, <2>2, <2>3, <2>4, GoesOnFresh
<1> QED
  BY <1>4, <1>6, <1>7

\* Every answer of a refresh is fresh.
LEMMA FreshAnswers ==
    ASSUME IInv, DInv, NEW r \in Requests,
           SummaryFails(r) \/ NotFound(r) \/ Retrieve(r) \/ ListReplies(r)
    PROVE  DInv'
<1>0. pending \subseteq Recursives
  BY DEF DInv, Others
<1>1. ASSUME SummaryFails(r) PROVE DInv'
  <2>1. /\ Replies(r, TRUE) /\ pc[r] = "refreshing"
        /\ UNCHANGED <<externalVars, store, pending, future>>
    BY <1>1 DEF SummaryFails, Fails, storeVars, futureVars, IInv, Aimed
  <2> QED
    BY <1>0, <2>1, AnsweredFresh DEF StoreGrows
<1>2. ASSUME NotFound(r) PROVE DInv'
  <2>1. /\ r \in Gets /\ pc[r] = "refreshing" /\ asked[r] = {}
        /\ Replies(r, TRUE)
        /\ UNCHANGED <<externalVars, store, pending, future>>
    BY <1>2 DEF NotFound, storeVars, futureVars
  <2> QED
    BY <1>0, <2>1, AnsweredFresh DEF StoreGrows
<1>3. ASSUME Retrieve(r) PROVE DInv'
  <2>1. /\ Resolved(r, aim[r]) /\ UNCHANGED <<externalVars, pending, future>>
        /\ \E derived \in Resolutions(Base(view[r][aim[r]])) : UpdateStore(aim[r], view[r][aim[r]], derived)
        /\ Replies(r, TRUE)
    BY <1>3 DEF Retrieve, futureVars
  <2>2. aim[r] \in Conns /\ pc[r] = "refreshing"
    BY <2>1 DEF Resolved, ToResolve, IInv, Typed, Aimed
  <2>3. StoreGrows
    BY <2>1, <2>2, ResolvedWritten
  <2> QED
    BY <1>0, <2>1, <2>2, <2>3, AnsweredFresh
<1>4. ASSUME ListReplies(r) PROVE DInv'
  <2> DEFINE known == {c \in Conns : view[r][c].lifecycle # "Unknown"}
  <2>1. /\ r \in Lists /\ pc[r] = "refreshing" /\ asked[r] = {} /\ todo[r] = {}
        /\ ListAnswered(r, known, store)
        /\ UNCHANGED <<externalVars, store, pending, future>>
    BY <1>4 DEF ListReplies, storeVars, futureVars
  <2>2. \A c \in known : store[c] # NoEntry /\ store[c].asOf >= oldest[r]
    BY <2>1 DEF DInv, Written, NoEntry
  <2>3. Replies(r, TRUE)
    BY <2>1, <2>2 DEF ListAnswered, Replies
  <2> QED
    BY <1>0, <2>1, <2>3, AnsweredFresh DEF StoreGrows
<1> QED
  BY <1>1, <1>2, <1>3, <1>4

(***************************************************************************)
(* A recursive query, the callback endpoint, and what happens outside.     *)
(***************************************************************************)
LEMMA FreshQuery ==
    ASSUME IInv, IInv', DInv, NEW r \in Recursives, Queries(r)
    PROVE  DInv'
<1> USE RequestFacts
<1>0. /\ r \in Requests /\ pending \subseteq Recursives /\ future \in [Recursives -> Futures]
      /\ pc \in [Requests -> Places] /\ since \in [Requests -> Nat] /\ r \notin Gets
      /\ view \in [Requests -> [Conns -> Views]]
      /\ asked \in [Requests -> SUBSET (Conns \union {"summary"})] /\ todo \in [Requests -> SUBSET Conns]
  BY DEF IInv, Typed, DInv, Others, Clocks
<1>1. ASSUME QueryAcked(r) PROVE DInv'
  <2>1. /\ UNCHANGED <<agg, moves, asks, net, store, aim, asked, todo, refined, view, pending, future>>
        /\ UNCHANGED <<stale, since, oldest>>
        /\ pc[r] = "posting" /\ pc' = [pc EXCEPT ![r] = "waiting"]
    BY <1>1 DEF QueryAcked, externalVars, storeVars, refreshVars, futureVars
  <2>2. pc'[r] = "waiting" /\ \A q \in Requests : q # r => pc'[q] = pc[q]
    BY <1>0, <2>1
  <2>3. Clocks' /\ Others' /\ Sourced'
    BY <2>1, <2>2, <1>0 DEF DInv, Clocks, Others, Sourced
  <2>4. Found'
    BY <2>1, <2>2 DEF DInv, Found
  <2>5. Overlaps'
    BY <1>0, <2>1, <2>2 DEF DInv, Overlaps, Active
  <2>6. Written'
    BY <1>0, <2>1, <2>2, WrittenKept DEF StoreGrows
  <2> QED
    BY <2>3, <2>4, <2>5, <2>6 DEF DInv
<1>2. ASSUME Replies(r, TRUE), UNCHANGED <<externalVars, storeVars>>, pc[r] # "idle", pending' \subseteq Recursives,
             \A q \in Recursives : q = r \/ future'[q] = future[q]
      PROVE  DInv'
  BY <1>0, <1>2, AnsweredFresh DEF StoreGrows, storeVars
<1>3. \A q \in Recursives : q = r \/ Cancelled(r)[q] = future[q]
  BY <1>0 DEF Cancelled
<1>4. ASSUME QueryPostFails(r) \/ QueryGarbled(r) \/ QueryTimesOut(r) \/ QueryUnexpected(r) PROVE DInv'
  BY <1>0, <1>2, <1>3, <1>4 DEF QueryPostFails, QueryGarbled, QueryTimesOut, QueryUnexpected, Fails, futureVars
<1>5. ASSUME QueryNotFound(r) PROVE DInv'
  <2>1. /\ pc[r] = "waiting" /\ future[r].is = "result"
        /\ Replies(r, TRUE)
        /\ future' = [future EXCEPT ![r] = [future[r] EXCEPT !.found = Blank]]
        /\ UNCHANGED <<externalVars, storeVars, pending>>
    BY <1>5 DEF QueryNotFound
  <2>2. \A q \in Recursives : q = r \/ future'[q] = future[q]
    BY <1>0, <2>1
  <2> QED
    BY <1>0, <1>2, <2>1, <2>2
<1>6. ASSUME QueryResolved(r) PROVE DInv'
  <2>1. /\ pc[r] = "waiting" /\ future[r].is = "result"
        /\ pc' = [pc EXCEPT ![r] = "refreshing"]
        /\ view' = [view EXCEPT ![r][aim[r]] = future[r].found]
        /\ asked' = [asked EXCEPT ![r] = {aim[r]}] /\ todo' = [todo EXCEPT ![r] = {aim[r]}]
        /\ future' = [future EXCEPT ![r] = [future[r] EXCEPT !.found = Blank]]
        /\ UNCHANGED <<agg, moves, asks, net, store, aim, refined, pending, stale, since, oldest>>
    BY <1>6 DEF QueryResolved, externalVars, storeVars
  <2>2. aim[r] \in Conns /\ future[r].found.at >= since[r]
    BY <2>1 DEF IInv, Aimed, DInv, Found
  <2>3. /\ pc'[r] = "refreshing" /\ todo'[r] = {aim[r]} /\ view'[r][aim[r]] = future[r].found
        /\ \A q \in Requests : q # r => UNCHANGED <<pc[q], asked[q], todo[q], view[q]>>
        /\ \A q \in Recursives : q # r => UNCHANGED future[q]
    BY <1>0, <2>1, <2>2
  <2>4. Clocks' /\ Others'
    BY <2>1 DEF DInv, Clocks, Others
  <2>5. Sourced'
    BY <1>0, <2>1, <2>2, <2>3 DEF DInv, Sourced
  <2>6. Found'
    BY <2>1, <2>3 DEF DInv, Found
  <2>7. Overlaps'
    BY <1>0, <2>1, <2>3 DEF DInv, Overlaps, Active
  <2>8. Written'
    BY <1>0, <2>1, <2>3, WrittenKept DEF StoreGrows
  <2> QED
    BY <2>4, <2>5, <2>6, <2>7, <2>8 DEF DInv
<1> QED
  BY <1>1, <1>4, <1>5, <1>6 DEF Queries

\* What is outside the handlers leaves the refreshes alone.
LEMMA FreshOutside ==
    ASSUME IInv, DInv, UNCHANGED <<store, pc, aim, asked, todo, refined, view, stale, since, oldest>>,
           moves' \in 1..(MaxMoves + 1), moves' >= moves, pending' \subseteq Recursives, Found'
    PROVE  DInv'
<1>1. Clocks' /\ Others'
  <2>1. \A r \in Requests : since'[r] \in Nat /\ since'[r] <= moves /\ moves \in Nat /\ moves' \in Nat
    BY DEF DInv, Clocks
  <2>2. \A r \in Requests : since'[r] <= moves'
    BY <2>1
  <2> QED
    BY <2>2 DEF DInv, Clocks, Others
<1>2. Sourced' /\ Overlaps' /\ Written'
  BY DEF DInv, Sourced, Overlaps, Active, Written
<1> QED
  BY <1>1, <1>2 DEF DInv

LEMMA FreshDeliver ==
    ASSUME IInv, DInv, NEW m \in net, Deliver(m)
    PROVE  DInv'
<1>1. /\ UNCHANGED <<agg, moves, asks, store, pc, aim, asked, todo, refined, view, stale, since, oldest>>
      /\ net' = net \ {m} /\ pending' \subseteq pending
      /\ future' = [r \in Recursives |->
            IF r \in Addressees(m) /\ future[r].is = "waiting" THEN [is |-> m.kind, found |-> m.found]
            ELSE future[r]]
  BY DEF Deliver, storeVars, refreshVars
<1>2. Found'
  <2>1. ASSUME NEW r \in Recursives, pc'[r] \in {"posting", "waiting"}, future'[r].is = "result"
        PROVE  future'[r].found.at >= since'[r]
    <3>1. CASE r \in Addressees(m) /\ future[r].is = "waiting"
      <4>1. m.to = r /\ future'[r] = [is |-> m.kind, found |-> m.found]
        BY <1>1, <3>1 DEF Addressees
      <4> QED
        BY <1>1, <2>1, <4>1 DEF DInv, Found
    <3>2. CASE ~(r \in Addressees(m) /\ future[r].is = "waiting")
      BY <1>1, <2>1, <3>2 DEF DInv, Found
    <3> QED
      BY <3>1, <3>2
  <2> QED
    BY <1>1, <2>1 DEF DInv, Found
<1> QED
  BY <1>1, <1>2, FreshOutside DEF DInv, Clocks, Others, IInv, Typed

LEMMA FreshEnvironment ==
    ASSUME IInv, DInv, Environment
    PROVE  DInv'
<1>0. /\ UNCHANGED <<store, pc, aim, asked, todo, refined, view, stale, since, oldest, pending, future>>
      /\ pending \subseteq Recursives /\ moves \in 1..(MaxMoves + 1) /\ moves \in Nat /\ MaxMoves \in Nat
      /\ asks \in [Recursives -> {"none", "posted", "accepted", "answered"}]
  BY ReadsAssumption DEF Environment, storeVars, refreshVars, futureVars, DInv, Others, Clocks, IInv, Typed
<1>1. ASSUME NEW c \in Conns, Provisioned(c) \/ ErrorEvent(c) \/ EndsAtAggregator(c) PROVE DInv'
  <2>1. moves <= MaxMoves /\ moves' = moves + 1 /\ UNCHANGED <<asks, net>>
    BY <1>1 DEF Provisioned, ErrorEvent, EndsAtAggregator, Moves
  <2>2. Found'
    BY <1>0, <2>1 DEF DInv, Found
  <2> QED
    BY <1>0, <2>1, <2>2, FreshOutside
<1>2. ASSUME NEW r \in Recursives, Accepts(r) \/ Answers(r) PROVE DInv'
  <2>1. /\ UNCHANGED <<agg, moves>>
        /\ \/ net' = net /\ asks[r] = "posted"
           \/ asks'[r] = "answered" /\ \E found : net' = net \union {[to |-> r, kind |-> "unexpected", found |-> found]}
           \/ /\ asks'[r] = "answered"
              /\ net' = net \union {[to |-> r, kind |-> "result", found |-> SummaryOf(aim[r])]}
        /\ \A q \in Recursives : q # r => asks'[q] = asks[q]
        /\ asks[r] # "none"
    BY <1>0, <1>2 DEF Accepts, Answers
  <2>2. since[r] <= SummaryOf(aim[r]).at
    BY RequestFacts DEF DInv, Clocks, SummaryOf
  <2>3. Found'
    <3>1. ASSUME NEW m \in net'
          PROVE  asks'[m.to] = "answered" /\ (m.kind = "result" => m.found.at >= since'[m.to])
      <4>1. CASE m \in net
        <5>1. /\ m.to \in Recursives /\ asks[m.to] = "answered"
              /\ m.kind = "result" => m.found.at >= since[m.to]
          BY <4>1 DEF DInv, Found, IInv, Typed, Messages
        <5>2. asks'[m.to] = "answered"
          BY <2>1, <5>1, <4>1
        <5> QED
          BY <1>0, <5>1, <5>2
      <4>2. CASE m \notin net
        <5>1. SummaryOf(aim[r]).at \in Nat /\ since[r] \in Nat
          BY <1>0, RequestFacts DEF SummaryOf, DInv, Clocks
        <5>2. /\ m.to = r /\ asks'[r] = "answered"
              /\ m.kind = "result" => m.found = SummaryOf(aim[r])
          BY <2>1, <3>1, <4>2
        <5> QED
          BY <1>0, <2>2, <5>1, <5>2
      <4> QED
        BY <4>1, <4>2
    <3>2. ASSUME NEW q \in Recursives, pc'[q] = "idle" PROVE asks'[q] = "none"
      BY <1>0, <2>1, <3>2 DEF DInv, Found
    <3> QED
      BY <1>0, <3>1, <3>2 DEF DInv, Found
  <2> QED
    BY <1>0, <2>1, <2>3, FreshOutside
<1> QED
  BY <1>1, <1>2 DEF Environment

LEMMA StepDated == IInv /\ DInv /\ [Next]_vars => DInv'
<1> SUFFICES ASSUME IInv, DInv, [Next]_vars PROVE DInv'
  OBVIOUS
<1>0. IInv'
  BY StepInv
<1>1. CASE UNCHANGED vars
  <2>1. /\ UNCHANGED <<agg, moves, asks, net, store, logged, pc, aim, asked, todo, refined, view, pending>>
        /\ UNCHANGED <<future, stale, since, oldest>>
    BY <1>1 DEF vars, externalVars, storeVars, refreshVars, futureVars
  <2> QED
    BY <2>1 DEF DInv, Clocks, Others, Sourced, Found, Overlaps, Active, Written
<1>2. ASSUME NEW r \in Requests, Comes(r) PROVE DInv'
  BY <1>2, FreshComes
<1>3. ASSUME NEW r \in Requests, Refreshes(r) PROVE DInv'
  BY <1>0, <1>3, FreshGoesOn, FreshListSummary, FreshAnswers DEF Refreshes
<1>4. ASSUME NEW r \in Recursives, Queries(r) PROVE DInv'
  BY <1>0, <1>4, FreshQuery
<1>5. ASSUME NEW m \in net, Deliver(m) PROVE DInv'
  BY <1>5, FreshDeliver
<1>6. ASSUME Environment PROVE DInv'
  BY <1>6, FreshEnvironment
<1> QED
  BY <1>1, <1>2, <1>3, <1>4, <1>5, <1>6 DEF Next

(***************************************************************************)
(* The theorems.                                                           *)
(***************************************************************************)
\* Every variable keeps to its type, in particular what is stored and logged of a connection are
\* statuses and events that it can have.
THEOREM TypeCorrect == Spec => []TypeOK
<1>1. IInv /\ DInv => TypeOK
  BY DEF IInv, Typed, DInv, Clocks, Others, TypeOK, Places, Messages, Futures, LogCounts
<1> QED
  BY <1>1, InitInv, StepInv, InitDated, StepDated, PTL DEF Spec

\* A list shows every reservation that the aggregator reports, none of them as it was before the oldest
\* request came that the list overlapped (_refresh_all_reservations, get_all).
THEOREM ListsAreFresh == Spec => []ListIsFresh
<1>1. DInv => ListIsFresh
  BY DEF DInv, Others, ListIsFresh
<1> QED
  BY <1>1, InitInv, StepInv, InitDated, StepDated, PTL DEF Spec
=============================================================================
