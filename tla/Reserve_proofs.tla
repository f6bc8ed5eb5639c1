---------------------------- MODULE Reserve_proofs ----------------------------
(***************************************************************************)
(* What holds of Reserve for any number of reserve and terminate requests  *)
(* and any faults.  The type, what a refused terminate gets, the promises  *)
(* of the module Promises, what RESERVED means and what terminate spares   *)
(* hold for any patience of the requesters; the two theorems about repeats *)
(* with one globalReservationId are about requesters that wait for each    *)
(* other's reply, and have it as their hypothesis.                         *)
(***************************************************************************)
EXTENDS Reserve, StateMapping_proofs

PCs == {"idle", "finding", "resolving", "refreshed", "posting", "done"}
Codes == {"none", "202", "404", "409", "502", "lost"}
Tasks == RunningTasks \union {"none", "delivering", "done", "killed"}
Futures == Kinds \union {"none", "waiting", "cancelled"}

\* A terminate that has started is about a connection; so is a result that is delivered again.
Aimed ==
    /\ \A t \in Terminates :
          pc[t] # "idle" \/ task[t] # "none" \/ <<"terminate", t>> \in posted \union acked
              => aim[t] \in Reserves
    /\ \A r \in Reserves : task[r] = "redelivering" => told[r] \in Reserves

TInv == TypeOK /\ Aimed

(***************************************************************************)
(* The stored objects.                                                     *)
(***************************************************************************)
LEMMA StoredTyped ==
    ASSUME TypeOK, NEW c \in Reserves
    PROVE  /\ Stored(c) \in Entries
           /\ current[c] \in Makers
           /\ Maker(c) \in Makers
BY DEF TypeOK, Stored, Maker, Makers

LEMMA ErrorsTyped ==
    ASSUME TypeOK, NEW c \in Reserves, NEW errors \in ErrorsSeen(c)
    PROVE  errors \in BOOLEAN
BY DEF TypeOK, ErrorsSeen, AggRecords

LEMMA RefreshedTyped ==
    ASSUME TypeOK, NEW c \in Reserves, NEW snapshot, NEW errors \in BOOLEAN
    PROVE  /\ RefreshedEntry(c, snapshot, errors) \in Entries
           /\ RefreshedEntry(c, snapshot, errors).callbackUrl = Stored(c).callbackUrl
<1> DEFINE states == [lifecycle |-> snapshot.lifecycle, provision |-> "Released",
                      reservation |-> snapshot.reservation, active |-> FALSE]
           status == MapNsiStates(states, errors)
           lastError == ResolveLastError([status |-> status, reason |-> NoError],
                          IF errors THEN "event" ELSE NoError, Stored(c).lastError)
<1>1. status \in Statuses
  BY MappedStatus
<1>2. /\ Stored(c).lastError \in Reasons
      /\ Stored(c).callbackUrl \in Requests \union {NoRequest}
  BY StoredTyped DEF Entries
<1>3. lastError \in Reasons
  <2>1. (IF errors THEN "event" ELSE NoError) \in Reasons /\ NoError \in Reasons
    BY DEF Reasons, NoError
  <2>2. [status |-> status, reason |-> NoError].reason \in Reasons
    BY <2>1
  <2> HIDE DEF status
  <2> QED
    BY <1>2, <2>1, <2>2, ResolvedError
<1>4. RefreshedEntry(c, snapshot, errors) =
        [status |-> status, lastError |-> lastError, callbackUrl |-> Stored(c).callbackUrl]
  BY DEF RefreshedEntry
<1> HIDE DEF status, lastError
<1> QED
  BY <1>1, <1>2, <1>3, <1>4 DEF Entries

LEMMA StoresTyped ==
    ASSUME TypeOK, NEW c \in Reserves, NEW entry \in Entries,
           NEW url \in Requests \union {NoRequest}, Stores(c, entry, url)
    PROVE  /\ objects' \in [Reserves -> [Makers -> Entries]]
           /\ current' \in [Reserves -> Makers]
           /\ inFlight' \subseteq Reserves
<1>1. [entry EXCEPT !.callbackUrl = url] \in Entries
  BY DEF Entries
<1>2. Maker(c) \in Makers
  BY StoredTyped
<1> QED
  BY <1>1, <1>2 DEF Stores, TypeOK

(***************************************************************************)
(* The steps that the actions share.                                       *)
(***************************************************************************)
LEMMA NothingTyped == [c \in Reserves |-> Nothing] \in [Reserves -> AggRecords]
BY DEF Nothing, AggRecords, ReservationStates

LEMMA RepliesTyped ==
    ASSUME TypeOK, NEW r \in Requests, NEW code \in Codes, Replies(r, code)
    PROVE  /\ pc' \in [Requests -> PCs]
           /\ reply' \in [Requests -> Codes]
           /\ view' \in [Requests -> [Reserves -> AggRecords]]
BY NothingTyped DEF TypeOK, Replies, PCs, Codes

LEMMA RegistersTyped ==
    ASSUME TypeOK, NEW call \in Calls, Registers(call)
    PROVE  /\ pending' \subseteq Calls /\ future' \in [Calls -> Futures]
           /\ posted' = posted \union {call} /\ UNCHANGED <<agg, acked, net>>
BY DEF TypeOK, Registers, Futures

LEMMA PostFailedTyped ==
    ASSUME TypeOK, NEW call \in Calls, PostFailed(call)
    PROVE  pending' \subseteq Calls /\ future' \in [Calls -> Futures]
BY DEF TypeOK, PostFailed, Futures, Cancelled

LEMMA EndsTyped ==
    ASSUME TypeOK, NEW r \in Requests, NEW c \in Reserves, NEW status \in Statuses,
           NEW lastError \in Reasons, Ends(r, c, status, lastError)
    PROVE  /\ objects' \in [Reserves -> [Makers -> Entries]]
           /\ reports' \subseteq Reports
           /\ task' = [task EXCEPT ![r] = "delivering"]
           /\ task' \in [Requests -> Tasks]
<1> DEFINE entry == [Stored(c) EXCEPT !.status = status, !.lastError = lastError]
<1>1. entry \in Entries
  BY StoredTyped DEF Entries
<1>2. Reported(r, c, entry) \in Reports
  BY <1>1 DEF Reported, Reports, Entries, HasReported
<1>3. /\ objects' = [objects EXCEPT ![c][current[c]] = entry]
      /\ reports' = reports \union {Reported(r, c, entry)}
      /\ task' = [task EXCEPT ![r] = "delivering"]
  BY DEF Ends
<1> HIDE DEF entry
<1>4. current[c] \in Makers
  BY StoredTyped
<1> QED
  BY <1>1, <1>2, <1>3, <1>4 DEF TypeOK, Tasks

LEMMA CallsOf ==
    /\ \A r \in Reserves : <<"reserve", r>> \in Calls /\ <<"commit", r>> \in Calls
    /\ \A t \in Terminates : <<"terminate", t>> \in Calls
BY DEF Calls

(***************************************************************************)
(* Type correctness.                                                       *)
(***************************************************************************)
LEMMA InitTyped == Init => TInv
<1> SUFFICES ASSUME Init PROVE TInv
  OBVIOUS
<1>1. NoEntry \in Entries
  BY DEF NoEntry, Entries, Reasons, NoError
<1>2. TypeOK
  BY <1>1, NothingTyped DEF Init, TypeOK, Nothing, Makers, AggRecords, ReservationStates
<1>3. Aimed
  BY ReserveAssumption DEF Init, Aimed, Requests
<1> QED
  BY <1>2, <1>3 DEF TInv

LEMMA HandlersTyped ==
    ASSUME TInv, NEW r \in Requests, HandlerStep(r)
    PROVE  TInv'
<1> USE DEF TInv, externalVars, storeVars, handlerVars, futureVars, taskVars
<1>0. TypeOK /\ Aimed
  OBVIOUS
<1>1. CASE CandidatesFound(r)
  BY <1>0, <1>1, NothingTyped DEF CandidatesFound, TypeOK, Aimed, Requests, Reserves, Nothing
<1>2. CASE Unanswered(r)
  <2>1. pc[r] # "idle" /\ \E code \in Codes : GivesUp(r, code) /\ Replies(r, code)
    BY <1>2 DEF Unanswered, FindFails, TerminateSummaryFails, TerminateNotFound, GivesUp, Codes
  <2>2. TypeOK'
    BY <1>0, <2>1, RepliesTyped DEF GivesUp, TypeOK, PCs, Codes
  <2>3. Aimed'
    BY <1>0, <2>1 DEF GivesUp, Replies, TypeOK, Aimed
  <2> QED
    BY <2>2, <2>3
<1>3. ASSUME NEW c \in Reserves, CandidateResolved(r, c) PROVE TInv'
  <2>1. PICK errors \in ErrorsSeen(c) :
            objects' = [objects EXCEPT ![c][Maker(c)] = RefreshedEntry(c, view[r][c], errors)]
    BY <1>3 DEF CandidateResolved
  <2>2. RefreshedEntry(c, view[r][c], errors) \in Entries /\ Maker(c) \in Makers
    BY <1>0, ErrorsTyped, RefreshedTyped, StoredTyped
  <2>3. r \in Reserves
    BY <1>3 DEF CandidateResolved, Reserves
  <2>4. TypeOK'
    BY <1>0, <1>3, <2>1, <2>2, <2>3 DEF CandidateResolved, TypeOK
  <2> QED
    BY <1>0, <1>3, <2>4 DEF CandidateResolved, Aimed
<1>4. ASSUME NEW c \in Reserves, Reuse(r, c) PROVE TInv'
  <2>1. /\ Replies(r, "202") /\ "202" \in Codes
        /\ r \in Reserves
        /\ held[r][c] \in Makers
    BY <1>0, <1>4 DEF Reuse, Codes, AllResolved, TypeOK, Reserves
  <2>2. objects[c][held[r][c]] \in Entries
    BY <1>0, <2>1 DEF TypeOK
  <2>3. objects' \in [Reserves -> [Makers -> Entries]]
    <3>1. [objects[c][held[r][c]] EXCEPT !.callbackUrl = r] \in Entries
      BY <2>2 DEF Entries
    <3>2. objects' = [objects EXCEPT ![c][held[r][c]] =
                        [objects[c][held[r][c]] EXCEPT !.callbackUrl = r]]
      BY <1>4 DEF Reuse, AdoptedUrl
    <3> QED
      BY <1>0, <2>1, <3>1, <3>2 DEF TypeOK
  <2>4. task' \in [Requests -> Tasks]
    BY <1>0, <1>4 DEF Reuse, TypeOK, Tasks, RunningTasks
  <2>5. TypeOK'
    BY <1>0, <1>4, <2>1, <2>3, <2>4, RepliesTyped DEF Reuse, TypeOK, PCs, Codes, Tasks
  <2>6. Aimed'
    BY <1>0, <1>4, <2>1, ReserveAssumption DEF Reuse, Replies, TypeOK, Aimed, Requests
  <2> QED
    BY <2>5, <2>6
<1>5. CASE ReserveAnew(r)
  <2>1. Registers(<<"reserve", r>>) /\ <<"reserve", r>> \in Calls /\ r \in Reserves
    BY <1>5, CallsOf DEF ReserveAnew, AllResolved, Reserves
  <2>2. TypeOK'
    BY <1>0, <1>5, <2>1, RegistersTyped DEF ReserveAnew, TypeOK, Futures
  <2>3. Aimed'
    BY <1>0, <1>5, <2>1, RegistersTyped, ReserveAssumption DEF ReserveAnew, TypeOK, Aimed, Requests
  <2> QED
    BY <2>2, <2>3
<1>6. CASE ReserveAcked(r)
  <2>1. Replies(r, "202") /\ "202" \in Codes /\ r \in Reserves /\ "reserve" \in Makers
    BY <1>6 DEF ReserveAcked, Codes, Makers
  <2>2. NewEntry(r) \in Entries
    BY DEF NewEntry, Entries, Statuses, Reasons, NoError
  <2>3. /\ objects' \in [Reserves -> [Makers -> Entries]]
        /\ current' \in [Reserves -> Makers]
        /\ task' \in [Requests -> Tasks]
    BY <1>0, <1>6, <2>1, <2>2 DEF ReserveAcked, TypeOK, Tasks, RunningTasks
  <2>4. TypeOK'
    BY <1>0, <1>6, <2>1, <2>3, RepliesTyped DEF ReserveAcked, TypeOK, PCs, Codes, Tasks
  <2>5. Aimed'
    BY <1>0, <1>6, <2>1, ReserveAssumption DEF ReserveAcked, Replies, TypeOK, Aimed, Requests
  <2> QED
    BY <2>4, <2>5
<1>7. CASE TerminateSummary(r)
  <2>1. r \in Terminates /\ aim[r] \in Reserves
    BY <1>0, <1>7 DEF TerminateSummary, Aimed
  <2>2. view' \in [Requests -> [Reserves -> AggRecords]]
    BY <1>0, <1>7, <2>1 DEF TerminateSummary, TypeOK
  <2>3. TypeOK'
    BY <1>0, <1>7, <2>2 DEF TerminateSummary, TypeOK
  <2>4. Aimed'
    BY <1>0, <1>7, <2>1 DEF TerminateSummary, TypeOK, Aimed
  <2> QED
    BY <2>3, <2>4
<1>8. CASE TerminateDispatch(r)
  <2>1. r \in Terminates /\ pc[r] = "refreshed" /\ aim[r] \in Reserves
    BY <1>0, <1>8 DEF TerminateDispatch, Aimed
  <2>2. PICK errors \in ErrorsSeen(aim[r]) :
            LET entry == RefreshedEntry(aim[r], view[r][aim[r]], errors)
            IN  TerminatedAlready(r, entry) \/ TerminateProceeds(r, entry) \/ TerminateRefused(r, entry)
    BY <1>8 DEF TerminateDispatch
  <2> DEFINE entry == RefreshedEntry(aim[r], view[r][aim[r]], errors)
  <2>3. entry \in Entries /\ entry.callbackUrl \in Requests \union {NoRequest}
    BY <1>0, <2>1, ErrorsTyped, RefreshedTyped DEF Entries
  <2>4. TerminatedAlready(r, entry) \/ TerminateProceeds(r, entry) \/ TerminateRefused(r, entry)
    BY <2>2
  <2> HIDE DEF entry
  <2>5. CASE TerminatedAlready(r, entry)
    <3>1. Stores(aim[r], entry, r) /\ Replies(r, "202") /\ "202" \in Codes
      BY <2>5 DEF TerminatedAlready, Codes
    <3>2. task' \in [Requests -> Tasks]
      BY <1>0, <2>5 DEF TerminatedAlready, TypeOK, Tasks, RunningTasks
    <3>3. TypeOK'
      BY <1>0, <2>1, <2>3, <2>5, <3>1, <3>2, StoresTyped, RepliesTyped
      DEF TerminatedAlready, TypeOK, PCs, Codes, Tasks
    <3>4. Aimed'
      BY <1>0, <2>1, <2>5, <3>1, ReserveAssumption
      DEF TerminatedAlready, Replies, TypeOK, Aimed, Requests
    <3> QED
      BY <3>3, <3>4
  <2>6. CASE TerminateProceeds(r, entry)
    <3>1. Stores(aim[r], entry, r) /\ Registers(<<"terminate", r>>) /\ <<"terminate", r>> \in Calls
      BY <2>1, <2>6, CallsOf DEF TerminateProceeds
    <3>2. TypeOK'
      BY <1>0, <2>1, <2>3, <2>6, <3>1, StoresTyped, RegistersTyped
      DEF TerminateProceeds, TypeOK, Futures
    <3>3. Aimed'
      BY <1>0, <2>1, <2>6, <3>1, RegistersTyped DEF TerminateProceeds, TypeOK, Aimed
    <3> QED
      BY <3>2, <3>3
  <2>7. CASE TerminateRefused(r, entry)
    <3>1. /\ Stores(aim[r], entry, entry.callbackUrl)
          /\ Replies(r, "409") /\ "409" \in Codes
      BY <2>7 DEF TerminateRefused, UrlWhenRefused, Codes
    <3>2. TypeOK'
      BY <1>0, <2>1, <2>3, <2>7, <3>1, StoresTyped, RepliesTyped
      DEF TerminateRefused, TypeOK, PCs, Codes
    <3>3. Aimed'
      BY <1>0, <2>1, <2>7, <3>1 DEF TerminateRefused, Replies, TypeOK, Aimed
    <3> QED
      BY <3>2, <3>3
  <2> QED
    BY <2>4, <2>5, <2>6, <2>7
<1>9. CASE TerminateAcked(r)
  <2>1. /\ Replies(r, "202") /\ "202" \in Codes
        /\ r \in Terminates /\ aim[r] \in Reserves
    BY <1>0, <1>9 DEF TerminateAcked, Codes, Aimed
  <2>2. task' \in [Requests -> Tasks]
    BY <1>0, <1>9 DEF TerminateAcked, TypeOK, Tasks, RunningTasks
  <2>3. TypeOK'
    BY <1>0, <1>9, <2>1, <2>2, RepliesTyped DEF TerminateAcked, TypeOK, PCs, Codes, Tasks
  <2>4. Aimed'
    BY <1>0, <1>9, <2>1, ReserveAssumption DEF TerminateAcked, Replies, TypeOK, Aimed, Requests
  <2> QED
    BY <2>3, <2>4
<1>10. CASE HandlerPostFails(r)
  <2> DEFINE call == IF r \in Reserves THEN <<"reserve", r>> ELSE <<"terminate", r>>
  <2>1. call \in Calls /\ PostFailed(call)
    BY <1>10, CallsOf DEF HandlerPostFails, Requests
  <2>2. Replies(r, "502") /\ "502" \in Codes /\ pc[r] # "idle"
    BY <1>10 DEF HandlerPostFails, Codes
  <2> HIDE DEF call
  <2>3. TypeOK'
    BY <1>0, <1>10, <2>1, <2>2, PostFailedTyped, RepliesTyped
    DEF HandlerPostFails, TypeOK, PCs, Codes, Futures
  <2>4. Aimed'
    BY <1>0, <1>10, <2>2 DEF HandlerPostFails, Replies, TypeOK, Aimed
  <2> QED
    BY <2>3, <2>4
<1> QED
  BY <1>1, <1>2, <1>3, <1>4, <1>5, <1>6, <1>7, <1>8, <1>9, <1>10 DEF HandlerStep

\* Whatever else a task does when it fails: its future, and nothing of the aggregator's.
LEMMA FailsTyped ==
    ASSUME TInv, NEW r \in Reserves, Fails(r), UNCHANGED externalVars,
           pending' \subseteq Calls, future' \in [Calls -> Futures]
    PROVE  TInv'
<1>1. TypeOK /\ Aimed /\ r \in Requests
  BY DEF TInv, Requests
<1>2. /\ Ends(r, r, "FAILED", "operation")
      /\ "FAILED" \in Statuses /\ "operation" \in Reasons
  BY DEF Fails, Statuses, Reasons
<1>3. /\ objects' \in [Reserves -> [Makers -> Entries]]
      /\ reports' \subseteq Reports
      /\ task' = [task EXCEPT ![r] = "delivering"]
      /\ task' \in [Requests -> Tasks]
  BY <1>1, <1>2, EndsTyped
<1>4. TypeOK'
  BY <1>1, <1>3 DEF Fails, TypeOK, handlerVars, externalVars, Tasks, Futures
<1>5. Aimed'
  BY <1>1, <1>3, ReserveAssumption DEF Fails, TypeOK, Aimed, handlerVars, externalVars
<1> QED
  BY <1>4, <1>5 DEF TInv

LEMMA TasksTyped ==
    ASSUME TInv, NEW r \in Requests, TaskStep(r)
    PROVE  TInv'
<1>0. TypeOK /\ Aimed
  BY DEF TInv
<1> USE DEF externalVars, storeVars, handlerVars, futureVars, taskVars
<1>1. CASE r \in Reserves /\ ReserveConfirmed(r)
  <2>1. Registers(<<"commit", r>>) /\ <<"commit", r>> \in Calls
    BY <1>1, CallsOf DEF ReserveConfirmed
  <2>2. task' \in [Requests -> Tasks]
    BY <1>0, <1>1 DEF ReserveConfirmed, TypeOK, Tasks, RunningTasks
  <2>3. TypeOK'
    BY <1>0, <1>1, <2>1, <2>2, RegistersTyped DEF ReserveConfirmed, TypeOK, Futures, Tasks
  <2>4. Aimed'
    BY <1>0, <1>1, <2>1, RegistersTyped, ReserveAssumption DEF ReserveConfirmed, TypeOK, Aimed
  <2> QED
    BY <2>3, <2>4 DEF TInv
<1>2. CASE r \in Reserves /\ ReserveFailed(r)
  BY <1>0, <1>2, FailsTyped DEF ReserveFailed, TypeOK, Futures
<1>3. ASSUME r \in Reserves, NEW phase, NEW call \in Calls, WaitTimeout(r, phase, call)
      PROVE  TInv'
  <2>1. future' \in [Calls -> Futures] /\ pending' \subseteq Calls
    BY <1>0, <1>3 DEF WaitTimeout, Cancelled, TypeOK, Futures
  <2> QED
    BY <1>3, <2>1, FailsTyped DEF WaitTimeout
<1>4. CASE r \in Reserves /\ (ReserveTimesOut(r) \/ CommitTimesOut(r))
  BY <1>3, <1>4, CallsOf DEF ReserveTimesOut, CommitTimesOut
<1>5. CASE r \in Reserves /\ CommitAcked(r)
  <2>1. task' \in [Requests -> Tasks]
    BY <1>0, <1>5 DEF CommitAcked, TypeOK, Tasks, RunningTasks
  <2>2. TypeOK'
    BY <1>0, <1>5, <2>1 DEF CommitAcked, TypeOK, Tasks
  <2>3. Aimed'
    BY <1>0, <1>5, ReserveAssumption DEF CommitAcked, TypeOK, Aimed
  <2> QED
    BY <2>2, <2>3 DEF TInv
<1>6. CASE r \in Reserves /\ CommitPostFails(r)
  BY <1>0, <1>6, CallsOf, PostFailedTyped, FailsTyped DEF CommitPostFails
<1>7. CASE r \in Reserves /\ Committed(r)
  <2>1. /\ Ends(r, r, "RESERVED", NoError)
        /\ "RESERVED" \in Statuses /\ NoError \in Reasons
    BY <1>7 DEF Committed, Statuses, Reasons
  <2>2. /\ objects' \in [Reserves -> [Makers -> Entries]]
        /\ reports' \subseteq Reports
        /\ task' = [task EXCEPT ![r] = "delivering"]
        /\ task' \in [Requests -> Tasks]
    BY <1>0, <1>7, <2>1, EndsTyped
  <2>3. TypeOK'
    BY <1>0, <1>7, <2>2 DEF Committed, TypeOK, Tasks
  <2>4. Aimed'
    BY <1>0, <1>7, <2>2, ReserveAssumption DEF Committed, TypeOK, Aimed
  <2> QED
    BY <2>3, <2>4 DEF TInv
<1>8. CASE r \in Reserves /\ CommitFailed(r)
  BY <1>0, <1>8, FailsTyped DEF CommitFailed, TypeOK, Futures
<1>9. CASE r \in Terminates /\ TerminateEnds(r)
  <2>1. aim[r] \in Reserves
    BY <1>0, <1>9 DEF TerminateEnds, Aimed
  <2>2. /\ Ends(r, aim[r], "TERMINATED", Stored(aim[r]).lastError)
        /\ "TERMINATED" \in Statuses /\ Stored(aim[r]).lastError \in Reasons
    BY <1>0, <1>9, <2>1, StoredTyped DEF TerminateEnds, Statuses, Entries
  <2>3. /\ objects' \in [Reserves -> [Makers -> Entries]]
        /\ reports' \subseteq Reports
        /\ task' = [task EXCEPT ![r] = "delivering"]
        /\ task' \in [Requests -> Tasks]
    BY <1>0, <2>1, <2>2, EndsTyped
  <2>4. future' \in [Calls -> Futures]
    BY <1>0, <1>9, CallsOf DEF TerminateEnds, Cancelled, TypeOK, Futures
  <2>5. TypeOK'
    BY <1>0, <1>9, <2>3, <2>4 DEF TerminateEnds, TypeOK, Tasks, Futures
  <2>6. Aimed'
    BY <1>0, <1>9, <2>1, <2>3, ReserveAssumption DEF TerminateEnds, TypeOK, Aimed
  <2> QED
    BY <2>5, <2>6 DEF TInv
<1>10. CASE Finished(r)
  <2>1. task' \in [Requests -> Tasks]
    BY <1>0, <1>10 DEF Finished, TypeOK, Tasks
  <2>2. TypeOK'
    BY <1>0, <1>10, <2>1 DEF Finished, TypeOK, Tasks
  <2>3. Aimed'
    BY <1>0, <1>10 DEF Finished, TypeOK, Aimed
  <2> QED
    BY <2>2, <2>3 DEF TInv
<1>11. CASE Redelivers(r)
  <2> DEFINE c == IF r \in Reserves THEN told[r] ELSE aim[r]
             entry == IF r \in Reserves THEN objects[c][held[r][c]] ELSE Stored(c)
  <2>1. c \in Reserves
    BY <1>0, <1>11 DEF Redelivers, Aimed, Requests
  <2>2. entry \in Entries
    BY <1>0, <2>1, StoredTyped DEF TypeOK
  <2>3. reports' = reports \union {[Reported(r, c, entry) EXCEPT !.to = r]}
    BY <1>11 DEF Redelivers
  <2> HIDE DEF c, entry
  <2>4. [Reported(r, c, entry) EXCEPT !.to = r] \in Reports
    BY <2>1, <2>2 DEF Reported, Reports, Entries, HasReported
  <2>5. task' \in [Requests -> Tasks]
    BY <1>0, <1>11 DEF Redelivers, TypeOK, Tasks
  <2>6. TypeOK'
    BY <1>0, <1>11, <2>3, <2>4, <2>5 DEF Redelivers, TypeOK, Tasks
  <2>7. Aimed'
    BY <1>0, <1>11 DEF Redelivers, TypeOK, Aimed
  <2> QED
    BY <2>6, <2>7 DEF TInv
<1> QED
  BY <1>1, <1>2, <1>4, <1>5, <1>6, <1>7, <1>8, <1>9, <1>10, <1>11 DEF TaskStep

LEMMA RequestersTyped ==
    ASSUME TInv, NEW r \in Requests, RequesterStep(r)
    PROVE  TInv'
<1>0. TypeOK /\ Aimed
  BY DEF TInv
<1> USE DEF externalVars, storeVars, handlerVars, futureVars, taskVars
<1>1. CASE StartKeyed(r)
  <2>1. TypeOK'
    BY <1>0, <1>1 DEF StartKeyed, TypeOK
  <2>2. Aimed'
    BY <1>0, <1>1, ReserveAssumption DEF StartKeyed, TypeOK, Aimed, Reserves
  <2> QED
    BY <2>1, <2>2 DEF TInv
<1>2. CASE StartUnkeyed(r)
  <2>1. Registers(<<"reserve", r>>) /\ <<"reserve", r>> \in Calls /\ r \in Reserves
    BY <1>2, CallsOf DEF StartUnkeyed, Reserves
  <2>2. TypeOK'
    BY <1>0, <1>2, <2>1, RegistersTyped DEF StartUnkeyed, TypeOK, Futures
  <2>3. Aimed'
    BY <1>0, <1>2, <2>1, RegistersTyped, ReserveAssumption DEF StartUnkeyed, TypeOK, Aimed
  <2> QED
    BY <2>2, <2>3 DEF TInv
<1>3. ASSUME NEW c \in Reserves, StartTerminate(r, c) PROVE TInv'
  <2>1. TypeOK'
    BY <1>0, <1>3 DEF StartTerminate, TypeOK
  <2>2. Aimed'
    BY <1>0, <1>3 DEF StartTerminate, TypeOK, Aimed
  <2> QED
    BY <2>1, <2>2 DEF TInv
<1> QED
  BY <1>1, <1>2, <1>3 DEF RequesterStep

LEMMA RecordsTyped ==
    ASSUME NEW record \in AggRecords
    PROVE  /\ [record EXCEPT !.lifecycle = "Terminating"] \in AggRecords
           /\ [record EXCEPT !.lifecycle = "Terminated"] \in AggRecords
           /\ [record EXCEPT !.errors = TRUE] \in AggRecords
BY DEF AggRecords

LEMMA EnvironmentTyped == TInv /\ Environment => TInv'
<1> SUFFICES ASSUME TInv, Environment PROVE TInv'
  OBVIOUS
<1>0. TypeOK /\ Aimed
  BY DEF TInv
<1> USE DEF storeVars, handlerVars, futureVars, taskVars
<1>1. SUFFICES agg' \in [Reserves -> AggRecords] /\ net' \subseteq Calls \X Kinds
               /\ posted' \subseteq Calls /\ acked' \subseteq Calls
               /\ posted' \union acked' \subseteq posted \union acked
  <2>1. TypeOK'
    BY <1>0, <1>1 DEF Environment, TypeOK
  <2>2. Aimed'
    BY <1>0, <1>1 DEF Environment, Aimed
  <2> QED
    BY <2>1, <2>2 DEF TInv
<1>2. ASSUME NEW c \in Reserves, NEW from, NEW to \in ReservationStates, Moves(c, from, to)
      PROVE  agg' \in [Reserves -> AggRecords]
  BY <1>0, <1>2 DEF Moves, TypeOK, AggRecords
<1>3. ASSUME NEW call \in posted, Accepts(call)
      PROVE  /\ agg' \in [Reserves -> AggRecords]
             /\ net' = net /\ posted' = posted \ {call} /\ acked' = acked \union {call}
  <2>1. call \in Calls
    BY <1>0 DEF TypeOK
  <2>2. CASE call[1] = "reserve"
    <3>1. call[2] \in Reserves
      BY <2>1, <2>2 DEF Calls
    <3>2. [lifecycle |-> "Created", reservation |-> "ReserveChecking", errors |-> FALSE] \in AggRecords
      BY DEF AggRecords, ReservationStates
    <3> QED
      BY <1>0, <1>3, <2>2, <3>1, <3>2 DEF Accepts, TypeOK
  <2>3. CASE call[1] = "commit"
    <3>1. call[2] \in Reserves /\ Moves(call[2], "ReserveHeld", "ReserveCommitting")
      BY <1>3, <2>1, <2>3 DEF Accepts, Calls
    <3> QED
      BY <1>2, <1>3, <3>1 DEF Accepts, ReservationStates
  <2>4. CASE call[1] = "terminate"
    <3>1. call[2] \in Terminates /\ call = <<"terminate", call[2]>>
      BY <2>1, <2>4 DEF Calls
    <3>2. aim[call[2]] \in Reserves
      BY <1>0, <3>1 DEF Aimed
    <3>3. agg' = [agg EXCEPT ![aim[call[2]]] = [@ EXCEPT !.lifecycle = "Terminating"]]
      BY <1>3, <2>4 DEF Accepts
    <3>4. [agg[aim[call[2]]] EXCEPT !.lifecycle = "Terminating"] \in AggRecords
      BY <1>0, <3>2, RecordsTyped DEF TypeOK
    <3> QED
      BY <1>0, <1>3, <3>2, <3>3, <3>4 DEF Accepts, TypeOK
  <2> QED
    BY <1>3, <2>1, <2>2, <2>3, <2>4 DEF Calls
<1>4. CASE \E call \in posted : Accepts(call) \/ Refuses(call)
  BY <1>0, <1>3, <1>4 DEF Refuses, TypeOK
<1>5. ASSUME NEW call \in Calls, NEW kind \in Kinds, Answers(call, kind)
      PROVE  net' \subseteq Calls \X Kinds /\ posted' = posted /\ acked' = acked
  BY <1>0, <1>5 DEF Answers, TypeOK
<1>6. ASSUME NEW c \in Reserves, Progresses(c)
      PROVE  agg' \in [Reserves -> AggRecords] /\ net' \subseteq Calls \X Kinds
             /\ posted' = posted /\ acked' = acked
  <2>1. PICK from, to \in ReservationStates, call \in {<<"reserve", c>>, <<"commit", c>>},
             kind \in Kinds : Moves(c, from, to) /\ Answers(call, kind)
    BY <1>6 DEF Progresses, ReservationStates, Kinds
  <2>2. call \in Calls
    BY CallsOf
  <2> QED
    BY <1>2, <1>5, <2>1, <2>2
<1>7. ASSUME NEW c \in Reserves, ErrorEvent(c)
      PROVE  agg' \in [Reserves -> AggRecords] /\ UNCHANGED <<posted, acked, net>>
  <2>1. agg' = [agg EXCEPT ![c] = [@ EXCEPT !.errors = TRUE]]
    BY <1>7 DEF ErrorEvent
  <2>2. [agg[c] EXCEPT !.errors = TRUE] \in AggRecords
    BY <1>0, RecordsTyped DEF TypeOK
  <2> QED
    BY <1>0, <1>7, <2>1, <2>2 DEF ErrorEvent, TypeOK
<1>8. ASSUME NEW t \in Terminates, Terminated(t)
      PROVE  agg' \in [Reserves -> AggRecords] /\ net' \subseteq Calls \X Kinds
             /\ posted' = posted /\ acked' = acked
  <2>1. aim[t] \in Reserves /\ <<"terminate", t>> \in Calls /\ "confirmed" \in Kinds
    BY <1>0, <1>8, CallsOf DEF Terminated, Aimed, Kinds
  <2>2. agg' = [agg EXCEPT ![aim[t]] = [@ EXCEPT !.lifecycle = "Terminated"]]
    BY <1>8 DEF Terminated
  <2>3. [agg[aim[t]] EXCEPT !.lifecycle = "Terminated"] \in AggRecords
    BY <1>0, <2>1, RecordsTyped DEF TypeOK
  <2> QED
    BY <1>0, <1>5, <1>8, <2>1, <2>2, <2>3 DEF Terminated, TypeOK
<1> QED
  BY <1>0, <1>4, <1>6, <1>7, <1>8 DEF Environment, TypeOK

LEMMA DeliveryTyped ==
    ASSUME TInv, NEW call \in Calls, NEW kind \in Kinds, DeliverAnswer(call, kind)
    PROVE  TInv'
<1>0. TypeOK /\ Aimed
  BY DEF TInv
<1> USE DEF externalVars, storeVars, handlerVars, taskVars
<1>1. TypeOK'
  BY <1>0 DEF DeliverAnswer, TypeOK
<1>2. Aimed'
  BY <1>0 DEF DeliverAnswer, Aimed
<1> QED
  BY <1>1, <1>2 DEF TInv

LEMMA CrashTyped == TInv /\ Crash => TInv'
<1> SUFFICES ASSUME TInv, Crash PROVE TInv'
  OBVIOUS
<1>0. TypeOK /\ Aimed
  BY DEF TInv
<1> USE DEF externalVars
<1>1. NoEntry \in Entries /\ "none" \in Makers
  BY DEF NoEntry, Entries, Reasons, NoError, Makers
<1>2. task' \in [Requests -> Tasks]
  BY <1>0 DEF Crash, TypeOK, Tasks
<1>3. TypeOK'
  BY <1>0, <1>1, <1>2, NothingTyped DEF Crash, TypeOK, Tasks
<1>4. Aimed'
  BY <1>0 DEF Crash, TypeOK, Aimed, Requests, RunningTasks
<1> QED
  BY <1>3, <1>4 DEF TInv

LEMMA StepTyped == TInv /\ [Next]_vars => TInv'
<1> SUFFICES ASSUME TInv, [Next]_vars PROVE TInv'
  OBVIOUS
<1>1. CASE Next
  BY <1>1, HandlersTyped, TasksTyped, RequestersTyped, EnvironmentTyped, DeliveryTyped, CrashTyped
  DEF Next
<1>2. CASE UNCHANGED vars
  BY <1>2 DEF TInv, TypeOK, Aimed, vars, externalVars, storeVars, handlerVars, futureVars, taskVars
<1> QED
  BY <1>1, <1>2

LEMMA AlwaysTyped == Spec => []TInv
BY InitTyped, StepTyped, PTL DEF Spec

\* Every variable keeps its type for all sets of requests: only statuses the API knows are stored
\* and reported, and every terminate, report and re-delivery is about a connection that exists.
THEOREM TypeCorrect == Spec => []TypeOK
<1>1. TInv => TypeOK
  BY DEF TInv
<1> QED
  BY <1>1, AlwaysTyped, PTL

(***************************************************************************)
(* A terminate that is refused gets nothing.  A callbackURL of a terminate *)
(* is found in the store, in a re-delivery or in a report only if the      *)
(* terminate got past its dispatch, which a refused one never does.        *)
(***************************************************************************)
Kept(t) == pc[t] \in {"posting", "done"} /\ reply[t] \notin {"404", "409"}
Rightful(url) == url \in Terminates => Kept(url)

Owned ==
    /\ \A c \in Reserves, m \in Makers : Rightful(objects[c][m].callbackUrl)
    /\ \A t \in Terminates : task[t] = "redelivering" => Kept(t)
    /\ \A rep \in reports : Rightful(rep.to)
    /\ \A t \in Terminates : reply[t] \in {"404", "409"} => pc[t] = "done"

OInv == TInv /\ Owned

\* Nothing turns the reply of a terminate past its dispatch into 404 or 409, and a refusal is final.
LEMMA KeptStays ==
    ASSUME TInv, Owned, Next, NEW t \in Terminates
    PROVE  /\ Kept(t) => Kept(t)'
           /\ (reply[t] \in {"404", "409"} => pc[t] = "done")'
<1> DEFINE Stays == /\ Kept(t) => Kept(t)'
                    /\ (reply[t] \in {"404", "409"} => pc[t] = "done")'
<1>0. TypeOK /\ t \in Requests /\ t \notin Reserves /\ (reply[t] \in {"404", "409"} => pc[t] = "done")
  BY ReserveAssumption DEF TInv, Owned, Requests
<1> USE DEF Kept, handlerVars
<1>1. CASE UNCHANGED <<pc, reply>>
  BY <1>0, <1>1
<1>2. ASSUME NEW r \in Requests, HandlerStep(r) PROVE  Stays
  <2>1. ASSUME NEW code \in Codes, Replies(r, code), code \notin {"404", "409"} \/ pc[r] \in {"finding", "refreshed"}
        PROVE  Stays
    BY <1>0, <2>1 DEF Replies, TypeOK
  <2>2. CASE CandidatesFound(r) \/ ReserveAnew(r)
    BY <1>0, <2>2 DEF CandidatesFound, ReserveAnew, AllResolved, Reserves, TypeOK
  <2>3. CASE TerminateSummary(r)
    BY <1>0, <2>3 DEF TerminateSummary, TypeOK
  <2>4. CASE Unanswered(r) \/ HandlerPostFails(r)
    BY <2>1, <2>4 DEF Unanswered, FindFails, TerminateSummaryFails, TerminateNotFound, GivesUp,
       HandlerPostFails, Codes
  <2>5. CASE ReserveAcked(r) \/ TerminateAcked(r) \/ \E c \in Reserves : Reuse(r, c)
    BY <2>1, <2>5 DEF ReserveAcked, TerminateAcked, Reuse, Codes
  <2>6. CASE \E c \in Reserves : CandidateResolved(r, c)
    BY <1>1, <2>6 DEF CandidateResolved
  <2>7. CASE TerminateDispatch(r)
    <3>1. pc[r] = "refreshed" /\ \E entry : \/ TerminatedAlready(r, entry)
                                           \/ TerminateProceeds(r, entry)
                                           \/ TerminateRefused(r, entry)
      BY <2>7 DEF TerminateDispatch
    <3>2. CASE \E entry : TerminatedAlready(r, entry) \/ TerminateRefused(r, entry)
      BY <2>1, <3>1, <3>2 DEF TerminatedAlready, TerminateRefused, Codes
    <3>3. CASE \E entry : TerminateProceeds(r, entry)
      BY <1>0, <3>1, <3>3 DEF TerminateProceeds, TypeOK
    <3> QED
      BY <3>1, <3>2, <3>3
  <2> QED
    BY <1>2, <2>2, <2>3, <2>4, <2>5, <2>6, <2>7 DEF HandlerStep
<1>3. ASSUME NEW r \in Requests, TaskStep(r) PROVE UNCHANGED <<pc, reply>>
  BY <1>3 DEF TaskStep, ReserveConfirmed, ReserveFailed, ReserveTimesOut, CommitAcked, CommitPostFails,
      Committed, CommitFailed, CommitTimesOut, WaitTimeout, Fails, TerminateEnds, Finished, Redelivers
<1>4. ASSUME NEW r \in Requests, RequesterStep(r) PROVE  Stays
  BY <1>0, <1>4 DEF RequesterStep, StartKeyed, StartUnkeyed, StartTerminate, TypeOK
<1>5. ASSUME NEW call, NEW kind, DeliverAnswer(call, kind) PROVE UNCHANGED <<pc, reply>>
  BY <1>5 DEF DeliverAnswer
<1>6. CASE Environment
  BY <1>1, <1>6 DEF Environment
<1>7. CASE Crash
  BY <1>0, <1>7 DEF Crash, TypeOK
<1> QED
  BY <1>1, <1>2, <1>3, <1>4, <1>5, <1>6, <1>7 DEF Next

\* What a step must do to the addresses for Owned to stay.
LEMMA OwnedStays ==
    ASSUME TInv, Owned, Next,
           \A c \in Reserves, m \in Makers : Rightful(objects[c][m].callbackUrl)',
           \A t \in Terminates : task'[t] = "redelivering" => task[t] = "redelivering" \/ Kept(t)',
           \A rep \in reports' \ reports : Rightful(rep.to)'
    PROVE  Owned'
<1>1. \A t \in Terminates : Kept(t) => Kept(t)'
  BY KeptStays
<1>2. \A rep \in reports' : Rightful(rep.to)'
  BY <1>1 DEF Owned, Rightful
<1>3. \A t \in Terminates : task'[t] = "redelivering" => Kept(t)'
  BY <1>1 DEF Owned
<1>4. \A t \in Terminates : (reply[t] \in {"404", "409"} => pc[t] = "done")'
  BY KeptStays
<1> QED
  BY <1>2, <1>3, <1>4 DEF Owned

\* Most steps leave the store, the reports and the re-deliveries of terminates alone.
LEMMA OwnedUntouched ==
    ASSUME TInv, Owned, Next, UNCHANGED <<objects, reports>>,
           \A t \in Terminates : task'[t] = "redelivering" => task[t] = "redelivering"
    PROVE  Owned'
<1>1. \A t \in Terminates : Kept(t) => Kept(t)'
  BY KeptStays
<1>2. \A c \in Reserves, m \in Makers : Rightful(objects[c][m].callbackUrl)'
  BY <1>1 DEF Owned, Rightful
<1> QED
  BY <1>2, OwnedStays

LEMMA OwnedEnds ==
    ASSUME TInv, Owned, Next, NEW r \in Requests, NEW c \in Reserves, NEW status, NEW lastError,
           Ends(r, c, status, lastError)
    PROVE  Owned'
<1>0. TypeOK
  BY DEF TInv
<1>1. \A t \in Terminates : Kept(t) => Kept(t)'
  BY KeptStays
<1> DEFINE entry == [Stored(c) EXCEPT !.status = status, !.lastError = lastError]
<1>2. /\ current[c] \in Makers /\ Stored(c) \in Entries /\ Stored(c) = objects[c][current[c]]
      /\ entry.callbackUrl = Stored(c).callbackUrl
  BY <1>0, StoredTyped DEF Entries, Stored
<1>3. /\ objects' = [objects EXCEPT ![c][current[c]] = entry]
      /\ reports' = reports \union {Reported(r, c, entry)}
      /\ task' = [task EXCEPT ![r] = "delivering"]
  BY DEF Ends
<1> HIDE DEF entry
<1>4. \A d \in Reserves, m \in Makers : objects'[d][m].callbackUrl = objects[d][m].callbackUrl
  BY <1>0, <1>2, <1>3 DEF TypeOK
<1>5. Rightful(objects[c][current[c]].callbackUrl) /\ Reported(r, c, entry).to = entry.callbackUrl
  BY <1>2 DEF Owned, Reported
<1>6. \A d \in Reserves, m \in Makers : Rightful(objects[d][m].callbackUrl)'
  BY <1>1, <1>4 DEF Owned, Rightful
<1>7. \A rep \in reports' \ reports : Rightful(rep.to)'
  BY <1>1, <1>2, <1>3, <1>5 DEF Rightful
<1>8. \A t \in Terminates : task'[t] = "redelivering" => task[t] = "redelivering"
  BY <1>0, <1>3 DEF TypeOK
<1> QED
  BY <1>6, <1>7, <1>8, OwnedStays

\* A refresh keeps the address of the object; a request that goes on puts its own there.
LEMMA OwnedStores ==
    ASSUME TInv, Owned, Next, NEW c \in Reserves, NEW m \in Makers, NEW entry \in Entries,
           objects' = [objects EXCEPT ![c][m] = entry], UNCHANGED reports,
           Rightful(entry.callbackUrl)',
           \A t \in Terminates : task'[t] = "redelivering" => task[t] = "redelivering" \/ Kept(t)'
    PROVE  Owned'
<1>0. TypeOK
  BY DEF TInv
<1>1. \A t \in Terminates : Kept(t) => Kept(t)'
  BY KeptStays
<1>2. \A d \in Reserves, n \in Makers :
          objects'[d][n] = entry \/ objects'[d][n] = objects[d][n]
  BY <1>0 DEF TypeOK
<1>3. \A d \in Reserves, n \in Makers : Rightful(objects[d][n].callbackUrl)'
  BY <1>1, <1>2 DEF Owned, Rightful
<1> QED
  BY <1>3, OwnedStays

LEMMA Readdressed ==
    ASSUME NEW e \in Entries, NEW r \in Requests
    PROVE  /\ [e EXCEPT !.callbackUrl = r] \in Entries
           /\ [e EXCEPT !.callbackUrl = r].callbackUrl = r
BY DEF Entries

LEMMA HandlersOwned ==
    ASSUME TInv, Owned, Next, NEW r \in Requests, HandlerStep(r)
    PROVE  Owned'
<1>0. TypeOK /\ Aimed
  BY DEF TInv
<1>1. \A t \in Terminates : Kept(t) => Kept(t)'
  BY KeptStays
<1> USE DEF storeVars, taskVars
<1>2. CASE CandidatesFound(r) \/ Unanswered(r) \/ ReserveAnew(r) \/ TerminateSummary(r)
             \/ HandlerPostFails(r)
  BY <1>2, OwnedUntouched DEF CandidatesFound, Unanswered, FindFails, TerminateSummaryFails,
     TerminateNotFound, GivesUp, ReserveAnew, TerminateSummary, HandlerPostFails
<1>3. ASSUME NEW c \in Reserves, CandidateResolved(r, c) PROVE Owned'
  <2>1. PICK errors \in ErrorsSeen(c) :
            objects' = [objects EXCEPT ![c][Maker(c)] = RefreshedEntry(c, view[r][c], errors)]
    BY <1>3 DEF CandidateResolved
  <2>2. PICK entry \in Entries : /\ entry = RefreshedEntry(c, view[r][c], errors)
                                 /\ entry.callbackUrl = Stored(c).callbackUrl
    BY <1>0, ErrorsTyped, RefreshedTyped
  <2>3. PICK m \in Makers : m = Maker(c)
    BY <1>0, StoredTyped
  <2>4. Rightful(entry.callbackUrl)'
    BY <1>0, <1>1, <2>2, StoredTyped DEF Stored, Owned, Rightful
  <2> QED
    BY <1>3, <2>1, <2>2, <2>3, <2>4, OwnedStores DEF CandidateResolved
<1>4. ASSUME NEW c \in Reserves, Reuse(r, c) PROVE Owned'
  <2>1. r \in Reserves /\ held[r][c] \in Makers
    BY <1>0, <1>4 DEF Reuse, AllResolved, Reserves, TypeOK
  <2>2. PICK m \in Makers : m = held[r][c]
    BY <2>1
  <2>3. PICK entry \in Entries : /\ entry = [objects[c][m] EXCEPT !.callbackUrl = r]
                                 /\ entry.callbackUrl = r
    <3>1. objects[c][m] \in Entries
      BY <1>0 DEF TypeOK
    <3> QED
      BY <3>1, Readdressed
  <2>4. objects' = [objects EXCEPT ![c][m] = entry]
    BY <1>4, <2>2, <2>3 DEF Reuse, AdoptedUrl
  <2>5. Rightful(entry.callbackUrl)'
    BY <2>1, <2>3, ReserveAssumption DEF Rightful
  <2>6. \A t \in Terminates : task'[t] = task[t]
    BY <1>0, <1>4, <2>1, ReserveAssumption DEF Reuse, TypeOK, Requests
  <2>7. UNCHANGED reports
    BY <1>4 DEF Reuse
  <2> QED
    BY <2>2, <2>3, <2>4, <2>5, <2>6, <2>7, OwnedStores
<1>5. CASE ReserveAcked(r)
  <2>1. r \in Reserves /\ "reserve" \in Makers
    BY <1>5 DEF ReserveAcked, Makers
  <2>2. NewEntry(r) \in Entries /\ NewEntry(r).callbackUrl = r
    BY DEF NewEntry, Entries, Statuses, Reasons, NoError
  <2>3. Rightful(NewEntry(r).callbackUrl)'
    BY <2>1, <2>2, ReserveAssumption DEF Rightful
  <2>4. \A t \in Terminates : task'[t] = task[t]
    BY <1>0, <1>5, <2>1, ReserveAssumption DEF ReserveAcked, TypeOK, Requests
  <2> QED
    BY <1>5, <2>1, <2>2, <2>3, <2>4, OwnedStores DEF ReserveAcked
<1>6. CASE TerminateDispatch(r)
  <2>1. r \in Terminates /\ pc[r] = "refreshed" /\ reply[r] \notin {"404", "409"} /\ aim[r] \in Reserves
    BY <1>0, <1>6 DEF TerminateDispatch, Aimed, Owned
  <2>2. PICK c \in Reserves, m \in Makers : c = aim[r] /\ m = Maker(c)
    BY <1>0, <2>1, StoredTyped
  <2>3. PICK errors \in ErrorsSeen(c) :
            LET entry == RefreshedEntry(c, view[r][c], errors)
            IN  TerminatedAlready(r, entry) \/ TerminateProceeds(r, entry) \/ TerminateRefused(r, entry)
    BY <1>6, <2>2 DEF TerminateDispatch
  <2>4. PICK entry \in Entries : /\ entry = RefreshedEntry(c, view[r][c], errors)
                                 /\ entry.callbackUrl = Stored(c).callbackUrl
    BY <1>0, ErrorsTyped, RefreshedTyped
  <2>5. TerminatedAlready(r, entry) \/ TerminateProceeds(r, entry) \/ TerminateRefused(r, entry)
    BY <2>3, <2>4
  <2>6. PICK adopted \in Entries : /\ adopted = [entry EXCEPT !.callbackUrl = r]
                                   /\ adopted.callbackUrl = r
    BY Readdressed
  <2>7. CASE TerminatedAlready(r, entry)
    <3>1. Kept(r)'
      BY <1>0, <2>7 DEF TerminatedAlready, Replies, Kept, TypeOK
    <3>2. objects' = [objects EXCEPT ![c][m] = adopted]
      BY <2>2, <2>6, <2>7 DEF TerminatedAlready, Stores
    <3>3. \A t \in Terminates : task'[t] = "redelivering" => task[t] = "redelivering" \/ Kept(t)'
      BY <1>0, <2>7, <3>1 DEF TerminatedAlready, TypeOK
    <3> QED
      BY <2>6, <2>7, <3>1, <3>2, <3>3, OwnedStores DEF TerminatedAlready, Rightful
  <2>8. CASE TerminateProceeds(r, entry)
    <3>1. Kept(r)'
      BY <1>0, <2>1, <2>8 DEF TerminateProceeds, Kept, TypeOK
    <3>2. objects' = [objects EXCEPT ![c][m] = adopted]
      BY <2>2, <2>6, <2>8 DEF TerminateProceeds, Stores
    <3> QED
      BY <2>6, <2>8, <3>1, <3>2, OwnedStores DEF TerminateProceeds, Rightful
  <2>9. CASE TerminateRefused(r, entry)
    <3>1. Rightful(entry.callbackUrl)'
      BY <1>0, <1>1, <2>4, StoredTyped DEF Stored, Owned, Rightful
    <3>2. objects' = [objects EXCEPT ![c][m] = entry]
      <4>1. [entry EXCEPT !.callbackUrl = entry.callbackUrl] = entry
        BY DEF Entries
      <4> QED
        BY <2>2, <2>9, <4>1 DEF TerminateRefused, Stores, UrlWhenRefused
    <3> QED
      BY <2>9, <3>1, <3>2, OwnedStores DEF TerminateRefused
  <2> QED
    BY <2>5, <2>7, <2>8, <2>9
<1>7. CASE TerminateAcked(r)
  BY <1>0, <1>7, OwnedUntouched DEF TerminateAcked, TypeOK
<1> QED
  BY <1>2, <1>3, <1>4, <1>5, <1>6, <1>7 DEF HandlerStep

LEMMA TasksOwned ==
    ASSUME TInv, Owned, Next, NEW r \in Requests, TaskStep(r)
    PROVE  Owned'
<1>0. TypeOK /\ Aimed
  BY DEF TInv
<1>1. \A t \in Terminates : Kept(t) => Kept(t)'
  BY KeptStays
<1> USE DEF storeVars, taskVars
<1>2. CASE r \in Reserves /\ (ReserveConfirmed(r) \/ CommitAcked(r))
  <2>1. \A t \in Terminates : task'[t] = task[t]
    BY <1>0, <1>2, ReserveAssumption DEF ReserveConfirmed, CommitAcked, TypeOK, Requests
  <2> QED
    BY <1>2, <2>1, OwnedUntouched DEF ReserveConfirmed, CommitAcked
<1>3. ASSUME r \in Reserves,
             \/ ReserveFailed(r) \/ ReserveTimesOut(r) \/ CommitPostFails(r)
             \/ Committed(r) \/ CommitFailed(r) \/ CommitTimesOut(r)
      PROVE  Owned'
  <2>1. Ends(r, r, "FAILED", "operation") \/ Ends(r, r, "RESERVED", NoError)
    <3>1. CASE ReserveFailed(r) \/ CommitPostFails(r) \/ CommitFailed(r)
      BY <1>3, <3>1 DEF ReserveFailed, CommitPostFails, CommitFailed, Fails
    <3>2. CASE ReserveTimesOut(r) \/ CommitTimesOut(r)
      BY <1>3, <3>2 DEF ReserveTimesOut, CommitTimesOut, WaitTimeout, Fails
    <3>3. CASE Committed(r)
      BY <1>3, <3>3 DEF Committed
    <3> QED
      BY <1>3, <3>1, <3>2, <3>3
  <2>2. CASE Ends(r, r, "FAILED", "operation")
    BY <1>3, <2>2, OwnedEnds
  <2>3. CASE Ends(r, r, "RESERVED", NoError)
    BY <1>3, <2>3, OwnedEnds
  <2> QED
    BY <2>1, <2>2, <2>3
<1>4. CASE r \in Terminates /\ TerminateEnds(r)
  <2>1. PICK c \in Reserves : c = aim[r]
    BY <1>0, <1>4 DEF TerminateEnds, Aimed
  <2>2. PICK lastError : lastError = Stored(c).lastError
    OBVIOUS
  <2>3. Ends(r, c, "TERMINATED", lastError)
    BY <1>4, <2>1, <2>2 DEF TerminateEnds
  <2> QED
    BY <2>3, OwnedEnds
<1>5. CASE Finished(r)
  BY <1>0, <1>5, OwnedUntouched DEF Finished, TypeOK
<1>6. CASE Redelivers(r)
  <2>1. Rightful(r)'
    BY <1>1, <1>6 DEF Redelivers, Owned, Rightful
  <2>2. PICK report : reports' = reports \union {[report EXCEPT !.to = r]}
                      /\ [report EXCEPT !.to = r].to = r
    BY <1>6 DEF Redelivers, Reported
  <2>3. \A rep \in reports' \ reports : Rightful(rep.to)'
    BY <2>1, <2>2
  <2>4. \A t \in Terminates : task'[t] = "redelivering" => task[t] = "redelivering"
    BY <1>0, <1>6 DEF Redelivers, TypeOK
  <2>5. \A c \in Reserves, m \in Makers : Rightful(objects[c][m].callbackUrl)'
    BY <1>1, <1>6 DEF Redelivers, Owned, Rightful
  <2> QED
    BY <2>3, <2>4, <2>5, OwnedStays
<1> QED
  BY <1>2, <1>3, <1>4, <1>5, <1>6 DEF TaskStep

LEMMA OwnedStep == TInv /\ Owned /\ [Next]_vars => Owned'
<1> SUFFICES ASSUME TInv, Owned, [Next]_vars PROVE Owned'
  OBVIOUS
<1>0. TypeOK
  BY DEF TInv
<1> USE DEF storeVars, taskVars
<1>1. CASE UNCHANGED vars
  BY <1>1 DEF Owned, Rightful, Kept, vars, handlerVars
<1>2. ASSUME Next, NEW r \in Requests, RequesterStep(r) PROVE Owned'
  BY <1>2, OwnedUntouched DEF RequesterStep, StartKeyed, StartUnkeyed, StartTerminate
<1>3. ASSUME Next, NEW call, NEW kind, DeliverAnswer(call, kind) PROVE Owned'
  BY <1>3, OwnedUntouched DEF DeliverAnswer
<1>4. CASE Next /\ Environment
  BY <1>4, OwnedUntouched DEF Environment
<1>5. CASE Next /\ Crash
  <2>1. \A c \in Reserves, m \in Makers : objects'[c][m].callbackUrl = NoRequest
    BY <1>5 DEF Crash, NoEntry
  <2>2. \A c \in Reserves, m \in Makers : Rightful(objects[c][m].callbackUrl)'
    BY <2>1, ReserveAssumption DEF Rightful, Requests
  <2>3. \A t \in Terminates : task'[t] # "redelivering"
    BY <1>0, <1>5 DEF Crash, RunningTasks, Requests
  <2> QED
    BY <1>5, <2>2, <2>3, OwnedStays DEF Crash
<1> QED
  BY <1>1, <1>2, <1>3, <1>4, <1>5, HandlersOwned, TasksOwned DEF Next

\* A terminate that was answered 409 never gets the result of the reserve it met, whatever the
\* interleaving of handlers and completion tasks and for any number of requests.
THEOREM RefusedGetsNothing == Spec => []RefusedTerminateGetsNothing
<1>1. Init => OInv
  <2> SUFFICES ASSUME Init PROVE OInv
    OBVIOUS
  <2>1. Owned
    BY ReserveAssumption DEF Init, Owned, Rightful, NoEntry, Requests
  <2> QED
    BY <2>1, InitTyped DEF OInv
<1>2. OInv /\ [Next]_vars => OInv'
  BY StepTyped, OwnedStep DEF OInv
<1>3. OInv => RefusedTerminateGetsNothing
  BY DEF OInv, Owned, Rightful, Kept, RefusedTerminateGetsNothing
<1> QED
  BY <1>1, <1>2, <1>3, PTL DEF Spec

(***************************************************************************)
(* What the mapping needs: a handler has replied exactly when it is done,  *)
(* and whatever is delivered again is a reservation that exists.           *)
(***************************************************************************)
Replied == \A r \in Requests :
    /\ pc[r] = "done" <=> reply[r] # "none"
    /\ task[r] # "none" => pc[r] = "done"

LEMMA RepliedStep == TInv /\ Replied /\ [Next]_vars => Replied'
<1> SUFFICES ASSUME TInv, Replied, [Next]_vars PROVE Replied'
  OBVIOUS
<1> USE DEF Replied, TInv, TypeOK, handlerVars, taskVars
<1>1. ASSUME NEW r \in Requests, NEW code, code # "none", Replies(r, code),
             task' = task \/ \E next \in Tasks : task' = [task EXCEPT ![r] = next]
      PROVE  Replied'
  BY <1>1 DEF Replies
<1>2. ASSUME NEW r \in Requests, NEW next \in {"resolving", "refreshed", "posting"},
             pc[r] # "done", pc' = [pc EXCEPT ![r] = next], UNCHANGED <<reply, task>>
      PROVE  Replied'
  BY <1>2
<1>3. ASSUME UNCHANGED <<pc, reply>>,
             task' = task \/ \E r \in Requests, next \in Tasks :
                                task[r] # "none" /\ task' = [task EXCEPT ![r] = next]
      PROVE  Replied'
  BY <1>3
<1>4. ASSUME NEW r \in Requests, RequesterStep(r) PROVE Replied'
  BY <1>4 DEF RequesterStep, StartKeyed, StartUnkeyed, StartTerminate
<1>5. ASSUME NEW r \in Requests, HandlerStep(r) PROVE Replied'
  <2>1. CASE CandidatesFound(r) \/ ReserveAnew(r) \/ TerminateSummary(r)
    BY <1>2, <2>1 DEF CandidatesFound, ReserveAnew, AllResolved, TerminateSummary
  <2>2. CASE Unanswered(r) \/ HandlerPostFails(r) \/ ReserveAcked(r) \/ TerminateAcked(r)
    BY <1>1, <2>2 DEF Unanswered, FindFails, TerminateSummaryFails, TerminateNotFound, GivesUp,
       HandlerPostFails, ReserveAcked, TerminateAcked, Tasks, RunningTasks
  <2>3. ASSUME NEW c \in Reserves, CandidateResolved(r, c) PROVE Replied'
    BY <2>3 DEF CandidateResolved
  <2>4. ASSUME NEW c \in Reserves, Reuse(r, c) PROVE Replied'
    <3>1. task' = task \/ task' = [task EXCEPT ![r] = "redelivering"]
      <4>1. PICK next \in {task[r], "redelivering"} : task' = [task EXCEPT ![r] = next]
        BY <2>4 DEF Reuse
      <4> QED
        BY <4>1
    <3> QED
      BY <1>1, <2>4, <3>1 DEF Reuse, Tasks, RunningTasks
  <2>5. CASE TerminateDispatch(r)
    BY <1>1, <1>2, <2>5
       DEF TerminateDispatch, TerminatedAlready, TerminateProceeds, TerminateRefused, Tasks,
           RunningTasks
  <2> QED
    BY <1>5, <2>1, <2>2, <2>3, <2>4, <2>5 DEF HandlerStep
<1>6. ASSUME NEW r \in Requests, TaskStep(r) PROVE Replied'
  <2>1. /\ UNCHANGED <<pc, reply>>
        /\ task[r] # "none"
        /\ \E next \in Tasks : task' = [task EXCEPT ![r] = next]
    BY <1>6
       DEF TaskStep, ReserveConfirmed, ReserveFailed, ReserveTimesOut, CommitAcked, CommitPostFails,
           Committed, CommitFailed, CommitTimesOut, WaitTimeout, Fails, Ends, TerminateEnds,
           Finished, Redelivers, Tasks, RunningTasks
  <2> QED
    BY <1>3, <2>1
<1>7. CASE Crash
  BY <1>7 DEF Crash, RunningTasks
<1> QED
  BY <1>3, <1>4, <1>5, <1>6, <1>7 DEF Next, DeliverAnswer, Environment, vars

\* The stored object of a connection, and the objects a reserve handler holds, are reservations.
Existing ==
    /\ \A c \in Reserves : current[c] # "none" => Stored(c).status # "ABSENT"
    /\ \A r, c \in Reserves : held[r][c] # "none" => objects[c][held[r][c]].status # "ABSENT"
    /\ \A r \in Reserves : task[r] = "redelivering" => held[r][told[r]] # "none"
    /\ \A t \in Terminates : task[t] = "redelivering" => current[aim[t]] # "none"

\* An object that is a reservation stays one.
Lasting == \A c \in Reserves, m \in Makers :
    objects[c][m].status # "ABSENT" => objects'[c][m].status # "ABSENT"

LEMMA WrittenLasts ==
    ASSUME TypeOK, NEW c \in Reserves, NEW m \in Makers, NEW entry, entry.status # "ABSENT",
           objects' = [objects EXCEPT ![c][m] = entry]
    PROVE  Lasting /\ objects'[c][m].status # "ABSENT"
BY DEF TypeOK, Lasting

LEMMA ExistingStays ==
    ASSUME TInv, Existing, Lasting,
           \A c \in Reserves : \/ current'[c] = current[c]
                               \/ Stored(c)'.status # "ABSENT" /\ current'[c] # "none",
           \A r, c \in Reserves : \/ held'[r][c] = held[r][c]
                                  \/ objects'[c][held'[r][c]].status # "ABSENT",
           \A r \in Reserves : task'[r] = "redelivering" => held'[r][told'[r]] # "none",
           \A t \in Terminates : task'[t] = "redelivering" =>
              \/ task[t] = "redelivering" /\ aim'[t] = aim[t]
              \/ current'[aim'[t]] # "none"
    PROVE  Existing'
<1> USE DEF TInv, TypeOK
<1>1. \A c \in Reserves : current'[c] # "none" => Stored(c)'.status # "ABSENT"
  BY DEF Existing, Lasting, Stored
<1>2. \A r, c \in Reserves : held'[r][c] # "none" => objects'[c][held'[r][c]].status # "ABSENT"
  BY DEF Existing, Lasting
<1>3. \A t \in Terminates : task'[t] = "redelivering" => current'[aim'[t]] # "none"
  BY DEF Existing, Aimed
<1> QED
  BY <1>1, <1>2, <1>3 DEF Existing

LEMMA RefreshedExists ==
    ASSUME NEW c, NEW snapshot, NEW errors, NEW url
    PROVE  /\ RefreshedEntry(c, snapshot, errors).status # "ABSENT"
           /\ [RefreshedEntry(c, snapshot, errors) EXCEPT !.callbackUrl = url].status # "ABSENT"
<1>1. \A states : MapNsiStates(states, errors) # "ABSENT"
  BY MappedStatus DEF Statuses
<1> QED
  BY <1>1 DEF RefreshedEntry

LEMMA ExistingStep == TInv /\ Replied /\ Existing /\ [Next]_vars => Existing'
<1> SUFFICES ASSUME TInv, Replied, Existing, [Next]_vars PROVE Existing'
  OBVIOUS
<1> USE DEF TInv, TypeOK
<1>1. ASSUME UNCHANGED <<objects, current, held>>,
             \A r \in Reserves : task'[r] = "redelivering" =>
                task[r] = "redelivering" /\ told'[r] = told[r],
             \A t \in Terminates : task'[t] = "redelivering" =>
                task[t] = "redelivering" /\ aim'[t] = aim[t]
      PROVE  Existing'
  BY <1>1, ExistingStays DEF Lasting, Existing
<1>2. ASSUME NEW r \in Requests, RequesterStep(r) PROVE Existing'
  BY <1>1, <1>2
     DEF RequesterStep, StartKeyed, StartUnkeyed, StartTerminate, Replied, storeVars, taskVars
<1>3. ASSUME NEW t \in Terminates, NEW entry \in Entries, entry.status # "ABSENT", NEW url,
             [entry EXCEPT !.callbackUrl = url].status # "ABSENT",
             Stores(aim[t], entry, url), aim[t] \in Reserves, UNCHANGED <<held, told, aim>>,
             task' = task \/ task' = [task EXCEPT ![t] = "redelivering"]
      PROVE  Existing'
  <2>1. Maker(aim[t]) \in Makers /\ Maker(aim[t]) # "none"
    BY <1>3, StoredTyped DEF Maker
  <2>2. Lasting /\ objects'[aim[t]][Maker(aim[t])].status # "ABSENT"
    BY <1>3, <2>1, WrittenLasts DEF Stores
  <2>3. current' = [current EXCEPT ![aim[t]] = Maker(aim[t])]
    BY <1>3 DEF Stores
  <2>4. \A c \in Reserves : \/ current'[c] = current[c]
                            \/ Stored(c)'.status # "ABSENT" /\ current'[c] # "none"
    BY <2>1, <2>2, <2>3 DEF Stored
  <2>5. \A r \in Reserves : task'[r] = "redelivering" => held'[r][told'[r]] # "none"
    BY <1>3, ReserveAssumption DEF Existing, Requests
  <2>6. \A o \in Terminates : task'[o] = "redelivering" =>
           \/ task[o] = "redelivering" /\ aim'[o] = aim[o]
           \/ current'[aim'[o]] # "none"
    <3>1. current'[aim'[t]] # "none"
      BY <1>3, <2>1, <2>3
    <3> QED
      BY <1>3, <3>1 DEF Requests
  <2>7. \A r, c \in Reserves : held'[r][c] = held[r][c]
    BY <1>3
  <2> QED
    BY <2>2, <2>4, <2>5, <2>6, <2>7, ExistingStays
<1>4. ASSUME NEW r \in Requests, HandlerStep(r) PROVE Existing'
  <2> USE DEF taskVars, storeVars
  <2>1. CASE CandidatesFound(r) \/ ReserveAnew(r) \/ TerminateSummary(r)
    BY <1>1, <2>1 DEF CandidatesFound, ReserveAnew, TerminateSummary
  <2>2. CASE Unanswered(r) \/ HandlerPostFails(r)
    BY <1>1, <2>2 DEF Unanswered, FindFails, TerminateSummaryFails, TerminateNotFound, GivesUp,
       HandlerPostFails
  <2>3. CASE TerminateAcked(r)
    BY <1>1, <2>3 DEF TerminateAcked
  <2>4. CASE ReserveAcked(r)
    <3>1. /\ r \in Reserves /\ NewEntry(r).status # "ABSENT" /\ "reserve" \in Makers
          /\ objects' = [objects EXCEPT ![r]["reserve"] = NewEntry(r)]
      BY <2>4 DEF ReserveAcked, NewEntry, Makers
    <3>2. Lasting /\ objects'[r]["reserve"].status # "ABSENT"
      BY <3>1, WrittenLasts
    <3>3. /\ current' = [current EXCEPT ![r] = "reserve"]
          /\ task' = [task EXCEPT ![r] = "reserving"] /\ told' = [told EXCEPT ![r] = r]
          /\ UNCHANGED <<held, aim>>
      BY <2>4 DEF ReserveAcked
    <3>4. \A c \in Reserves : \/ current'[c] = current[c]
                              \/ Stored(c)'.status # "ABSENT" /\ current'[c] # "none"
      BY <3>2, <3>3 DEF Stored
    <3>5. \A o \in Reserves : task'[o] = "redelivering" => held'[o][told'[o]] # "none"
      BY <3>1, <3>3 DEF Existing, Requests
    <3>6. \A t \in Terminates : task'[t] = task[t] \/ task'[t] = "reserving"
      BY <3>3 DEF Requests
    <3> QED
      BY <3>2, <3>3, <3>4, <3>5, <3>6, ExistingStays
  <2>5. ASSUME NEW c \in Reserves, CandidateResolved(r, c) PROVE Existing'
    <3>1. Maker(c) \in Makers /\ Maker(c) # "none"
      BY StoredTyped DEF Maker
    <3>2. PICK errors \in ErrorsSeen(c) :
             objects' = [objects EXCEPT ![c][Maker(c)] = RefreshedEntry(c, view[r][c], errors)]
      BY <2>5 DEF CandidateResolved
    <3>3. Lasting /\ objects'[c][Maker(c)].status # "ABSENT"
      <4>1. PICK m, entry :
               m = Maker(c) /\ m \in Makers /\ entry = RefreshedEntry(c, view[r][c], errors)
        BY <3>1
      <4>2. entry.status # "ABSENT" /\ objects' = [objects EXCEPT ![c][m] = entry]
        BY <3>2, <4>1, RefreshedExists
      <4> QED
        BY <4>1, <4>2, WrittenLasts
    <3>4. /\ r \in Reserves
          /\ current' = [current EXCEPT ![c] = Maker(c)]
          /\ held' = [held EXCEPT ![r][c] = Maker(c)]
          /\ UNCHANGED <<task, told, aim>>
      BY <2>5 DEF CandidateResolved, Reserves
    <3>5. \A d \in Reserves : \/ current'[d] = current[d]
                              \/ Stored(d)'.status # "ABSENT" /\ current'[d] # "none"
      BY <3>1, <3>3, <3>4 DEF Stored
    <3>6. \A o, d \in Reserves : \/ held'[o][d] = held[o][d]
                                 \/ objects'[d][held'[o][d]].status # "ABSENT"
      BY <3>3, <3>4
    <3>7. \A o \in Reserves : task'[o] = "redelivering" => held'[o][told'[o]] # "none"
      BY <3>1, <3>4 DEF Existing, Aimed
    <3> QED
      BY <3>3, <3>4, <3>5, <3>6, <3>7, ExistingStays
  <2>6. ASSUME NEW c \in Reserves, Reuse(r, c) PROVE Existing'
    <3>1. r \in Reserves /\ c \in Candidates(r) /\ held[r][c] # "none"
      BY <2>6 DEF Reuse, Reusable, Live, AllResolved, Reserves
    <3>2. PICK entry : /\ entry = [objects[c][held[r][c]] EXCEPT
                                     !.callbackUrl = AdoptedUrl(r, objects[c][held[r][c]])]
                       /\ objects' = [objects EXCEPT ![c][held[r][c]] = entry]
      BY <2>6 DEF Reuse
    <3>3. objects[c][held[r][c]] \in Entries /\ objects[c][held[r][c]].status # "ABSENT"
      BY <3>1 DEF Existing
    <3>4. entry.status # "ABSENT" /\ held[r][c] \in Makers
      BY <3>1, <3>2, <3>3 DEF Entries
    <3>5. Lasting
      BY <3>2, <3>4, WrittenLasts
    <3>6. /\ UNCHANGED <<current, held, aim>> /\ told' = [told EXCEPT ![r] = c]
          /\ \A o \in Requests \ {r} : task'[o] = task[o]
      BY <2>6 DEF Reuse
    <3>7. \A o \in Reserves : task'[o] = "redelivering" => held'[o][told'[o]] # "none"
      BY <3>1, <3>6 DEF Existing, Requests
    <3>8. \A t \in Terminates : task'[t] = task[t]
      BY <3>1, <3>6, ReserveAssumption DEF Requests
    <3> QED
      BY <3>5, <3>6, <3>7, <3>8, ExistingStays
  <2>7. CASE TerminateDispatch(r)
    <3>1. r \in Terminates /\ aim[r] \in Reserves
      BY <2>7 DEF TerminateDispatch, Aimed
    <3>2. PICK errors \in ErrorsSeen(aim[r]) :
             LET entry == RefreshedEntry(aim[r], view[r][aim[r]], errors)
             IN  TerminatedAlready(r, entry) \/ TerminateProceeds(r, entry) \/ TerminateRefused(r, entry)
      BY <2>7 DEF TerminateDispatch
    <3>3. PICK entry : entry = RefreshedEntry(aim[r], view[r][aim[r]], errors)
      OBVIOUS
    <3>4. /\ entry \in Entries /\ entry.status # "ABSENT"
          /\ \A url : [entry EXCEPT !.callbackUrl = url].status # "ABSENT"
      BY <3>1, <3>2, <3>3, RefreshedExists, RefreshedTyped, ErrorsTyped
    <3>5. TerminatedAlready(r, entry) \/ TerminateProceeds(r, entry) \/ TerminateRefused(r, entry)
      BY <3>2, <3>3
    <3>6. PICK url : Stores(aim[r], entry, url)
      BY <3>5 DEF TerminatedAlready, TerminateProceeds, TerminateRefused
    <3>7. /\ UNCHANGED <<held, told, aim>>
          /\ task' = task \/ task' = [task EXCEPT ![r] = "redelivering"]
      BY <3>5 DEF TerminatedAlready, TerminateProceeds, TerminateRefused
    <3> QED
      BY <1>3, <3>1, <3>4, <3>6, <3>7
  <2> QED
    BY <1>4, <2>1, <2>2, <2>3, <2>4, <2>5, <2>6, <2>7 DEF HandlerStep
<1>5. ASSUME NEW r \in Requests, NEW c \in Reserves, NEW status \in Statuses, NEW lastError,
             Ends(r, c, status, lastError), UNCHANGED <<current, handlerVars>>
      PROVE  Existing'
  <2>1. PICK entry : /\ entry = [Stored(c) EXCEPT !.status = status, !.lastError = lastError]
                     /\ objects' = [objects EXCEPT ![c][current[c]] = entry]
    BY <1>5 DEF Ends
  <2>2. entry.status # "ABSENT" /\ current[c] \in Makers
    BY <2>1, StoredTyped DEF Entries, Statuses
  <2>3. Lasting
    BY <2>1, <2>2, WrittenLasts
  <2>4. \A o \in Requests : task'[o] = "redelivering" => task[o] = "redelivering"
    BY <1>5 DEF Ends
  <2> QED
    BY <1>5, <2>3, <2>4, ExistingStays DEF Existing, handlerVars, Requests
<1>6. ASSUME NEW r \in Requests, TaskStep(r) PROVE Existing'
  <2> USE DEF taskVars, storeVars
  <2>1. ASSUME UNCHANGED <<objects, current, handlerVars>>,
               NEW next \in Tasks \ {"redelivering"}, task' = [task EXCEPT ![r] = next]
        PROVE  Existing'
    <3>1. \A o \in Requests : task'[o] = "redelivering" => task[o] = "redelivering"
      BY <2>1
    <3> QED
      BY <1>1, <2>1, <3>1 DEF handlerVars, Requests
  <2>2. CASE ReserveConfirmed(r) \/ CommitAcked(r) \/ Finished(r) \/ Redelivers(r)
    BY <2>1, <2>2 DEF ReserveConfirmed, CommitAcked, Finished, Redelivers, Tasks, RunningTasks
  <2>3. ASSUME r \in Reserves, Fails(r) PROVE Existing'
    BY <1>5, <2>3 DEF Fails, Statuses
  <2>4. CASE r \in Reserves /\ Committed(r)
    BY <1>5, <2>4 DEF Committed, Statuses
  <2>5. CASE r \in Terminates /\ TerminateEnds(r)
    <3>1. aim[r] \in Reserves
      BY <2>5 DEF TerminateEnds, Aimed
    <3> QED
      BY <1>5, <2>5, <3>1 DEF TerminateEnds, Statuses
  <2> QED
    BY <1>6, <2>2, <2>3, <2>4, <2>5
       DEF TaskStep, ReserveFailed, ReserveTimesOut, CommitPostFails, CommitFailed, CommitTimesOut,
           WaitTimeout
<1>7. CASE Crash
  BY <1>7 DEF Crash, Existing, Stored, Requests, RunningTasks
<1>8. CASE UNCHANGED <<objects, current, held, task, told, aim>>
  BY <1>1, <1>8
<1> QED
  BY <1>2, <1>4, <1>6, <1>7, <1>8
     DEF Next, DeliverAnswer, Environment, vars, storeVars, handlerVars, taskVars

Mapping == TInv /\ Replied /\ Existing

LEMMA MappingKept == Spec => []Mapping
<1>1. Init => Replied /\ Existing
  BY ReserveAssumption DEF Init, Replied, Existing, Requests
<1> QED
  BY <1>1, InitTyped, StepTyped, RepliedStep, ExistingStep, PTL DEF Spec, Mapping

(***************************************************************************)
(* The steps of the promises, pointwise.                                   *)
(***************************************************************************)
LEMMA NothingPromised ==
    ASSUME \A o \in Requests : AnswerOf(o)' = AnswerOf(o) /\ OwedTo(o)' = OwedTo(o),
           reports' = reports, crashed' = crashed
    PROVE  UNCHANGED Promise!vars
BY DEF Promise!vars

LEMMA AskStep ==
    ASSUME NEW r \in Requests, AnswerOf(r) = "none", AnswerOf(r)' = "asked",
           \A o \in Requests \ {r} : AnswerOf(o)' = AnswerOf(o),
           \A o \in Requests : OwedTo(o)' = OwedTo(o),
           reports' = reports, crashed' = crashed
    PROVE  Promise!Next
<1>1. Promise!Ask(r)
  BY DEF Promise!Ask
<1> QED
  BY <1>1 DEF Promise!Next

LEMMA AcceptStep ==
    ASSUME NEW r \in Requests, AnswerOf(r) = "asked", AnswerOf(r)' = "accepted",
           \A o \in Requests \ {r} : AnswerOf(o)' = AnswerOf(o) /\ OwedTo(o)' = OwedTo(o),
           reports' = reports, crashed' = crashed
    PROVE  Promise!Next
<1>1. PICK due \in {"nothing", "result", "repeat"} : OwedTo(r)' = due
  BY DEF OwedTo
<1>2. Promise!Accept(r, due)
  BY <1>1 DEF Promise!Accept
<1> QED
  BY <1>2 DEF Promise!Next

LEMMA TurnDownStep ==
    ASSUME NEW r \in Requests, AnswerOf(r) = "asked",
           NEW how \in {"refused", "failed"}, AnswerOf(r)' = how,
           \A o \in Requests \ {r} : AnswerOf(o)' = AnswerOf(o),
           \A o \in Requests : OwedTo(o)' = OwedTo(o),
           reports' = reports, crashed' = crashed
    PROVE  Promise!Next
<1>1. Promise!TurnDown(r, how)
  BY DEF Promise!TurnDown
<1> QED
  BY <1>1 DEF Promise!Next

LEMMA TellStep ==
    ASSUME NEW r \in Requests, OwedTo(r) # "nothing", OwedTo(r)' = "nothing",
           \A o \in Requests \ {r} : OwedTo(o)' = OwedTo(o),
           \A o \in Requests : AnswerOf(o)' = AnswerOf(o),
           NEW rep, rep.by = r, rep.second = HasReported(r), reports' = reports \union {rep},
           rep.status \in Statuses,
           OwedTo(r) = "result" =>
              rep.status \in IF r \in Reserves THEN {"RESERVED", "FAILED"} ELSE {"TERMINATED"},
           crashed' = crashed
    PROVE  Promise!Next
<1> DEFINE result(one) == <<one.by, one.status, one.second>>
           results == {result(one) : one \in reports}
<1>1. HasReported(r) <=> \E sent \in results : sent[1] = r
  <2>1. ASSUME NEW one \in reports, one.by = r PROVE \E sent \in results : sent[1] = r
    <3>1. result(one) \in results /\ result(one)[1] = r
      BY <2>1
    <3> QED
      BY <3>1
  <2>2. ASSUME NEW sent \in results, sent[1] = r PROVE \E one \in reports : one.by = r
    <3>1. PICK one \in reports : sent = result(one)
      OBVIOUS
    <3> QED
      BY <2>2, <3>1
  <2> QED
    BY <2>1, <2>2 DEF HasReported
<1>2. result(rep) = <<r, rep.status, \E sent \in results : sent[1] = r>>
  BY <1>1 DEF HasReported
<1>3. {result(one) : one \in reports'} = results \union {result(rep)}
  OBVIOUS
<1> HIDE DEF result
<1>4. Promise!Tell(r, rep.status)
  BY <1>2, <1>3 DEF Promise!Tell, Promise!HasBeenTold, result
<1> QED
  BY <1>4 DEF Promise!Next

(***************************************************************************)
(* How replies and the ends of tasks map.                                  *)
(***************************************************************************)
LEMMA ReplyMaps ==
    ASSUME TypeOK, Replied, NEW r \in Requests, NEW code \in {"202", "404", "409", "502"},
           Replies(r, code), pc[r] \notin {"idle", "done"}, UNCHANGED <<reports, crashed>>,
           \/ task' = task
           \/ code = "202" /\ \E next \in Tasks : task' = [task EXCEPT ![r] = next]
    PROVE  Promise!Next
<1>1. AnswerOf(r) = "asked"
  BY DEF Replied, AnswerOf
<1>2. \A o \in Requests \ {r} : AnswerOf(o)' = AnswerOf(o) /\ OwedTo(o)' = OwedTo(o)
  BY DEF Replies, AnswerOf, OwedTo, TypeOK
<1>3. AnswerOf(r)' = CASE code = "202" -> "accepted"
                       [] code \in {"404", "409"} -> "refused"
                       [] OTHER -> "failed"
  BY DEF Replies, AnswerOf, TypeOK
<1>4. CASE code = "202"
  BY <1>1, <1>2, <1>3, <1>4, AcceptStep
<1>5. CASE code # "202"
  <2>1. task' = task
    BY <1>5
  <2>2. \A o \in Requests : OwedTo(o)' = OwedTo(o)
    BY <2>1 DEF OwedTo
  <2>3. PICK how \in {"refused", "failed"} : AnswerOf(r)' = how
    BY <1>3, <1>5
  <2> QED
    BY <1>1, <1>2, <2>2, <2>3, TurnDownStep
<1> QED
  BY <1>4, <1>5

LEMMA EndMaps ==
    ASSUME TypeOK, NEW r \in Requests, NEW c \in Reserves,
           task[r] \in RunningTasks \ {"redelivering"}, NEW status \in Statuses, NEW lastError,
           status \in IF r \in Reserves THEN {"RESERVED", "FAILED"} ELSE {"TERMINATED"},
           Ends(r, c, status, lastError), UNCHANGED <<pc, reply, crashed>>
    PROVE  Promise!Next
<1>1. task' = [task EXCEPT ![r] = "delivering"]
  BY DEF Ends
<1>2. OwedTo(r) = "result" /\ OwedTo(r)' = "nothing"
  BY <1>1 DEF OwedTo, TypeOK, RunningTasks
<1>3. \A o \in Requests \ {r} : OwedTo(o)' = OwedTo(o)
  BY <1>1 DEF OwedTo, TypeOK
<1>4. \A o \in Requests : AnswerOf(o)' = AnswerOf(o)
  BY DEF AnswerOf
<1>5. Stored(c) \in Entries
  BY StoredTyped
<1>6. PICK rep : /\ rep = Reported(r, c, [Stored(c) EXCEPT !.status = status, !.lastError = lastError])
                 /\ reports' = reports \union {rep}
  BY DEF Ends
<1>7. rep.by = r /\ rep.second = HasReported(r) /\ rep.status = status
  BY <1>5, <1>6 DEF Reported, Entries
<1> QED
  BY <1>2, <1>3, <1>4, <1>6, <1>7, TellStep

(***************************************************************************)
(* The refinement, action by action.                                       *)
(***************************************************************************)
Mapped == Promise!Next \/ UNCHANGED Promise!vars

LEMMA UntouchedMaps == UNCHANGED <<pc, reply, task, reports, crashed>> => Mapped
BY NothingPromised DEF AnswerOf, OwedTo, Mapped

LEMMA RequesterMaps ==
    ASSUME Mapping, NEW r \in Requests, RequesterStep(r)
    PROVE  Mapped
<1>1. UNCHANGED <<reply, task, reports, crashed>>
  BY DEF RequesterStep, StartKeyed, StartUnkeyed, StartTerminate, taskVars
<1>2. /\ pc[r] = "idle" /\ \A o \in Requests \ {r} : pc'[o] = pc[o]
      /\ pc'[r] \in {"finding", "posting"}
  BY DEF RequesterStep, StartKeyed, StartUnkeyed, StartTerminate, Mapping, TInv, TypeOK
<1>3. AnswerOf(r) = "none" /\ AnswerOf(r)' = "asked"
  BY <1>1, <1>2 DEF AnswerOf, Mapping, Replied
<1>4. \A o \in Requests \ {r} : AnswerOf(o)' = AnswerOf(o)
  BY <1>1, <1>2 DEF AnswerOf
<1>5. \A o \in Requests : OwedTo(o)' = OwedTo(o)
  BY <1>1 DEF OwedTo
<1> QED
  BY <1>1, <1>3, <1>4, <1>5, AskStep DEF Mapped

LEMMA HandlerMaps ==
    ASSUME Mapping, NEW r \in Requests, HandlerStep(r)
    PROVE  Mapped
<1>0. TypeOK /\ Replied
  BY DEF Mapping, TInv
<1> USE DEF taskVars
<1>1. ASSUME pc[r] # "done", pc[r] # "idle", NEW next \in {"resolving", "refreshed", "posting"},
             pc' = [pc EXCEPT ![r] = next], UNCHANGED <<reply, task, reports, crashed>>
      PROVE  Mapped
  <2>1. \A o \in Requests : AnswerOf(o)' = AnswerOf(o) /\ OwedTo(o)' = OwedTo(o)
    BY <1>0, <1>1 DEF AnswerOf, OwedTo, TypeOK
  <2> QED
    BY <1>1, <2>1, NothingPromised DEF Mapped
<1>2. CASE CandidatesFound(r) \/ ReserveAnew(r) \/ TerminateSummary(r)
  BY <1>1, <1>2 DEF CandidatesFound, ReserveAnew, AllResolved, TerminateSummary
<1>3. CASE Unanswered(r) \/ HandlerPostFails(r)
  BY <1>0, <1>3, ReplyMaps DEF Unanswered, FindFails, TerminateSummaryFails, TerminateNotFound,
     GivesUp, HandlerPostFails, Mapped
<1>4. CASE ReserveAcked(r) \/ TerminateAcked(r)
  BY <1>0, <1>4, ReplyMaps DEF ReserveAcked, TerminateAcked, Tasks, RunningTasks, Mapped
<1>5. ASSUME NEW c \in Reserves, CandidateResolved(r, c) PROVE Mapped
  BY <1>5, UntouchedMaps DEF CandidateResolved
<1>6. ASSUME NEW c \in Reserves, Reuse(r, c) PROVE Mapped
  <2>1. PICK next \in {task[r], "redelivering"} : task' = [task EXCEPT ![r] = next]
    BY <1>6 DEF Reuse
  <2>2. next \in Tasks
    BY <1>0 DEF TypeOK, Tasks, RunningTasks
  <2> QED
    BY <1>0, <1>6, <2>1, <2>2, ReplyMaps DEF Reuse, AllResolved, Mapped
<1>7. CASE TerminateDispatch(r)
  <2>1. pc[r] = "refreshed"
    BY <1>7 DEF TerminateDispatch
  <2>2. PICK entry : TerminatedAlready(r, entry) \/ TerminateProceeds(r, entry) \/ TerminateRefused(r, entry)
    BY <1>7 DEF TerminateDispatch
  <2>3. CASE TerminatedAlready(r, entry)
    BY <1>0, <2>1, <2>3, ReplyMaps DEF TerminatedAlready, Tasks, RunningTasks, Mapped
  <2>4. CASE TerminateProceeds(r, entry)
    BY <1>1, <2>1, <2>4 DEF TerminateProceeds
  <2>5. CASE TerminateRefused(r, entry)
    BY <1>0, <2>1, <2>5, ReplyMaps DEF TerminateRefused, Mapped
  <2> QED
    BY <2>2, <2>3, <2>4, <2>5
<1> QED
  BY <1>2, <1>3, <1>4, <1>5, <1>6, <1>7 DEF HandlerStep

LEMMA TaskMaps ==
    ASSUME Mapping, NEW r \in Requests, TaskStep(r)
    PROVE  Mapped
<1>0. TypeOK /\ Aimed /\ Existing
  BY DEF Mapping, TInv
<1> USE DEF handlerVars
<1>1. CASE ReserveConfirmed(r) \/ CommitAcked(r) \/ Finished(r)
  <2>1. UNCHANGED <<pc, reply, reports, crashed>>
    BY <1>1 DEF ReserveConfirmed, CommitAcked, Finished
  <2>2. \A o \in Requests : OwedTo(o)' = OwedTo(o)
    BY <1>0, <1>1 DEF ReserveConfirmed, CommitAcked, Finished, OwedTo, RunningTasks, TypeOK
  <2>3. \A o \in Requests : AnswerOf(o)' = AnswerOf(o)
    BY <2>1 DEF AnswerOf
  <2> QED
    BY <2>1, <2>2, <2>3, NothingPromised DEF Mapped
<1>2. ASSUME r \in Reserves, task[r] \in {"reserving", "postingCommit", "committing"},
             Fails(r) \/ (Ends(r, r, "RESERVED", NoError) /\ UNCHANGED <<pc, reply, crashed>>)
      PROVE  Mapped
  BY <1>0, <1>2, EndMaps DEF Fails, RunningTasks, Statuses, Mapped
<1>3. CASE r \in Reserves /\ (ReserveFailed(r) \/ CommitPostFails(r) \/ CommitFailed(r))
  BY <1>2, <1>3 DEF ReserveFailed, CommitPostFails, CommitFailed
<1>4. CASE r \in Reserves /\ (ReserveTimesOut(r) \/ CommitTimesOut(r))
  BY <1>2, <1>4 DEF ReserveTimesOut, CommitTimesOut, WaitTimeout
<1>5. CASE r \in Reserves /\ Committed(r)
  BY <1>2, <1>5 DEF Committed
<1>6. CASE r \in Terminates /\ TerminateEnds(r)
  <2>1. aim[r] \in Reserves /\ r \notin Reserves
    BY <1>0, <1>6, ReserveAssumption DEF TerminateEnds, Aimed
  <2> QED
    BY <1>0, <1>6, <2>1, EndMaps DEF TerminateEnds, RunningTasks, Statuses, Mapped
<1>7. CASE Redelivers(r)
  <2>1. OwedTo(r) = "repeat" /\ OwedTo(r)' = "nothing"
    BY <1>0, <1>7 DEF Redelivers, OwedTo, RunningTasks, TypeOK
  <2>2. \A o \in Requests \ {r} : OwedTo(o)' = OwedTo(o)
    BY <1>0, <1>7 DEF Redelivers, OwedTo, TypeOK
  <2>3. \A o \in Requests : AnswerOf(o)' = AnswerOf(o)
    BY <1>7 DEF Redelivers, AnswerOf
  <2> DEFINE c == IF r \in Reserves THEN told[r] ELSE aim[r]
             entry == IF r \in Reserves THEN objects[c][held[r][c]] ELSE Stored(c)
  <2>4. PICK rep : /\ rep = [Reported(r, c, entry) EXCEPT !.to = r]
                   /\ reports' = reports \union {rep}
    BY <1>7 DEF Redelivers
  <2>5. rep.by = r /\ rep.second = HasReported(r) /\ rep.status = entry.status
    BY <2>4 DEF Reported
  <2>6. entry \in Entries /\ entry.status # "ABSENT"
    <3>1. CASE r \in Reserves
      <4>1. told[r] \in Reserves /\ held[r][told[r]] # "none"
        BY <1>0, <1>7, <3>1 DEF Redelivers, Aimed, Existing
      <4> QED
        BY <1>0, <3>1, <4>1 DEF Existing, TypeOK
    <3>2. CASE r \notin Reserves
      <4>1. r \in Terminates /\ aim[r] \in Reserves /\ current[aim[r]] # "none"
        BY <1>0, <1>7, <3>2 DEF Redelivers, Aimed, Existing, Requests
      <4> QED
        BY <1>0, <3>2, <4>1, StoredTyped DEF Existing
    <3> QED
      BY <3>1, <3>2
  <2>7. rep.status \in Statuses
    BY <2>5, <2>6 DEF Entries
  <2> QED
    BY <1>7, <2>1, <2>2, <2>3, <2>4, <2>5, <2>7, TellStep DEF Redelivers, Mapped
<1> QED
  BY <1>1, <1>3, <1>4, <1>5, <1>6, <1>7 DEF TaskStep

LEMMA CrashMaps ==
    ASSUME Mapping, Crash
    PROVE  Mapped
<1> DEFINE forgotten == {r \in Requests : task[r] \in RunningTasks}
<1>1. \A r \in Requests : AnswerOf(r)' = IF AnswerOf(r) = "asked" THEN "lost" ELSE AnswerOf(r)
  BY DEF Crash, AnswerOf, Mapping, Replied, TInv, TypeOK
<1>2. \A r \in Requests : OwedTo(r)' = IF r \in forgotten THEN "nothing" ELSE OwedTo(r)
  BY DEF Crash, OwedTo, RunningTasks
<1>3. Promise!Restart(forgotten)
  BY <1>1, <1>2 DEF Crash, Promise!Restart
<1> QED
  BY <1>3 DEF Promise!Next, Mapped

\* Every request is answered once, and only an accepted one gets a result, one, that ends its
\* operation: whatever the reserves, the repeats and the terminates of any number of requesters do.
THEOREM Refines == Spec => KeepsPromises
<1>1. Init => Promise!Init
  <2> SUFFICES ASSUME Init PROVE Promise!Init
    OBVIOUS
  <2>1. \A r \in Requests : AnswerOf(r) = "none" /\ OwedTo(r) = "nothing"
    BY DEF Init, AnswerOf, OwedTo, RunningTasks
  <2> QED
    BY <2>1 DEF Init, Promise!Init
<1>2. Mapping /\ [Next]_vars => [Promise!Next]_(Promise!vars)
  <2> SUFFICES ASSUME Mapping, [Next]_vars PROVE Mapped
    BY DEF Mapped
  <2>1. CASE UNCHANGED <<pc, reply, task, reports, crashed>>
    BY <2>1, UntouchedMaps
  <2> QED
    BY <2>1, RequesterMaps, HandlerMaps, TaskMaps, CrashMaps
       DEF Next, DeliverAnswer, Environment, vars, handlerVars, taskVars
<1> QED
  BY <1>1, <1>2, MappingKept, PTL DEF Spec, KeepsPromises, Promise!Spec

(***************************************************************************)
(* A result is sent once.                                                  *)
(***************************************************************************)
HasEnded == {"delivering", "done", "killed"}

OnceInv ==
    /\ \A r \in Requests : task[r] # "none" => reply[r] = "202"
    /\ \A rep \in reports : rep.by \in Requests /\ task[rep.by] \in HasEnded /\ ~rep.second

\* No request is sent a second result, and none that was refused or failed is sent one: a reserve, a
\* repeat and a terminate are each answered 202 first, have one completion task or one re-delivery,
\* and that reports when it ends and not before (_complete_reserve, _redeliver).
THEOREM ReportedOnce == Spec => [](\A rep \in reports : reply[rep.by] = "202" /\ ~rep.second)
<1> USE DEF OnceInv, taskVars, handlerVars
<1>1. Init => OnceInv
  BY DEF Init
<1>2. Mapping /\ OnceInv /\ [Next]_vars => OnceInv'
  <2> SUFFICES ASSUME Mapping, OnceInv, [Next]_vars PROVE OnceInv'
    OBVIOUS
  <2>0. TypeOK /\ Replied /\ \A rep \in reports : rep.by \in Requests
    BY DEF Mapping, TInv, TypeOK, Reports
  <2>1. CASE UNCHANGED <<reply, task, reports>>
    BY <2>1
  <2>2. ASSUME NEW r \in Requests, NEW code, Replies(r, code), pc[r] # "done", UNCHANGED reports,
               \/ UNCHANGED task
               \/ code = "202" /\ \E next : task' = [task EXCEPT ![r] = next]
        PROVE  OnceInv'
    <3>1. task[r] = "none"
      BY <2>0, <2>2 DEF Replied
    <3> QED
      BY <2>0, <2>2, <3>1 DEF Replies, TypeOK, HasEnded
  <2>3. ASSUME NEW r \in Requests, HandlerStep(r) PROVE OnceInv'
    <3>1. CASE \/ CandidatesFound(r) \/ ReserveAnew(r) \/ TerminateSummary(r)
               \/ \E c \in Reserves : CandidateResolved(r, c)
      BY <2>1, <3>1 DEF CandidatesFound, ReserveAnew, TerminateSummary, CandidateResolved
    <3>2. CASE Unanswered(r) \/ HandlerPostFails(r) \/ ReserveAcked(r) \/ TerminateAcked(r)
      BY <2>2, <3>2 DEF Unanswered, FindFails, TerminateSummaryFails, TerminateNotFound, GivesUp,
         HandlerPostFails, ReserveAcked, TerminateAcked
    <3>3. CASE \E c \in Reserves : Reuse(r, c)
      BY <2>2, <3>3 DEF Reuse, AllResolved
    <3>4. CASE TerminateDispatch(r)
      BY <2>1, <2>2, <3>4
         DEF TerminateDispatch, TerminatedAlready, TerminateProceeds, TerminateRefused
    <3> QED
      BY <2>3, <3>1, <3>2, <3>3, <3>4 DEF HandlerStep
  <2>4. ASSUME NEW r \in Requests, task[r] \in RunningTasks, UNCHANGED <<reply, reports>>,
               NEW next, task' = [task EXCEPT ![r] = next]
        PROVE  OnceInv'
    BY <2>0, <2>4 DEF TypeOK, RunningTasks, HasEnded
  <2>5. ASSUME NEW r \in Requests, task[r] \in RunningTasks, UNCHANGED reply,
               NEW rep, rep.by = r, rep.second = HasReported(r), reports' = reports \union {rep},
               NEW next \in HasEnded, task' = [task EXCEPT ![r] = next]
        PROVE  OnceInv'
    <3>1. ~HasReported(r)
      BY <2>5 DEF HasReported, RunningTasks, HasEnded
    <3> QED
      BY <2>0, <2>5, <3>1 DEF TypeOK, RunningTasks, HasEnded
  <2>6. ASSUME NEW r \in Requests, NEW c, NEW status, NEW lastError, Ends(r, c, status, lastError),
               task[r] \in RunningTasks, UNCHANGED reply
        PROVE  OnceInv'
    <3>1. PICK rep : rep.by = r /\ rep.second = HasReported(r) /\ reports' = reports \union {rep}
      BY <2>6 DEF Ends, Reported
    <3> QED
      BY <2>5, <2>6, <3>1 DEF Ends, HasEnded
  <2>7. ASSUME NEW r \in Requests, TaskStep(r) PROVE OnceInv'
    <3>1. CASE ReserveConfirmed(r) \/ CommitAcked(r)
      BY <2>4, <3>1 DEF ReserveConfirmed, CommitAcked, RunningTasks
    <3>2. CASE Finished(r)
      BY <2>0, <3>2 DEF Finished, TypeOK, HasEnded
    <3>3. CASE ReserveFailed(r) \/ CommitPostFails(r) \/ CommitFailed(r) \/ Committed(r)
      BY <2>6, <3>3 DEF ReserveFailed, CommitPostFails, CommitFailed, Committed, Fails, RunningTasks
    <3>4. CASE ReserveTimesOut(r) \/ CommitTimesOut(r) \/ TerminateEnds(r)
      BY <2>6, <3>4 DEF ReserveTimesOut, CommitTimesOut, WaitTimeout, Fails, TerminateEnds,
         RunningTasks
    <3>5. CASE Redelivers(r)
      <4>1. \E c, entry : reports' = reports \union {[Reported(r, c, entry) EXCEPT !.to = r]}
        BY <3>5 DEF Redelivers
      <4>2. PICK rep : rep.by = r /\ rep.second = HasReported(r) /\ reports' = reports \union {rep}
        BY <4>1 DEF Reported
      <4> QED
        BY <2>5, <3>5, <4>2 DEF Redelivers, RunningTasks, HasEnded
    <3> QED
      BY <2>7, <3>1, <3>2, <3>3, <3>4, <3>5 DEF TaskStep
  <2>8. ASSUME NEW r \in Requests, RequesterStep(r) PROVE OnceInv'
    BY <2>1, <2>8 DEF RequesterStep, StartKeyed, StartUnkeyed, StartTerminate
  <2>9. CASE Crash
    BY <2>0, <2>9 DEF Crash, Replied, RunningTasks, HasEnded
  <2> QED
    BY <2>1, <2>3, <2>7, <2>8, <2>9 DEF Next, vars, DeliverAnswer, Environment
<1>3. OnceInv => \A rep \in reports : reply[rep.by] = "202" /\ ~rep.second
  BY DEF HasEnded
<1> QED
  BY <1>1, <1>2, <1>3, MappingKept, PTL DEF Spec

(***************************************************************************)
(* The course of a connection at the aggregator.                           *)
(***************************************************************************)
Exists(c) == agg[c].lifecycle # "None"
Settled == {"ReserveStart"} \union FailedReservations
Closing(c) == agg[c].lifecycle \in {"Terminating", "Terminated"}
IsCommitted(c) == Exists(c) /\ agg[c].reservation = "ReserveStart"

Early == {"idle", "finding", "resolving"}
Active(r) == pc[r] \notin {"idle", "done"}

\* A reserve is sent once, and its connection exists from its acceptance on.
SentOnce == \A r \in Reserves :
    /\ pc[r] \in Early => <<"reserve", r>> \notin posted \union acked
    /\ <<"reserve", r>> \in posted => <<"reserve", r>> \notin acked
    /\ Exists(r) <=> <<"reserve", r>> \in acked

\* A handler never goes back, and sends its request when it gets to posting.
Advances(q) ==
    /\ pc'[q] \in Early => pc[q] \in Early
    /\ pc'[q] = "idle" => pc[q] = "idle"
    /\ pc[q] = "done" => pc'[q] = "done"
    /\ pc'[q] \notin {"idle", "done"} =>
          \/ Active(q)
          \/ /\ pc[q] = "idle" /\ MayStart(q)
             /\ \A other \in Requests \ {q} : pc'[other] = pc[other]
    /\ <<"reserve", q>> \in posted' \ posted => pc[q] \in Early /\ pc'[q] = "posting"
    /\ <<"terminate", q>> \in posted' \ posted => pc[q] = "refreshed" /\ pc'[q] = "posting"

LEMMA AllAdvance == TInv /\ [Next]_vars => \A q \in Requests : Advances(q)
<1> SUFFICES ASSUME TInv, [Next]_vars PROVE \A q \in Requests : Advances(q)
  OBVIOUS
<1>0. /\ pc \in [Requests -> PCs]
      /\ \A q, r \in Requests : <<"reserve", q>> # <<"terminate", r>>
  BY DEF TInv, TypeOK, PCs
<1> USE DEF externalVars, storeVars, handlerVars, futureVars, taskVars, Early, Active
<1>1. ASSUME posted' \subseteq posted, UNCHANGED pc PROVE \A q \in Requests : Advances(q)
  BY <1>0, <1>1 DEF Advances
<1>2. ASSUME NEW r \in Requests, posted' \subseteq posted,
             NEW next, pc' = [pc EXCEPT ![r] = next],
             \/ next = "done"
             \/ pc[r] = "finding" /\ next \in {"resolving", "refreshed"}
             \/ pc[r] = "idle" /\ MayStart(r) /\ next = "finding"
      PROVE  \A q \in Requests : Advances(q)
  BY <1>0, <1>2 DEF Advances
<1>3. ASSUME NEW r \in Requests, NEW kind, posted' = posted \union {<<kind, r>>},
             pc' = [pc EXCEPT ![r] = "posting"],
             \/ (kind = "reserve" /\ pc[r] = "resolving")
             \/ (kind = "reserve" /\ pc[r] = "idle" /\ MayStart(r))
             \/ (kind = "terminate" /\ pc[r] = "refreshed")
      PROVE  \A q \in Requests : Advances(q)
  BY <1>0, <1>3 DEF Advances
<1>4. ASSUME NEW r \in Requests, RequesterStep(r) PROVE \A q \in Requests : Advances(q)
  <2>1. CASE StartKeyed(r)
    BY <1>2, <2>1 DEF StartKeyed
  <2>2. CASE StartUnkeyed(r)
    BY <1>3, <2>2 DEF StartUnkeyed, Registers
  <2>3. CASE \E c \in Reserves : StartTerminate(r, c)
    BY <1>2, <2>3 DEF StartTerminate
  <2> QED
    BY <1>4, <2>1, <2>2, <2>3 DEF RequesterStep
<1>5. ASSUME NEW r \in Requests, HandlerStep(r) PROVE \A q \in Requests : Advances(q)
  <2>1. CASE CandidatesFound(r) \/ TerminateSummary(r)
    BY <1>2, <2>1 DEF CandidatesFound, TerminateSummary
  <2>2. CASE Unanswered(r) \/ ReserveAcked(r) \/ TerminateAcked(r) \/ HandlerPostFails(r)
    BY <1>2, <2>2 DEF Unanswered, FindFails, TerminateSummaryFails, TerminateNotFound, GivesUp,
       ReserveAcked, TerminateAcked, HandlerPostFails, Replies
  <2>3. CASE ReserveAnew(r)
    BY <1>3, <2>3 DEF ReserveAnew, AllResolved, Registers
  <2>4. CASE \E c \in Reserves : CandidateResolved(r, c)
    BY <1>1, <2>4 DEF CandidateResolved
  <2>5. CASE \E c \in Reserves : Reuse(r, c)
    BY <1>2, <2>5 DEF Reuse, Replies
  <2>6. CASE TerminateDispatch(r)
    <3>1. pc[r] = "refreshed" /\ \E entry : \/ TerminatedAlready(r, entry)
                                           \/ TerminateProceeds(r, entry)
                                           \/ TerminateRefused(r, entry)
      BY <2>6 DEF TerminateDispatch
    <3>2. CASE \E entry : TerminatedAlready(r, entry) \/ TerminateRefused(r, entry)
      BY <1>2, <3>1, <3>2 DEF TerminatedAlready, TerminateRefused, Replies
    <3>3. CASE \E entry : TerminateProceeds(r, entry)
      BY <1>3, <3>1, <3>3 DEF TerminateProceeds, Registers
    <3> QED
      BY <3>1, <3>2, <3>3
  <2> QED
    BY <1>5, <2>1, <2>2, <2>3, <2>4, <2>5, <2>6 DEF HandlerStep
<1>6. ASSUME NEW r \in Requests, TaskStep(r) PROVE \A q \in Requests : Advances(q)
  <2>1. CASE ReserveConfirmed(r)
    BY <2>1 DEF ReserveConfirmed, Registers, Advances
  <2>2. CASE ~ReserveConfirmed(r)
    BY <1>1, <1>6, <2>2
       DEF TaskStep, ReserveFailed, ReserveTimesOut, CommitAcked, CommitPostFails,
           Committed, CommitFailed, CommitTimesOut, WaitTimeout, Fails, TerminateEnds, Finished,
           Redelivers
  <2> QED
    BY <1>6, <2>1, <2>2 DEF TaskStep
<1>7. CASE Environment
  BY <1>1, <1>7 DEF Environment, Accepts, Refuses, Progresses, Answers, ErrorEvent, Terminated
<1>8. CASE Crash
  BY <1>8 DEF Crash, Advances
<1> QED
  BY <1>1, <1>4, <1>5, <1>6, <1>7, <1>8 DEF Next, DeliverAnswer, vars

\* A connection that exists stays, a committed or failed reservation stays as it is, and what is
\* being terminated does not come back.
Evolves(c) == Exists(c) =>
    /\ Exists(c)'
    /\ agg'[c].lifecycle = "Created" => agg[c].lifecycle = "Created"
    /\ agg[c].reservation \in Settled => agg'[c].reservation = agg[c].reservation

\* Only the aggregator changes its records, accepts calls and sends answers.
LEMMA OnlyEnvironment == [Next]_vars => Environment \/ UNCHANGED <<agg, acked, net>>
<1> SUFFICES ASSUME [Next]_vars, ~Environment PROVE UNCHANGED <<agg, acked, net>>
  OBVIOUS
<1> USE DEF externalVars
<1>1. ASSUME NEW r \in Requests, RequesterStep(r) PROVE UNCHANGED <<agg, acked, net>>
  BY <1>1 DEF RequesterStep, StartKeyed, StartUnkeyed, StartTerminate, Registers
<1>2. ASSUME NEW r \in Requests, HandlerStep(r) PROVE UNCHANGED <<agg, acked, net>>
  BY <1>2 DEF HandlerStep, CandidatesFound, Unanswered, FindFails, TerminateSummaryFails,
     TerminateNotFound, GivesUp, CandidateResolved, Reuse, ReserveAnew,
      ReserveAcked, TerminateSummary, TerminateDispatch, TerminatedAlready, TerminateProceeds,
      TerminateRefused, TerminateAcked, HandlerPostFails, Registers
<1>3. ASSUME NEW r \in Requests, TaskStep(r) PROVE UNCHANGED <<agg, acked, net>>
  BY <1>3 DEF TaskStep, ReserveConfirmed, ReserveFailed, ReserveTimesOut, CommitAcked, CommitPostFails,
      Committed, CommitFailed, CommitTimesOut, WaitTimeout, TerminateEnds, Finished, Redelivers,
      Registers
<1> QED
  BY <1>1, <1>2, <1>3 DEF Next, DeliverAnswer, Crash, vars

\* What a step of the aggregator does to the connections.
AggregatorStep ==
    \/ UNCHANGED <<agg, acked, net>> /\ posted' \subseteq posted
    \/ \E c \in Reserves :
          /\ posted' = posted \ {<<"reserve", c>>} /\ acked' = acked \union {<<"reserve", c>>}
          /\ <<"reserve", c>> \in posted /\ net' = net
          /\ agg'[c].lifecycle = "Created" /\ agg'[c].reservation = "ReserveChecking"
          /\ \A d \in Reserves \ {c} : agg'[d] = agg[d]
    \/ \E c \in Reserves :
          /\ agg[c].lifecycle = "Created" /\ agg[c].reservation \in OpenReservations
          /\ \A d \in Reserves : agg'[d].lifecycle = agg[d].lifecycle
          /\ \A d \in Reserves \ {c} : agg'[d].reservation = agg[d].reservation
          /\ posted' \subseteq posted
          /\ \/ net' = net
             \/ \E call \in Calls, kind \in Kinds :
                   /\ net' = net \union {<<call, kind>>}
                   /\ call[1] = "commit" /\ kind = "confirmed" =>
                         call[2] = c /\ agg'[c].reservation = "ReserveStart"
          /\ \/ acked' = acked
             \/ \E d \in Reserves : acked' = acked \union {<<"commit", d>>}
    \/ \E t \in Terminates :
          /\ aim[t] \in Reserves
          /\ agg[aim[t]].lifecycle \in {"Created", "Terminating"}
          /\ agg'[aim[t]].lifecycle \in {"Terminating", "Terminated"}
          /\ \A d \in Reserves : agg'[d].reservation = agg[d].reservation
          /\ \A d \in Reserves \ {aim[t]} : agg'[d].lifecycle = agg[d].lifecycle
          /\ posted' \subseteq posted /\ acked' \subseteq acked \union {<<"terminate", t>>}
          /\ acked \subseteq acked'
          /\ net' \subseteq net \union {<<<<"terminate", t>>, "confirmed">>}

LEMMA AggregatorSteps == TInv /\ Environment => AggregatorStep
<1> SUFFICES ASSUME TInv, Environment PROVE AggregatorStep
  OBVIOUS
<1>0. TypeOK /\ Aimed
  BY DEF TInv
<1>1. ASSUME NEW call \in posted, Accepts(call) PROVE AggregatorStep
  <2>0. /\ call \in Calls
        /\ posted' = posted \ {call} /\ acked' = acked \union {call} /\ net' = net
    BY <1>0, <1>1 DEF Accepts, TypeOK
  <2>1. CASE call[1] = "reserve"
    <3>1. PICK c \in Reserves : call = <<"reserve", c>>
      BY <2>0, <2>1 DEF Calls
    <3>2. agg' = [agg EXCEPT ![c] =
             [lifecycle |-> "Created", reservation |-> "ReserveChecking", errors |-> FALSE]]
      BY <1>1, <3>1 DEF Accepts
    <3>3. /\ agg'[c].lifecycle = "Created" /\ agg'[c].reservation = "ReserveChecking"
          /\ \A d \in Reserves \ {c} : agg'[d] = agg[d]
      BY <1>0, <3>2 DEF TypeOK
    <3> QED
      BY <2>0, <3>1, <3>3 DEF AggregatorStep
  <2>2. CASE call[1] = "commit"
    <3>1. PICK c \in Reserves : call = <<"commit", c>>
      BY <2>0, <2>2 DEF Calls
    <3>2. Moves(c, "ReserveHeld", "ReserveCommitting")
      BY <1>1, <3>1 DEF Accepts
    <3>3. /\ agg[c].lifecycle = "Created" /\ agg[c].reservation \in OpenReservations
          /\ \A d \in Reserves : agg'[d].lifecycle = agg[d].lifecycle
          /\ \A d \in Reserves \ {c} : agg'[d].reservation = agg[d].reservation
      BY <1>0, <3>2 DEF TypeOK, AggRecords, Moves, OpenReservations
    <3> QED
      BY <2>0, <3>1, <3>3 DEF AggregatorStep
  <2>3. CASE call[1] = "terminate"
    <3>1. PICK t \in Terminates : call = <<"terminate", t>>
      BY <2>0, <2>3 DEF Calls
    <3>2. aim[t] \in Reserves
      BY <1>0, <3>1 DEF Aimed
    <3>3. /\ agg[aim[t]].lifecycle \in {"Created", "Terminating"}
          /\ agg' = [agg EXCEPT ![aim[t]].lifecycle = "Terminating"]
      BY <1>1, <3>1 DEF Accepts
    <3>4. /\ agg'[aim[t]].lifecycle \in {"Terminating", "Terminated"}
          /\ \A d \in Reserves : agg'[d].reservation = agg[d].reservation
          /\ \A d \in Reserves \ {aim[t]} : agg'[d].lifecycle = agg[d].lifecycle
      <4>1. PICK c \in Reserves : c = aim[t] /\ agg' = [agg EXCEPT ![c].lifecycle = "Terminating"]
        BY <3>2, <3>3
      <4>2. \A d \in Reserves :
               /\ agg'[d].reservation = agg[d].reservation
               /\ agg'[d].lifecycle = IF d = c THEN "Terminating" ELSE agg[d].lifecycle
        BY <1>0, <4>1 DEF TypeOK, AggRecords
      <4> QED
        BY <4>1, <4>2
    <3> QED
      BY <2>0, <3>1, <3>2, <3>3, <3>4 DEF AggregatorStep
  <2> QED
    BY <2>0, <2>1, <2>2, <2>3 DEF Calls
<1>2. ASSUME NEW c \in Reserves, NEW from \in OpenReservations, NEW to, Moves(c, from, to),
             NEW call \in Calls, NEW kind \in Kinds, Answers(call, kind),
             call[1] = "commit" /\ kind = "confirmed" => call[2] = c /\ to = "ReserveStart"
      PROVE  AggregatorStep
  <2>1. /\ agg[c].lifecycle = "Created" /\ agg[c].reservation \in OpenReservations
        /\ \A d \in Reserves : agg'[d].lifecycle = agg[d].lifecycle
        /\ \A d \in Reserves \ {c} : agg'[d].reservation = agg[d].reservation
        /\ agg'[c].reservation = to
    <3>1. /\ agg[c].lifecycle = "Created" /\ agg[c].reservation \in OpenReservations
          /\ agg' = [agg EXCEPT ![c].reservation = to]
      BY <1>2 DEF Moves
    <3>2. \A d \in Reserves :
             /\ agg'[d].lifecycle = agg[d].lifecycle
             /\ agg'[d].reservation = IF d = c THEN to ELSE agg[d].reservation
      BY <1>0, <3>1 DEF TypeOK, AggRecords
    <3> QED
      BY <3>1, <3>2
  <2>2. net' = net \union {<<call, kind>>} /\ UNCHANGED <<posted, acked>>
    BY <1>2 DEF Answers
  <2> QED
    BY <1>2, <2>1, <2>2 DEF AggregatorStep
<1>3. ASSUME NEW c \in Reserves, Progresses(c) PROVE AggregatorStep
  BY <1>2, <1>3, CallsOf DEF Progresses, OpenReservations, Kinds
<1>4. ASSUME NEW c \in Reserves, ErrorEvent(c) PROVE AggregatorStep
  <2>1. /\ agg[c].lifecycle = "Created" /\ agg[c].reservation \in OpenReservations
        /\ \A d \in Reserves : agg'[d].lifecycle = agg[d].lifecycle
        /\ \A d \in Reserves \ {c} : agg'[d].reservation = agg[d].reservation
        /\ UNCHANGED <<posted, acked, net>>
    BY <1>0, <1>4 DEF ErrorEvent, TypeOK, AggRecords
  <2> QED
    BY <2>1 DEF AggregatorStep
<1>5. ASSUME NEW t \in Terminates, Terminated(t) PROVE AggregatorStep
  <2>1. aim[t] \in Reserves
    BY <1>0, <1>5 DEF Terminated, Aimed
  <2>2. /\ agg[aim[t]].lifecycle = "Terminating"
        /\ agg'[aim[t]].lifecycle = "Terminated"
        /\ \A d \in Reserves : agg'[d].reservation = agg[d].reservation
        /\ \A d \in Reserves \ {aim[t]} : agg'[d].lifecycle = agg[d].lifecycle
        /\ UNCHANGED <<posted, acked>>
        /\ net' = net \union {<<<<"terminate", t>>, "confirmed">>}
    <3>1. /\ agg[aim[t]].lifecycle = "Terminating" /\ UNCHANGED <<posted, acked>>
          /\ net' = net \union {<<<<"terminate", t>>, "confirmed">>}
      BY <1>5 DEF Terminated, Answers
    <3>2. PICK c \in Reserves : c = aim[t] /\ agg' = [agg EXCEPT ![c].lifecycle = "Terminated"]
      BY <1>5, <2>1 DEF Terminated
    <3>3. \A d \in Reserves :
             /\ agg'[d].reservation = agg[d].reservation
             /\ agg'[d].lifecycle = IF d = c THEN "Terminated" ELSE agg[d].lifecycle
      BY <1>0, <3>2 DEF TypeOK, AggRecords
    <3> QED
      BY <3>1, <3>2, <3>3
  <2> QED
    BY <2>1, <2>2 DEF AggregatorStep
<1>6. ASSUME NEW call \in posted, Refuses(call) PROVE AggregatorStep
  BY <1>6 DEF Refuses, AggregatorStep
<1> QED
  BY <1>1, <1>3, <1>4, <1>5, <1>6 DEF Environment

LEMMA Evolution ==
    ASSUME TInv, SentOnce, [Next]_vars
    PROVE  \A c \in Reserves : Evolves(c)
<1> USE DEF Evolves, Exists
<1>1. CASE UNCHANGED agg
  BY <1>1
<1>2. CASE AggregatorStep
  BY <1>2 DEF AggregatorStep, SentOnce, Settled, OpenReservations, FailedReservations
<1> QED
  BY <1>1, <1>2, OnlyEnvironment, AggregatorSteps

LEMMA SentOnceStep == TInv /\ SentOnce /\ [Next]_vars => SentOnce'
<1> SUFFICES ASSUME TInv, SentOnce, [Next]_vars, NEW r \in Reserves
             PROVE  (/\ pc[r] \in Early => <<"reserve", r>> \notin posted \union acked
                     /\ <<"reserve", r>> \in posted => <<"reserve", r>> \notin acked
                     /\ Exists(r) <=> <<"reserve", r>> \in acked)'
  BY DEF SentOnce
<1>1. Advances(r) /\ r \in Requests
  BY AllAdvance DEF Requests
<1>2. CASE UNCHANGED <<agg, acked>>
  BY <1>1, <1>2 DEF SentOnce, Advances, Exists, Early
<1>3. CASE Environment
  <2>1. UNCHANGED pc /\ AggregatorStep
    BY <1>3, AggregatorSteps DEF Environment, handlerVars
  <2> QED
    BY <2>1 DEF AggregatorStep, SentOnce, Exists
<1> QED
  BY <1>2, <1>3, OnlyEnvironment

\* The aggregator's record of a connection is what it was in a snapshot, or a later one.
Follows(snapshot, c) ==
    /\ Exists(c)
    /\ agg[c].lifecycle = "Created" => snapshot.lifecycle = "Created"
    /\ snapshot.reservation \in Settled => agg[c].reservation = snapshot.reservation

\* Whatever a handler has seen or was told of exists.
Sighted ==
    /\ \A r \in Requests, c \in Reserves :
          view[r][c].lifecycle # "None" => Follows(view[r][c], c)
    /\ \A t \in Terminates : pc[t] = "refreshed" => view[t][aim[t]].lifecycle # "None"
    /\ \A r \in Reserves : told[r] \in Reserves => Exists(told[r])
    /\ \A t \in Terminates : aim[t] \in Reserves => Exists(aim[t])

LEMMA ViewSteps ==
    ASSUME TInv, [Next]_vars, NEW r \in Requests, NEW c \in Reserves
    PROVE  \/ view'[r][c] = view[r][c]
           \/ view'[r][c].lifecycle = "None"
           \/ view'[r][c] = agg[c] /\ agg' = agg
<1> DEFINE Changes == \/ view'[r][c] = view[r][c]
                      \/ view'[r][c].lifecycle = "None"
                      \/ view'[r][c] = agg[c] /\ agg' = agg
<1>0. view \in [Requests -> [Reserves -> AggRecords]] /\ Nothing.lifecycle = "None"
  BY DEF TInv, TypeOK, Nothing
<1> USE DEF externalVars, handlerVars
<1>1. ASSUME NEW q \in Requests, NEW code, Replies(q, code) PROVE Changes
  BY <1>0, <1>1 DEF Replies
<1>2. ASSUME NEW q \in Requests, HandlerStep(q) PROVE Changes
  <2>1. CASE CandidatesFound(q)
    BY <1>0, <2>1 DEF CandidatesFound
  <2>2. CASE TerminateSummary(q)
    BY <1>0, <2>2 DEF TerminateSummary
  <2>3. CASE ReserveAnew(q) \/ \E d \in Reserves : CandidateResolved(q, d)
    BY <2>3 DEF ReserveAnew, CandidateResolved
  <2>4. CASE Unanswered(q) \/ ReserveAcked(q) \/ TerminateAcked(q) \/ HandlerPostFails(q)
    BY <1>1, <2>4 DEF Unanswered, FindFails, TerminateSummaryFails, TerminateNotFound, GivesUp,
       ReserveAcked, TerminateAcked, HandlerPostFails
  <2>5. CASE \E d \in Reserves : Reuse(q, d)
    BY <1>1, <2>5 DEF Reuse
  <2>6. CASE TerminateDispatch(q)
    BY <1>1, <2>6 DEF TerminateDispatch, TerminatedAlready, TerminateRefused, TerminateProceeds
  <2> QED
    BY <1>2, <2>1, <2>2, <2>3, <2>4, <2>5, <2>6 DEF HandlerStep
<1>3. CASE Crash
  BY <1>0, <1>3 DEF Crash
<1>4. CASE UNCHANGED view
  BY <1>4
<1>5. ASSUME NEW q \in Requests, RequesterStep(q) \/ TaskStep(q) PROVE UNCHANGED view
  <2>1. CASE RequesterStep(q)
    BY <2>1 DEF RequesterStep, StartKeyed, StartUnkeyed, StartTerminate
  <2>2. CASE TaskStep(q)
    BY <2>2 DEF TaskStep, ReserveConfirmed, ReserveFailed, ReserveTimesOut, CommitAcked,
        CommitPostFails, Committed, CommitFailed, CommitTimesOut, WaitTimeout, Fails, TerminateEnds,
        Finished, Redelivers
  <2> QED
    BY <1>5, <2>1, <2>2
<1> QED
  BY <1>2, <1>3, <1>4, <1>5 DEF Next, DeliverAnswer, Environment, vars

\* Who is told a connection, and which one a terminate is about.
LEMMA ToldSteps ==
    ASSUME TInv, [Next]_vars, NEW r \in Reserves
    PROVE  \/ told'[r] = told[r]
           \/ told'[r] = r /\ ReserveAcked(r)
           \/ told'[r] \in Reserves /\ Reuse(r, told'[r])
<1> DEFINE Changes == \/ told'[r] = told[r]
                      \/ told'[r] = r /\ ReserveAcked(r)
                      \/ told'[r] \in Reserves /\ Reuse(r, told'[r])
<1>0. told \in [Reserves -> Reserves \union {NoRequest}]
  BY DEF TInv, TypeOK
<1> USE DEF handlerVars
<1>1. ASSUME NEW q \in Requests, HandlerStep(q) PROVE Changes
  <2>1. CASE ReserveAcked(q)
    BY <1>0, <2>1 DEF ReserveAcked
  <2>2. ASSUME NEW c \in Reserves, Reuse(q, c) PROVE Changes
    <3>1. q \in Reserves /\ told' = [told EXCEPT ![q] = c]
      BY <2>2 DEF Reuse, AllResolved, Reserves
    <3> QED
      BY <1>0, <2>2, <3>1
  <2>3. CASE \/ CandidatesFound(q) \/ Unanswered(q) \/ ReserveAnew(q) \/ TerminateSummary(q)
             \/ TerminateDispatch(q) \/ TerminateAcked(q) \/ HandlerPostFails(q)
             \/ \E d \in Reserves : CandidateResolved(q, d)
    BY <2>3 DEF CandidatesFound, Unanswered, FindFails, TerminateSummaryFails, TerminateNotFound,
       GivesUp, ReserveAnew, TerminateSummary, TerminateDispatch,
        TerminatedAlready, TerminateProceeds, TerminateRefused, TerminateAcked, HandlerPostFails,
        CandidateResolved
  <2> QED
    BY <1>1, <2>1, <2>2, <2>3 DEF HandlerStep
<1>2. ASSUME NEW q \in Requests, RequesterStep(q) \/ TaskStep(q) PROVE UNCHANGED told
  <2>1. CASE RequesterStep(q)
    BY <2>1 DEF RequesterStep, StartKeyed, StartUnkeyed, StartTerminate
  <2>2. CASE TaskStep(q)
    BY <2>2 DEF TaskStep, ReserveConfirmed, ReserveFailed, ReserveTimesOut, CommitAcked,
        CommitPostFails, Committed, CommitFailed, CommitTimesOut, WaitTimeout, Fails, TerminateEnds,
        Finished, Redelivers
  <2> QED
    BY <1>2, <2>1, <2>2
<1> QED
  BY <1>1, <1>2 DEF Next, DeliverAnswer, Environment, Crash, vars

LEMMA AimSteps ==
    ASSUME TInv, [Next]_vars, NEW t \in Terminates
    PROVE  \/ aim'[t] = aim[t]
           \/ /\ aim'[t] \in Reserves /\ \E r \in Reserves : told[r] = aim'[t]
              /\ pc[t] = "idle" /\ pc'[t] = "finding" /\ posted' = posted /\ acked' = acked
<1>0. aim \in [Terminates -> Reserves \union {NoRequest}] /\ pc \in [Requests -> PCs]
  BY DEF TInv, TypeOK, PCs
<1> USE DEF externalVars, handlerVars
<1>1. ASSUME NEW q \in Requests, HandlerStep(q) \/ TaskStep(q) PROVE UNCHANGED aim
  <2>1. CASE HandlerStep(q)
    BY <2>1 DEF HandlerStep, CandidatesFound, Unanswered, FindFails, TerminateSummaryFails,
       TerminateNotFound, GivesUp, CandidateResolved, Reuse, ReserveAnew,
        ReserveAcked, TerminateSummary, TerminateDispatch, TerminatedAlready, TerminateProceeds,
        TerminateRefused, TerminateAcked, HandlerPostFails
  <2>2. CASE TaskStep(q)
    BY <2>2 DEF TaskStep, ReserveConfirmed, ReserveFailed, ReserveTimesOut, CommitAcked,
        CommitPostFails, Committed, CommitFailed, CommitTimesOut, WaitTimeout, Fails, TerminateEnds,
        Finished, Redelivers
  <2> QED
    BY <1>1, <2>1, <2>2
<1>2. ASSUME NEW q \in Requests, StartKeyed(q) \/ StartUnkeyed(q) PROVE UNCHANGED aim
  BY <1>2 DEF StartKeyed, StartUnkeyed
<1>3. ASSUME NEW q \in Requests, NEW c \in Reserves, StartTerminate(q, c), q = t
      PROVE  /\ aim'[t] \in Reserves /\ \E r \in Reserves : told[r] = aim'[t]
             /\ pc[t] = "idle" /\ pc'[t] = "finding" /\ posted' = posted /\ acked' = acked
  BY <1>0, <1>3 DEF StartTerminate
<1>4. ASSUME NEW q \in Requests, NEW c \in Reserves, StartTerminate(q, c), q # t
      PROVE  aim'[t] = aim[t]
  BY <1>0, <1>4 DEF StartTerminate
<1>5. ASSUME NEW q \in Requests, RequesterStep(q)
      PROVE  \/ aim'[t] = aim[t]
             \/ /\ aim'[t] \in Reserves /\ \E r \in Reserves : told[r] = aim'[t]
                /\ pc[t] = "idle" /\ pc'[t] = "finding" /\ posted' = posted /\ acked' = acked
  BY <1>2, <1>3, <1>4, <1>5 DEF RequesterStep
<1> QED
  BY <1>1, <1>5 DEF Next, DeliverAnswer, Environment, Crash, vars

\* A terminate that has just refreshed.
LEMMA RefreshSteps ==
    ASSUME TInv, [Next]_vars, NEW t \in Terminates, pc'[t] = "refreshed"
    PROVE  \/ pc[t] = "refreshed" /\ view'[t] = view[t] /\ aim'[t] = aim[t]
           \/ TerminateSummary(t)
<1> DEFINE Remains == pc[t] = "refreshed" /\ view'[t] = view[t] /\ aim'[t] = aim[t]
<1>0. /\ aim \in [Terminates -> Reserves \union {NoRequest}] /\ pc \in [Requests -> PCs]
      /\ view \in [Requests -> [Reserves -> AggRecords]] /\ t \in Requests
  BY DEF TInv, TypeOK, PCs, Requests
<1> USE DEF handlerVars
<1>1. ASSUME UNCHANGED <<pc, view, aim>> PROVE Remains
  BY <1>1
<1>2. ASSUME NEW q \in Requests, NEW next, next # "refreshed", pc' = [pc EXCEPT ![q] = next],
             UNCHANGED aim, view' = view \/ \E new : view' = [view EXCEPT ![q] = new]
      PROVE  Remains
  BY <1>0, <1>2
<1>3. ASSUME NEW q \in Requests, HandlerStep(q) PROVE Remains \/ TerminateSummary(t)
  <2>1. CASE CandidatesFound(q) \/ ReserveAnew(q)
    BY <1>2, <2>1 DEF CandidatesFound, ReserveAnew
  <2>2. CASE Unanswered(q) \/ ReserveAcked(q) \/ TerminateAcked(q) \/ HandlerPostFails(q)
    BY <1>2, <2>2 DEF Unanswered, FindFails, TerminateSummaryFails, TerminateNotFound, GivesUp,
       ReserveAcked, TerminateAcked, HandlerPostFails, Replies
  <2>3. CASE \E d \in Reserves : CandidateResolved(q, d)
    BY <1>1, <2>3 DEF CandidateResolved
  <2>4. CASE \E d \in Reserves : Reuse(q, d)
    <3>1. Replies(q, "202") /\ UNCHANGED aim
      BY <2>4 DEF Reuse
    <3> QED
      BY <1>2, <3>1 DEF Replies
  <2>5. CASE TerminateSummary(q)
    <3>1. CASE q = t
      BY <2>5, <3>1
    <3>2. CASE q # t
      BY <1>0, <2>5, <3>2 DEF TerminateSummary
    <3> QED
      BY <3>1, <3>2
  <2>6. CASE TerminateDispatch(q)
    <3>1. PICK entry : TerminatedAlready(q, entry) \/ TerminateProceeds(q, entry) \/ TerminateRefused(q, entry)
      BY <2>6 DEF TerminateDispatch
    <3> QED
      BY <1>2, <3>1 DEF TerminatedAlready, TerminateProceeds, TerminateRefused, Replies
  <2> QED
    BY <1>3, <2>1, <2>2, <2>3, <2>4, <2>5, <2>6 DEF HandlerStep
<1>4. ASSUME NEW q \in Requests, RequesterStep(q) PROVE Remains
  <2>1. CASE StartKeyed(q) \/ StartUnkeyed(q)
    BY <1>2, <2>1 DEF StartKeyed, StartUnkeyed
  <2>2. CASE \E c \in Reserves : StartTerminate(q, c)
    BY <1>0, <2>2 DEF StartTerminate
  <2> QED
    BY <1>4, <2>1, <2>2 DEF RequesterStep
<1>5. ASSUME NEW q \in Requests, TaskStep(q) PROVE Remains
  BY <1>1, <1>5 DEF TaskStep, ReserveConfirmed, ReserveFailed, ReserveTimesOut, CommitAcked,
     CommitPostFails, Committed, CommitFailed, CommitTimesOut, WaitTimeout, Fails, TerminateEnds,
     Finished, Redelivers
<1>6. CASE Crash
  BY <1>0, <1>6 DEF Crash
<1> QED
  BY <1>1, <1>3, <1>4, <1>5, <1>6 DEF Next, DeliverAnswer, Environment, vars

LEMMA SightedStep == TInv /\ SentOnce /\ Sighted /\ [Next]_vars => Sighted'
<1> SUFFICES ASSUME TInv, SentOnce, Sighted, [Next]_vars PROVE Sighted'
  OBVIOUS
<1>0. TypeOK /\ Aimed
  BY DEF TInv
<1>1. \A c \in Reserves : Exists(c) => Exists(c)'
  BY Evolution DEF Evolves
<1>2. ASSUME NEW r \in Requests, NEW c \in Reserves, view'[r][c].lifecycle # "None"
      PROVE  Follows(view[r][c], c)'
  <2>1. CASE view'[r][c] = view[r][c]
    <3>1. Follows(view[r][c], c) /\ Evolves(c)
      BY <1>2, <2>1, Evolution DEF Sighted
    <3> QED
      BY <2>1, <3>1 DEF Follows, Evolves
  <2>2. CASE view'[r][c] = agg[c] /\ agg' = agg
    BY <1>2, <2>2 DEF Follows, Exists
  <2> QED
    BY <1>2, <2>1, <2>2, ViewSteps
<1>3. ASSUME NEW t \in Terminates, pc'[t] = "refreshed"
      PROVE  view'[t][aim'[t]].lifecycle # "None"
  <2>1. CASE pc[t] = "refreshed" /\ view'[t] = view[t] /\ aim'[t] = aim[t]
    BY <2>1 DEF Sighted
  <2>2. CASE TerminateSummary(t)
    <3>1. aim[t] \in Reserves /\ t \in Requests /\ aim' = aim
      BY <1>0, <2>2 DEF TerminateSummary, Aimed, Requests
    <3>2. view'[t][aim[t]] = agg[aim[t]]
      BY <1>0, <2>2, <3>1 DEF TerminateSummary, TypeOK
    <3> QED
      BY <3>1, <3>2 DEF Sighted, Exists
  <2> QED
    BY <1>3, <2>1, <2>2, RefreshSteps
<1>4. ASSUME NEW r \in Reserves, told'[r] \in Reserves
      PROVE  Exists(told[r])'
  <2>1. CASE told'[r] = told[r]
    BY <1>1, <1>4, <2>1 DEF Sighted, Exists
  <2>2. CASE told'[r] = r /\ ReserveAcked(r)
    <3>1. Exists(r)
      BY <2>2 DEF ReserveAcked, SentOnce
    <3> QED
      BY <1>1, <2>2, <3>1 DEF Exists
  <2>3. CASE told'[r] \in Reserves /\ Reuse(r, told'[r])
    <3>1. PICK c \in Reserves : c = told'[r] /\ view[r][c].lifecycle # "None"
      BY <2>3 DEF Reuse, Reusable, Live, Candidates
    <3>2. Exists(c)
      BY <3>1 DEF Sighted, Follows, Requests
    <3> QED
      BY <1>1, <3>1, <3>2 DEF Exists
  <2> QED
    BY <2>1, <2>2, <2>3, ToldSteps
<1>5. ASSUME NEW t \in Terminates, aim'[t] \in Reserves
      PROVE  Exists(aim[t])'
  <2>1. Exists(aim'[t])
    BY <1>5, AimSteps DEF Sighted
  <2> QED
    BY <1>1, <1>5, <2>1 DEF Exists
<1> QED
  BY <1>2, <1>3, <1>4, <1>5 DEF Sighted

(***************************************************************************)
(* What a status says of the connection.                                   *)
(***************************************************************************)
Confirmed(c) == <<<<"commit", c>>, "confirmed">> \in net \/ future[<<"commit", c>>] = "confirmed"

\* A commit is confirmed, and a reservation shown as RESERVED or TERMINATED, only when the aggregator
\* has come that far.
Warranted ==
    /\ \A c \in Reserves : Confirmed(c) => IsCommitted(c)
    /\ \A c \in Reserves, m \in Makers :
          /\ objects[c][m].status = "RESERVED" => IsCommitted(c)
          /\ objects[c][m].status = "TERMINATED" => Closing(c)
    /\ \A t \in Terminates :
          /\ pc[t] = "idle" => <<"terminate", t>> \notin posted \union acked
          /\ <<"terminate", t>> \in acked => Closing(aim[t])
          /\ task[t] = "terminating" => <<"terminate", t>> \in acked

LEMMA RefreshedMeans ==
    ASSUME NEW c, NEW snapshot \in AggRecords, NEW errors \in BOOLEAN
    PROVE  /\ RefreshedEntry(c, snapshot, errors).status = "RESERVED"
                 => snapshot.reservation = "ReserveStart"
           /\ RefreshedEntry(c, snapshot, errors).status = "TERMINATED"
                 => snapshot.lifecycle = "Terminated"
           /\ RefreshedEntry(c, snapshot, errors).status = "FAILED"
                 => errors \/ snapshot.reservation \in FailedReservations
<1>1. RefreshedEntry(c, snapshot, errors).status =
        MapNsiStates([lifecycle |-> snapshot.lifecycle, provision |-> "Released",
                      reservation |-> snapshot.reservation, active |-> FALSE], errors)
  BY DEF RefreshedEntry
<1> QED
  BY <1>1 DEF MapNsiStates, AggRecords, ReservationStates, FailedReservations, OpenReservations,
              EndedLifecycles

LEMMA FutureSteps ==
    ASSUME TInv, [Next]_vars, NEW c \in Reserves, future'[<<"commit", c>>] = "confirmed"
    PROVE  Confirmed(c)
<1> DEFINE mine == <<"commit", c>>
<1>0. /\ future \in [Calls -> Kinds \union {"none", "waiting", "cancelled"}]
      /\ mine \in Calls
  BY CallsOf DEF TInv, TypeOK
<1> HIDE DEF mine
<1> SUFFICES ASSUME future'[mine] = "confirmed"
             PROVE  <<mine, "confirmed">> \in net \/ future[mine] = "confirmed"
  BY DEF Confirmed, mine
<1> USE DEF futureVars
<1>1. CASE UNCHANGED future
  BY <1>1
<1>2. ASSUME NEW call, Registers(call) PROVE future[mine] = "confirmed"
  BY <1>0, <1>2 DEF Registers
<1>3. ASSUME NEW call, future' = [future EXCEPT ![call] = Cancelled(@)]
      PROVE  future[mine] = "confirmed"
  BY <1>0, <1>3 DEF Cancelled
<1>4. ASSUME NEW q \in Requests, HandlerStep(q) PROVE future[mine] = "confirmed"
  BY <1>1, <1>2, <1>3, <1>4 DEF HandlerStep, CandidatesFound, Unanswered, FindFails,
     TerminateSummaryFails, TerminateNotFound, GivesUp, CandidateResolved, Reuse,
     ReserveAnew, ReserveAcked, TerminateSummary, TerminateDispatch, TerminatedAlready,
     TerminateProceeds, TerminateRefused, TerminateAcked, HandlerPostFails, PostFailed
<1>5. ASSUME NEW q \in Requests, TaskStep(q) PROVE future[mine] = "confirmed"
  BY <1>1, <1>2, <1>3, <1>5 DEF TaskStep, ReserveConfirmed, ReserveFailed, ReserveTimesOut,
     CommitAcked, CommitPostFails, PostFailed, Committed, CommitFailed, CommitTimesOut, WaitTimeout,
     TerminateEnds, Finished, Redelivers
<1>6. ASSUME NEW q \in Requests, RequesterStep(q) PROVE future[mine] = "confirmed"
  BY <1>1, <1>2, <1>6 DEF RequesterStep, StartKeyed, StartUnkeyed, StartTerminate
<1>7. ASSUME NEW call, NEW kind, DeliverAnswer(call, kind)
      PROVE  <<mine, "confirmed">> \in net \/ future[mine] = "confirmed"
  <2>1. CASE call = mine
    BY <1>0, <1>7, <2>1 DEF DeliverAnswer
  <2>2. CASE call # mine
    BY <1>0, <1>7, <2>2 DEF DeliverAnswer
  <2> QED
    BY <2>1, <2>2
<1>8. CASE Crash
  BY <1>0, <1>8 DEF Crash
<1> QED
  BY <1>1, <1>4, <1>5, <1>6, <1>7, <1>8 DEF Next, Environment, vars

LEMMA ConfirmedStep ==
    ASSUME TInv, SentOnce, Warranted, [Next]_vars, NEW c \in Reserves, Confirmed(c)'
    PROVE  IsCommitted(c)'
<1>1. Confirmed(c) => IsCommitted(c)'
  <2>1. Confirmed(c) => IsCommitted(c) /\ Evolves(c)
    BY Evolution DEF Warranted
  <2> QED
    BY <2>1 DEF IsCommitted, Evolves, Settled, Exists
<1>2. CASE future'[<<"commit", c>>] = "confirmed"
  BY <1>1, <1>2, FutureSteps
<1>3. CASE <<<<"commit", c>>, "confirmed">> \in net' \ net
  <2>1. TInv /\ Environment
    BY <1>3, OnlyEnvironment
  <2>2. AggregatorStep
    BY <2>1, AggregatorSteps
  <2>3. \A t : <<<<"commit", c>>, "confirmed">> # <<<<"terminate", t>>, "confirmed">>
    OBVIOUS
  <2>4. PICK d \in Reserves, call \in Calls, kind \in Kinds :
           /\ agg[d].lifecycle = "Created"
           /\ \A e \in Reserves : agg'[e].lifecycle = agg[e].lifecycle
           /\ net' = net \union {<<call, kind>>}
           /\ call[1] = "commit" /\ kind = "confirmed" =>
                 call[2] = d /\ agg'[d].reservation = "ReserveStart"
    BY <1>3, <2>2, <2>3 DEF AggregatorStep
  <2>5. <<<<"commit", c>>, "confirmed">> = <<call, kind>>
    BY <1>3, <2>4
  <2>6. call = <<"commit", c>> /\ kind = "confirmed"
    BY <2>5
  <2> QED
    BY <2>4, <2>6 DEF IsCommitted, Exists
<1>4. CASE <<<<"commit", c>>, "confirmed">> \in net
  BY <1>1, <1>4 DEF Confirmed
<1> QED
  BY <1>2, <1>3, <1>4 DEF Confirmed

\* How the status of an object comes about.
StatusSteps(c, m) ==
    \/ objects'[c][m].status = objects[c][m].status
    \/ objects'[c][m].status \notin {"RESERVED", "TERMINATED"}
    \/ \E r \in Requests, errors \in BOOLEAN :
          /\ view[r][c].lifecycle # "None"
          /\ objects'[c][m].status = RefreshedEntry(c, view[r][c], errors).status
    \/ objects'[c][m].status = "RESERVED" /\ future[<<"commit", c>>] = "confirmed"
    \/ /\ objects'[c][m].status = "TERMINATED"
       /\ \E t \in Terminates : task[t] = "terminating" /\ aim[t] = c

LEMMA WrittenStatus ==
    ASSUME TypeOK, NEW d \in Reserves, NEW n \in Makers, NEW entry,
           objects' = [objects EXCEPT ![d][n] = entry]
    PROVE  \A c \in Reserves, m \in Makers :
              objects'[c][m] = IF c = d /\ m = n THEN entry ELSE objects[c][m]
BY DEF TypeOK

LEMMA Restatused ==
    ASSUME NEW e \in Entries
    PROVE  /\ \A url : [e EXCEPT !.callbackUrl = url].status = e.status
           /\ \A status, lastError :
                 [e EXCEPT !.status = status, !.lastError = lastError].status = status
BY DEF Entries

LEMMA EndStatus ==
    ASSUME TypeOK, NEW r, NEW d \in Reserves, NEW status, NEW lastError,
           Ends(r, d, status, lastError)
    PROVE  \A c \in Reserves, m \in Makers :
              \/ objects'[c][m] = objects[c][m]
              \/ c = d /\ objects'[c][m].status = status
<1>1. PICK entry : /\ entry = [Stored(d) EXCEPT !.status = status, !.lastError = lastError]
                   /\ objects' = [objects EXCEPT ![d][current[d]] = entry]
  BY DEF Ends
<1>2. entry.status = status /\ current[d] \in Makers
  BY <1>1, Restatused, StoredTyped
<1> QED
  BY <1>1, <1>2, WrittenStatus

LEMMA AllStatusSteps ==
    ASSUME TInv, Sighted, [Next]_vars
    PROVE  \A c \in Reserves, m \in Makers : StatusSteps(c, m)
<1> DEFINE All == \A c \in Reserves, m \in Makers : StatusSteps(c, m)
<1>0. TypeOK /\ Aimed
  BY DEF TInv
<1> USE DEF storeVars
<1>1. CASE UNCHANGED objects
  BY <1>1 DEF StatusSteps
<1>2. ASSUME NEW r \in Requests, NEW c \in Reserves, CandidateResolved(r, c) PROVE All
  <2>1. PICK errors \in ErrorsSeen(c) :
            objects' = [objects EXCEPT ![c][Maker(c)] = RefreshedEntry(c, view[r][c], errors)]
    BY <1>2 DEF CandidateResolved
  <2>2. PICK m, entry : m = Maker(c) /\ entry = RefreshedEntry(c, view[r][c], errors)
    OBVIOUS
  <2>3. m \in Makers /\ errors \in BOOLEAN /\ view[r][c].lifecycle # "None"
    BY <1>0, <1>2, <2>2, StoredTyped, ErrorsTyped DEF CandidateResolved, Candidates
  <2>4. \A d \in Reserves, n \in Makers :
            objects'[d][n] = IF d = c /\ n = m THEN entry ELSE objects[d][n]
    BY <1>0, <2>1, <2>2, <2>3 DEF TypeOK
  <2> QED
    BY <2>2, <2>3, <2>4 DEF StatusSteps
<1>3. ASSUME NEW r \in Requests, NEW c \in Reserves, Reuse(r, c) PROVE All
  <2>1. r \in Reserves /\ held[r][c] \in Makers
    BY <1>0, <1>3 DEF Reuse, AllResolved, Reserves, TypeOK
  <2>2. PICK m \in Makers : m = held[r][c]
    BY <2>1
  <2>3. PICK entry : entry = [objects[c][m] EXCEPT !.callbackUrl = AdoptedUrl(r, objects[c][m])]
    OBVIOUS
  <2>4. objects' = [objects EXCEPT ![c][m] = entry]
    BY <1>3, <2>2, <2>3 DEF Reuse
  <2>5. objects[c][m] \in Entries
    BY <1>0 DEF TypeOK
  <2>6. entry.status = objects[c][m].status
    BY <2>3, <2>5, Restatused
  <2>7. \A d \in Reserves, n \in Makers :
            objects'[d][n] = IF d = c /\ n = m THEN entry ELSE objects[d][n]
    BY <1>0, <2>4 DEF TypeOK
  <2> QED
    BY <2>6, <2>7 DEF StatusSteps
<1>4. ASSUME NEW r \in Requests, ReserveAcked(r) PROVE All
  <2>1. r \in Reserves /\ "reserve" \in Makers /\ NewEntry(r).status = "RESERVING"
        /\ objects' = [objects EXCEPT ![r]["reserve"] = NewEntry(r)]
    BY <1>4 DEF ReserveAcked, Makers, NewEntry
  <2>2. \A d \in Reserves, n \in Makers :
            objects'[d][n] = IF d = r /\ n = "reserve" THEN NewEntry(r) ELSE objects[d][n]
    BY <1>0, <2>1 DEF TypeOK
  <2> QED
    BY <2>1, <2>2 DEF StatusSteps
<1>5. ASSUME NEW t \in Requests, TerminateDispatch(t) PROVE All
  <2>1. t \in Terminates /\ pc[t] = "refreshed" /\ aim[t] \in Reserves
    BY <1>0, <1>5 DEF TerminateDispatch, Aimed
  <2>2. PICK c \in Reserves, m \in Makers : c = aim[t] /\ m = Maker(c)
    BY <1>0, <2>1, StoredTyped
  <2>3. PICK errors \in ErrorsSeen(c) :
            LET entry == RefreshedEntry(c, view[t][c], errors)
            IN  TerminatedAlready(t, entry) \/ TerminateProceeds(t, entry) \/ TerminateRefused(t, entry)
    BY <1>5, <2>2 DEF TerminateDispatch
  <2>4. PICK entry : entry = RefreshedEntry(c, view[t][c], errors)
    OBVIOUS
  <2>5. entry \in Entries /\ errors \in BOOLEAN /\ view[t][c].lifecycle # "None"
    BY <1>0, <2>1, <2>2, <2>4, ErrorsTyped, RefreshedTyped DEF Sighted
  <2>6. TerminatedAlready(t, entry) \/ TerminateProceeds(t, entry) \/ TerminateRefused(t, entry)
    BY <2>3, <2>4
  <2>7. PICK url : Stores(c, entry, url)
    BY <2>2, <2>6 DEF TerminatedAlready, TerminateProceeds, TerminateRefused
  <2>8. PICK new : /\ new = [entry EXCEPT !.callbackUrl = url]
                   /\ objects' = [objects EXCEPT ![c][m] = new]
    BY <2>2, <2>7 DEF Stores
  <2>9. new.status = RefreshedEntry(c, view[t][c], errors).status
    BY <2>4, <2>5, <2>8, Restatused
  <2>10. \A d \in Reserves, n \in Makers :
            objects'[d][n] = IF d = c /\ n = m THEN new ELSE objects[d][n]
    BY <1>0, <2>8 DEF TypeOK
  <2> QED
    BY <2>5, <2>9, <2>10 DEF StatusSteps
<1>6. ASSUME NEW r \in Requests, HandlerStep(r) PROVE All
  <2>1. CASE \/ CandidatesFound(r) \/ Unanswered(r) \/ ReserveAnew(r) \/ TerminateSummary(r)
             \/ TerminateAcked(r) \/ HandlerPostFails(r)
    BY <1>1, <2>1 DEF CandidatesFound, Unanswered, FindFails, TerminateSummaryFails,
       TerminateNotFound, GivesUp, ReserveAnew, TerminateSummary, TerminateAcked,
       HandlerPostFails
  <2> QED
    BY <1>2, <1>3, <1>4, <1>5, <1>6, <2>1 DEF HandlerStep
<1>7. ASSUME NEW r \in Reserves, Fails(r) PROVE All
  <2>1. \A c \in Reserves, m \in Makers :
              objects'[c][m] = objects[c][m] \/ objects'[c][m].status = "FAILED"
    BY <1>0, <1>7, EndStatus DEF Fails
  <2> QED
    BY <2>1 DEF StatusSteps
<1>8. ASSUME NEW r \in Reserves, Committed(r) PROVE All
  <2>1. \A c \in Reserves, m \in Makers :
              objects'[c][m] = objects[c][m] \/ (c = r /\ objects'[c][m].status = "RESERVED")
    BY <1>0, <1>8, EndStatus DEF Committed
  <2>2. future[<<"commit", r>>] = "confirmed"
    BY <1>8 DEF Committed
  <2> QED
    BY <2>1, <2>2 DEF StatusSteps
<1>9. ASSUME NEW t \in Terminates, TerminateEnds(t) PROVE All
  <2>1. PICK c \in Reserves : c = aim[t]
    BY <1>0, <1>9 DEF TerminateEnds, Aimed
  <2>2. PICK lastError : Ends(t, c, "TERMINATED", lastError)
    BY <1>9, <2>1 DEF TerminateEnds
  <2>3. \A d \in Reserves, m \in Makers :
              objects'[d][m] = objects[d][m] \/ (d = c /\ objects'[d][m].status = "TERMINATED")
    BY <1>0, <2>2, EndStatus
  <2>4. task[t] = "terminating"
    BY <1>9 DEF TerminateEnds
  <2> QED
    BY <2>1, <2>3, <2>4 DEF StatusSteps
<1>10. ASSUME NEW r \in Requests, TaskStep(r) PROVE All
  <2>1. CASE ReserveConfirmed(r) \/ CommitAcked(r) \/ Finished(r) \/ Redelivers(r)
    BY <1>1, <2>1 DEF ReserveConfirmed, CommitAcked, Finished, Redelivers
  <2>2. CASE r \in Reserves /\ (\/ ReserveFailed(r) \/ ReserveTimesOut(r) \/ CommitPostFails(r)
                               \/ CommitFailed(r) \/ CommitTimesOut(r))
    BY <1>7, <2>2 DEF ReserveFailed, ReserveTimesOut, CommitPostFails, CommitFailed, CommitTimesOut,
       WaitTimeout
  <2> QED
    BY <1>8, <1>9, <1>10, <2>1, <2>2 DEF TaskStep
<1>11. ASSUME NEW r \in Requests, RequesterStep(r) PROVE All
  BY <1>1, <1>11 DEF RequesterStep, StartKeyed, StartUnkeyed, StartTerminate
<1>12. CASE Crash
  BY <1>12 DEF Crash, NoEntry, StatusSteps
<1> QED
  BY <1>1, <1>6, <1>10, <1>11, <1>12 DEF Next, DeliverAnswer, Environment, vars

LEMMA ClosingStays ==
    ASSUME TInv, SentOnce, [Next]_vars, NEW c \in Reserves, Closing(c)
    PROVE  Closing(c)'
<1>1. agg'[c] \in AggRecords
  BY StepTyped DEF TInv, TypeOK
<1>2. Evolves(c)
  BY Evolution
<1> QED
  BY <1>1, <1>2 DEF Closing, Evolves, Exists, AggRecords

LEMMA CommittedStays ==
    ASSUME TInv, SentOnce, [Next]_vars, NEW c \in Reserves, IsCommitted(c)
    PROVE  IsCommitted(c)'
BY Evolution DEF IsCommitted, Evolves, Settled, Exists

\* Only what was sent is accepted, and a call stays accepted.
LEMMA AcceptedWasSent == TInv /\ [Next]_vars => acked \subseteq acked' /\ acked' \subseteq acked \union posted
<1> SUFFICES ASSUME TInv, [Next]_vars, Environment
             PROVE  acked \subseteq acked' /\ acked' \subseteq acked \union posted
  BY OnlyEnvironment
<1> QED
  BY DEF Environment, Accepts, Refuses, Progresses, Answers, ErrorEvent, Terminated

LEMMA TerminatingSteps ==
    ASSUME TInv, [Next]_vars, NEW t \in Terminates, task'[t] = "terminating"
    PROVE  task[t] = "terminating" \/ <<"terminate", t>> \in acked
<1> DEFINE Was == task[t] = "terminating" \/ <<"terminate", t>> \in acked
<1>0. task \in [Requests -> Tasks] /\ t \in Requests /\ t \notin Reserves
  BY ReserveAssumption DEF TInv, TypeOK, Tasks, Requests
<1> USE DEF taskVars
<1>1. CASE UNCHANGED task
  BY <1>1
<1>2. ASSUME NEW r, NEW next, next # "terminating", task' = [task EXCEPT ![r] = next] PROVE Was
  BY <1>0, <1>2
<1>3. ASSUME NEW r \in Requests, HandlerStep(r) PROVE Was
  <2>1. CASE \/ CandidatesFound(r) \/ Unanswered(r) \/ ReserveAnew(r) \/ TerminateSummary(r)
             \/ HandlerPostFails(r) \/ \E c \in Reserves : CandidateResolved(r, c)
    BY <1>1, <2>1 DEF CandidatesFound, Unanswered, FindFails, TerminateSummaryFails,
       TerminateNotFound, GivesUp, ReserveAnew, TerminateSummary, HandlerPostFails,
       CandidateResolved
  <2>2. ASSUME NEW c \in Reserves, Reuse(r, c) PROVE Was
    <3>1. r # t
      BY <1>0, <2>2 DEF Reuse, AllResolved, Reserves
    <3>2. PICK next : task' = [task EXCEPT ![r] = next]
      BY <2>2 DEF Reuse
    <3> QED
      BY <1>0, <3>1, <3>2
  <2>3. CASE ReserveAcked(r)
    BY <1>2, <2>3 DEF ReserveAcked
  <2>4. CASE TerminateAcked(r)
    BY <1>0, <2>4 DEF TerminateAcked
  <2>5. CASE TerminateDispatch(r)
    BY <1>1, <1>2, <2>5 DEF TerminateDispatch, TerminatedAlready, TerminateProceeds, TerminateRefused
  <2> QED
    BY <1>3, <2>1, <2>2, <2>3, <2>4, <2>5 DEF HandlerStep
<1>4. ASSUME NEW r \in Requests, TaskStep(r) PROVE Was
  BY <1>2, <1>4 DEF TaskStep, ReserveConfirmed, ReserveFailed, ReserveTimesOut, CommitAcked,
     CommitPostFails, Committed, CommitFailed, CommitTimesOut, WaitTimeout, Fails, Ends,
     TerminateEnds, Finished, Redelivers
<1>5. ASSUME NEW r \in Requests, RequesterStep(r) PROVE Was
  BY <1>1, <1>5 DEF RequesterStep, StartKeyed, StartUnkeyed, StartTerminate
<1>6. CASE Crash
  BY <1>0, <1>6 DEF Crash
<1> QED
  BY <1>1, <1>3, <1>4, <1>5, <1>6 DEF Next, DeliverAnswer, Environment, vars

LEMMA WarrantedStep == TInv /\ SentOnce /\ Sighted /\ Warranted /\ [Next]_vars => Warranted'
<1> SUFFICES ASSUME TInv, SentOnce, Sighted, Warranted, [Next]_vars PROVE Warranted'
  OBVIOUS
<1>0. TypeOK /\ Aimed
  BY DEF TInv
<1>1. ASSUME NEW c \in Reserves, Confirmed(c)' PROVE IsCommitted(c)'
  BY <1>1, ConfirmedStep
<1>2. ASSUME NEW c \in Reserves, NEW m \in Makers
      PROVE  /\ objects'[c][m].status = "RESERVED" => IsCommitted(c)'
             /\ objects'[c][m].status = "TERMINATED" => Closing(c)'
  <2>1. ASSUME NEW r \in Requests, NEW errors \in BOOLEAN, view[r][c].lifecycle # "None"
        PROVE  /\ RefreshedEntry(c, view[r][c], errors).status = "RESERVED" => IsCommitted(c)
               /\ RefreshedEntry(c, view[r][c], errors).status = "TERMINATED" => Closing(c)
    <3>1. Follows(view[r][c], c) /\ view[r][c] \in AggRecords /\ agg[c] \in AggRecords
      BY <1>0, <2>1 DEF Sighted, TypeOK
    <3>2. RefreshedEntry(c, view[r][c], errors).status = "RESERVED" =>
             view[r][c].reservation = "ReserveStart"
      BY <3>1, RefreshedMeans
    <3>3. RefreshedEntry(c, view[r][c], errors).status = "TERMINATED" =>
             view[r][c].lifecycle = "Terminated"
      BY <3>1, RefreshedMeans
    <3> QED
      BY <3>1, <3>2, <3>3 DEF Follows, IsCommitted, Closing, Exists, Settled, AggRecords
  <2>2. StatusSteps(c, m)
    BY AllStatusSteps
  <2>3. objects'[c][m].status = "RESERVED" => IsCommitted(c)
    BY <2>1, <2>2 DEF StatusSteps, Warranted, Confirmed
  <2>4. objects'[c][m].status = "TERMINATED" => Closing(c)
    BY <2>1, <2>2 DEF StatusSteps, Warranted
  <2> QED
    BY <2>3, <2>4, ClosingStays, CommittedStays
<1>3. ASSUME NEW t \in Terminates
      PROVE  /\ pc'[t] = "idle" => <<"terminate", t>> \notin posted' \union acked'
             /\ <<"terminate", t>> \in acked' => Closing(aim[t])'
             /\ task'[t] = "terminating" => <<"terminate", t>> \in acked'
  <2>1. Advances(t) /\ t \in Requests
    BY AllAdvance DEF Requests
  <2>2. acked \subseteq acked' /\ acked' \subseteq acked \union posted
    BY AcceptedWasSent
  <2>3. pc'[t] = "idle" => <<"terminate", t>> \notin posted' \union acked'
    BY <2>1, <2>2 DEF Warranted, Advances
  <2>4. task'[t] = "terminating" => <<"terminate", t>> \in acked'
    BY <2>2, TerminatingSteps DEF Warranted
  <2>5. CASE <<"terminate", t>> \in acked
    <3>1. aim[t] \in Reserves /\ Closing(aim[t]) /\ aim'[t] = aim[t]
      BY <1>0, <2>5, AimSteps DEF Aimed, Warranted
    <3>2. PICK c \in Reserves : c = aim[t]
      BY <3>1
    <3>3. Closing(c)'
      BY <3>1, <3>2, ClosingStays
    <3> QED
      BY <2>3, <2>4, <3>1, <3>2, <3>3 DEF Closing
  <2>6. CASE <<"terminate", t>> \in acked' \ acked
    <3>1. Environment
      BY <2>6, OnlyEnvironment
    <3>2. aim' = aim /\ AggregatorStep
      BY <3>1, AggregatorSteps DEF Environment, handlerVars
    <3>3. agg'[aim[t]].lifecycle \in {"Terminating", "Terminated"}
      <4>1. \A d : <<"terminate", t>> \notin {<<"reserve", d>>, <<"commit", d>>}
        OBVIOUS
      <4>2. PICK o \in Terminates :
               /\ agg'[aim[o]].lifecycle \in {"Terminating", "Terminated"}
               /\ acked' \subseteq acked \union {<<"terminate", o>>}
        BY <2>6, <3>2, <4>1 DEF AggregatorStep
      <4>3. <<"terminate", t>> = <<"terminate", o>>
        BY <2>6, <4>2
      <4> QED
        BY <4>2, <4>3
    <3> QED
      BY <2>3, <2>4, <3>2, <3>3 DEF Closing
  <2> QED
    BY <2>3, <2>4, <2>5, <2>6
<1> QED
  BY <1>1, <1>2, <1>3 DEF Warranted

\* A new report: an operation ends at the address of the stored object, or an object is delivered
\* again to the one who asked.
LEMMA ReportSteps ==
    ASSUME TInv, [Next]_vars, NEW rep \in reports' \ reports
    PROVE  /\ rep.conn \in Reserves
           /\ \/ /\ rep.to = Stored(rep.conn).callbackUrl
                 /\ rep.status = "RESERVED" => future[<<"commit", rep.conn>>] = "confirmed"
              \/ /\ rep.to \in Requests /\ task[rep.to] = "redelivering"
                 /\ rep.conn = IF rep.to \in Reserves THEN told[rep.to] ELSE aim[rep.to]
                 /\ \E m \in Makers : rep.status = objects[rep.conn][m].status
<1> DEFINE Ended == /\ rep.conn \in Reserves
                    /\ rep.to = Stored(rep.conn).callbackUrl
                    /\ rep.status = "RESERVED" => future[<<"commit", rep.conn>>] = "confirmed"
           Again == /\ rep.conn \in Reserves
                    /\ rep.to \in Requests /\ task[rep.to] = "redelivering"
                    /\ rep.conn = IF rep.to \in Reserves THEN told[rep.to] ELSE aim[rep.to]
                    /\ \E m \in Makers : rep.status = objects[rep.conn][m].status
<1>0. TypeOK /\ Aimed
  BY DEF TInv
<1> USE DEF taskVars
<1>1. ASSUME NEW r, NEW c \in Reserves, NEW status, NEW lastError, Ends(r, c, status, lastError),
             status = "RESERVED" => future[<<"commit", c>>] = "confirmed"
      PROVE  Ended
  <2>1. PICK entry : /\ entry = [Stored(c) EXCEPT !.status = status, !.lastError = lastError]
                     /\ reports' = reports \union {Reported(r, c, entry)}
    BY <1>1 DEF Ends
  <2>2. entry.status = status /\ entry.callbackUrl = Stored(c).callbackUrl
    BY <1>0, <2>1, StoredTyped DEF Entries
  <2>3. rep = Reported(r, c, entry)
    BY <2>1
  <2> QED
    BY <1>1, <2>2, <2>3 DEF Reported
<1>2. ASSUME NEW r \in Requests, Redelivers(r) PROVE Again
  <2> DEFINE c == IF r \in Reserves THEN told[r] ELSE aim[r]
             entry == IF r \in Reserves THEN objects[c][held[r][c]] ELSE Stored(c)
  <2>1. c \in Reserves /\ task[r] = "redelivering"
    BY <1>0, <1>2 DEF Redelivers, Aimed, Requests
  <2>2. PICK m \in Makers : entry = objects[c][m]
    <3>1. CASE r \in Reserves
      BY <1>0, <2>1, <3>1 DEF TypeOK
    <3>2. CASE r \notin Reserves
      BY <1>0, <2>1, <3>2, StoredTyped DEF Stored
    <3> QED
      BY <3>1, <3>2
  <2>3. rep = [Reported(r, c, entry) EXCEPT !.to = r]
    BY <1>2 DEF Redelivers
  <2> HIDE DEF c, entry
  <2>4. rep.to = r /\ rep.conn = c /\ rep.status = entry.status
    BY <2>3 DEF Reported
  <2> QED
    BY <2>1, <2>2, <2>4 DEF c
<1>3. ASSUME NEW r \in Requests, HandlerStep(r) PROVE FALSE
  BY <1>3 DEF HandlerStep, CandidatesFound, Unanswered, FindFails, TerminateSummaryFails,
     TerminateNotFound, GivesUp, CandidateResolved, Reuse, ReserveAnew,
     ReserveAcked, TerminateSummary, TerminateDispatch, TerminatedAlready, TerminateProceeds,
     TerminateRefused, TerminateAcked, HandlerPostFails
<1>4. ASSUME NEW r \in Requests, TaskStep(r) PROVE Ended \/ Again
  <2>1. ASSUME r \in Reserves, Fails(r) PROVE Ended
    BY <1>1, <2>1 DEF Fails
  <2>2. ASSUME r \in Reserves, Committed(r) PROVE Ended
    BY <1>1, <2>2 DEF Committed
  <2>3. ASSUME r \in Terminates, TerminateEnds(r) PROVE Ended
    <3>1. PICK c \in Reserves : c = aim[r]
      BY <1>0, <2>3 DEF TerminateEnds, Aimed
    <3>2. PICK lastError : Ends(r, c, "TERMINATED", lastError)
      BY <2>3, <3>1 DEF TerminateEnds
    <3> QED
      BY <1>1, <3>2
  <2>4. CASE ReserveConfirmed(r) \/ CommitAcked(r) \/ Finished(r)
    BY <2>4 DEF ReserveConfirmed, CommitAcked, Finished
  <2>5. CASE r \in Reserves /\ (\/ ReserveFailed(r) \/ ReserveTimesOut(r) \/ CommitPostFails(r)
                               \/ CommitFailed(r) \/ CommitTimesOut(r))
    BY <2>1, <2>5 DEF ReserveFailed, ReserveTimesOut, CommitPostFails, CommitFailed, CommitTimesOut,
       WaitTimeout
  <2> QED
    BY <1>2, <1>4, <2>2, <2>3, <2>4, <2>5 DEF TaskStep
<1>5. ASSUME NEW r \in Requests, RequesterStep(r) PROVE FALSE
  BY <1>5 DEF RequesterStep, StartKeyed, StartUnkeyed, StartTerminate
<1> QED
  BY <1>3, <1>4, <1>5 DEF Next, DeliverAnswer, Environment, Crash, vars

\* What is proved step by step of the connections at the aggregator and of what is known of them.
CourseInv == TInv /\ SentOnce /\ Sighted /\ Warranted

LEMMA CourseKept == Spec => []CourseInv
<1>1. Init => SentOnce /\ Sighted /\ Warranted
  <2> SUFFICES ASSUME Init PROVE SentOnce /\ Sighted /\ Warranted
    OBVIOUS
  <2>1. NoRequest \notin Reserves
    BY ReserveAssumption DEF Requests
  <2>2. \A c \in Reserves : <<"commit", c>> \in Calls
    BY CallsOf
  <2>3. Sighted
    BY <2>1, ReserveAssumption DEF Init, Sighted, Nothing, Requests
  <2>4. SentOnce
    BY DEF Init, SentOnce, Exists, Nothing
  <2>5. Warranted
    BY <2>2 DEF Init, Warranted, Confirmed, NoEntry, Requests
  <2> QED
    BY <2>3, <2>4, <2>5
<1> QED
  BY <1>1, InitTyped, StepTyped, SentOnceStep, SightedStep, WarrantedStep, PTL DEF Spec, CourseInv

\* Whoever is told RESERVED, by the completion task or by a re-delivery, has a connection that the
\* aggregator has committed: for any number of requests, any faults, any patience, also when answers
\* were lost, late or negative (_complete_reserve and _redeliver).
THEOREM ReservedIsCommitted == Spec => []ReservedMeansCommitted
<1>1. Init => ReservedMeansCommitted
  BY DEF Init, ReservedMeansCommitted
<1>2. CourseInv /\ ReservedMeansCommitted /\ [Next]_vars => ReservedMeansCommitted'
  <2> SUFFICES ASSUME CourseInv, ReservedMeansCommitted, [Next]_vars, NEW rep \in reports',
                      rep.status = "RESERVED"
               PROVE  (agg[rep.conn].lifecycle # "None" /\ agg[rep.conn].reservation = "ReserveStart")'
    BY DEF ReservedMeansCommitted
  <2> USE DEF CourseInv
  <2>1. PICK c \in Reserves : c = rep.conn /\ IsCommitted(c)
    <3>1. CASE rep \in reports
      BY <3>1 DEF TInv, TypeOK, Reports, ReservedMeansCommitted, IsCommitted, Exists
    <3>2. CASE rep \notin reports
      BY <3>2, ReportSteps DEF Warranted, Confirmed
    <3> QED
      BY <3>1, <3>2
  <2>2. IsCommitted(c)'
    BY <2>1, CommittedStays
  <2> QED
    BY <2>1, <2>2 DEF IsCommitted, Exists
<1> QED
  BY <1>1, <1>2, CourseKept, PTL DEF Spec

\* How a handler gets to its request.
LEMMA PostingSteps ==
    ASSUME TInv, [Next]_vars, NEW r \in Requests, pc[r] # "posting", pc'[r] = "posting"
    PROVE  \/ r \in Unkeyed /\ StartUnkeyed(r)
           \/ r \in Keyed /\ ReserveAnew(r)
           \/ TerminateDispatch(r)
<1> DEFINE Gets == \/ r \in Unkeyed /\ StartUnkeyed(r)
                   \/ r \in Keyed /\ ReserveAnew(r)
                   \/ TerminateDispatch(r)
<1>0. pc \in [Requests -> PCs]
  BY DEF TInv, TypeOK, PCs
<1> USE DEF handlerVars
<1>1. CASE UNCHANGED pc
  BY <1>1
<1>2. ASSUME NEW q, NEW next, pc' = [pc EXCEPT ![q] = next] PROVE q = r /\ next = "posting"
  BY <1>0, <1>2
<1>3. ASSUME NEW q \in Requests, HandlerStep(q) PROVE Gets
  <2>1. CASE CandidatesFound(q) \/ TerminateSummary(q) \/ \E c \in Reserves : CandidateResolved(q, c)
    BY <1>1, <1>2, <2>1 DEF CandidatesFound, TerminateSummary, CandidateResolved
  <2>2. CASE Unanswered(q) \/ ReserveAcked(q) \/ TerminateAcked(q) \/ HandlerPostFails(q)
    BY <1>2, <2>2 DEF Unanswered, FindFails, TerminateSummaryFails, TerminateNotFound, GivesUp,
       ReserveAcked, TerminateAcked, HandlerPostFails, Replies
  <2>3. CASE \E c \in Reserves : Reuse(q, c)
    <3>1. Replies(q, "202")
      BY <2>3 DEF Reuse
    <3> QED
      BY <1>2, <3>1 DEF Replies
  <2>4. CASE ReserveAnew(q)
    BY <1>2, <2>4 DEF ReserveAnew, AllResolved
  <2>5. CASE TerminateDispatch(q)
    <3>1. PICK entry : TerminatedAlready(q, entry) \/ TerminateProceeds(q, entry) \/ TerminateRefused(q, entry)
      BY <2>5 DEF TerminateDispatch
    <3> QED
      BY <1>2, <2>5, <3>1 DEF TerminatedAlready, TerminateProceeds, TerminateRefused, Replies
  <2> QED
    BY <1>3, <2>1, <2>2, <2>3, <2>4, <2>5 DEF HandlerStep
<1>4. ASSUME NEW q \in Requests, RequesterStep(q) PROVE Gets
  <2>1. CASE StartKeyed(q) \/ \E c \in Reserves : StartTerminate(q, c)
    BY <1>2, <2>1 DEF StartKeyed, StartTerminate
  <2>2. CASE StartUnkeyed(q)
    <3>1. q = r /\ q \in Unkeyed
      BY <1>2, <2>2 DEF StartUnkeyed
    <3> QED
      BY <2>2, <3>1
  <2> QED
    BY <1>4, <2>1, <2>2 DEF RequesterStep
<1>5. ASSUME NEW q \in Requests, TaskStep(q) PROVE UNCHANGED pc
  BY <1>5 DEF TaskStep, ReserveConfirmed, ReserveFailed, ReserveTimesOut, CommitAcked,
     CommitPostFails, Committed, CommitFailed, CommitTimesOut, WaitTimeout, Fails, TerminateEnds,
     Finished, Redelivers
<1>6. CASE Crash
  BY <1>0, <1>6 DEF Crash
<1> QED
  BY <1>1, <1>3, <1>4, <1>5, <1>6 DEF Next, DeliverAnswer, Environment, vars

\* No terminate is sent for a connection that a reserve of this proxy waits on, unless the aggregator
\* has decided the reservation or reported an error: for any number of requests, any faults and any
\* patience (the dispatch of terminate_reservation).
THEOREM SparesReserve == Spec => TerminateSparesReserve
<1>1. CourseInv /\ [Next]_vars =>
        [\A t \in Terminates :
          (pc[t] # "posting" /\ pc'[t] = "posting" /\ aim[t] \in inFlight) =>
              \/ agg[aim[t]].errors
              \/ agg[aim[t]].reservation \in {"ReserveStart"} \union FailedReservations]_vars
  <2> SUFFICES ASSUME CourseInv, [Next]_vars, NEW t \in Terminates,
                      pc[t] # "posting", pc'[t] = "posting", aim[t] \in inFlight
               PROVE  \/ agg[aim[t]].errors
                      \/ agg[aim[t]].reservation \in {"ReserveStart"} \union FailedReservations
    OBVIOUS
  <2>0. TypeOK /\ Aimed /\ t \in Requests /\ t \notin Reserves
    BY ReserveAssumption DEF CourseInv, TInv, Requests
  <2>1. TerminateDispatch(t)
    BY <2>0, PostingSteps DEF Reserves, CourseInv
  <2>2. PICK c \in Reserves : c = aim[t] /\ pc[t] = "refreshed"
    BY <2>0, <2>1 DEF TerminateDispatch, Aimed
  <2>3. PICK errors \in ErrorsSeen(c) :
            LET entry == RefreshedEntry(c, view[t][c], errors)
            IN  TerminatedAlready(t, entry) \/ TerminateProceeds(t, entry) \/ TerminateRefused(t, entry)
    BY <2>1, <2>2 DEF TerminateDispatch
  <2>4. PICK entry : entry = RefreshedEntry(c, view[t][c], errors)
    OBVIOUS
  <2>5. TerminatedAlready(t, entry) \/ TerminateProceeds(t, entry) \/ TerminateRefused(t, entry)
    BY <2>3, <2>4
  <2>6. TerminateProceeds(t, entry)
    BY <2>0, <2>5 DEF TerminatedAlready, TerminateRefused, Replies, TypeOK
  <2>7. entry.status \in {"RESERVED", "FAILED"}
    BY <2>2, <2>6 DEF TerminateProceeds, MayTerminate
  <2>8. /\ view[t][c].lifecycle # "None" /\ view[t][c] \in AggRecords
        /\ errors \in BOOLEAN /\ errors \in {FALSE, agg[c].errors}
    <3>1. errors \in BOOLEAN
      BY <2>0, ErrorsTyped
    <3>2. errors \in {FALSE, agg[c].errors}
      BY DEF ErrorsSeen
    <3>3. view[t][c].lifecycle # "None"
      BY <2>2 DEF CourseInv, Sighted
    <3>4. view[t][c] \in AggRecords
      BY <2>0 DEF TypeOK
    <3> QED
      BY <3>1, <3>2, <3>3, <3>4
  <2>9. view[t][c].reservation \in Settled \/ errors
    BY <2>4, <2>7, <2>8, RefreshedMeans DEF Settled
  <2>10. CASE errors
    BY <2>2, <2>8, <2>10
  <2>11. CASE view[t][c].reservation \in Settled
    BY <2>0, <2>2, <2>8, <2>11 DEF CourseInv, Sighted, Follows, Settled
  <2> QED
    BY <2>9, <2>10, <2>11
<1> QED
  BY <1>1, CourseKept, PTL DEF Spec, TerminateSparesReserve

(***************************************************************************)
(* Requesters that wait for each other's reply.                            *)
(***************************************************************************)
Alone == \A q, r \in Requests : Active(q) /\ Active(r) => q = r

\* A connection has one object, which a handler holds too, and whoever has been told somebody else's
\* connection has taken over its callbackURL.
OneObject ==
    /\ \A c \in Reserves : pc[c] # "done" => current[c] = "none"
    /\ \A r, c \in Reserves : held[r][c] # "none" => held[r][c] = current[c]
    /\ \A r \in Reserves : task[r] = "redelivering" => told[r] # r
    /\ \A r, c \in Reserves : told[r] = c /\ r # c => pc[c] = "done" /\ Stored(c).callbackUrl # c

LEMMA AloneStep == Patience = "reply" /\ TInv /\ Alone /\ [Next]_vars => Alone'
<1> SUFFICES ASSUME Patience = "reply", TInv, Alone, [Next]_vars,
                    NEW q \in Requests, NEW r \in Requests, Active(q)', Active(r)', q # r
             PROVE  FALSE
  BY DEF Alone
<1>1. Advances(q) /\ Advances(r)
  BY AllAdvance
<1> QED
  BY <1>1 DEF Advances, Active, Alone, MayStart

\* Whoever looks at a connection comes after its reserve was answered.
LEMMA Served ==
    ASSUME CourseInv, Alone, NEW r \in Requests,
           pc[r] = "resolving" \/ (r \in Terminates /\ pc[r] = "refreshed"),
           NEW c \in Reserves, Exists(c)
    PROVE  pc[c] = "done" /\ r # c
<1>1. pc[c] \notin Early /\ c \in Requests
  BY DEF CourseInv, SentOnce, Requests
<1>2. r # c
  BY <1>1, ReserveAssumption DEF Early
<1> QED
  BY <1>1, <1>2 DEF Alone, Active, Early

LEMMA OneObjectStays ==
    ASSUME TInv, OneObject, [Next]_vars, UNCHANGED <<current, held, told>>,
           \A c \in Reserves, m \in Makers : objects'[c][m].callbackUrl = objects[c][m].callbackUrl,
           \A r \in Reserves : task'[r] = "redelivering" => task[r] = "redelivering"
    PROVE  OneObject'
<1>1. \A c \in Reserves : pc[c] = "done" => pc'[c] = "done"
  BY AllAdvance DEF Advances, Requests
<1>2. \A c \in Reserves : Stored(c)'.callbackUrl = Stored(c).callbackUrl
  BY DEF TInv, TypeOK, Stored
<1> QED
  BY <1>1, <1>2 DEF OneObject

LEMMA EndKeepsAddress ==
    ASSUME TypeOK, NEW r, NEW d \in Reserves, NEW status, NEW lastError,
           Ends(r, d, status, lastError)
    PROVE  \A c \in Reserves, m \in Makers : objects'[c][m].callbackUrl = objects[c][m].callbackUrl
<1>1. PICK entry : /\ entry = [Stored(d) EXCEPT !.status = status, !.lastError = lastError]
                   /\ objects' = [objects EXCEPT ![d][current[d]] = entry]
  BY DEF Ends
<1>2. /\ entry.callbackUrl = Stored(d).callbackUrl /\ current[d] \in Makers
      /\ Stored(d) = objects[d][current[d]]
  BY <1>1, StoredTyped DEF Entries, Stored
<1> QED
  BY <1>1, <1>2 DEF TypeOK

LEMMA TasksKeepOneObject ==
    ASSUME TInv, OneObject, Next, NEW r \in Requests, TaskStep(r)
    PROVE  OneObject'
<1>0. TypeOK /\ Aimed
  BY DEF TInv
<1> USE DEF handlerVars, storeVars
<1>1. ASSUME NEW c \in Reserves, NEW status, NEW lastError, Ends(r, c, status, lastError),
             UNCHANGED <<current, handlerVars>>
      PROVE  OneObject'
  <2>1. \A q \in Reserves : task'[q] = "redelivering" => task[q] = "redelivering"
    BY <1>0, <1>1 DEF Ends, TypeOK
  <2> QED
    BY <1>0, <1>1, <2>1, EndKeepsAddress, OneObjectStays
<1>2. CASE ReserveConfirmed(r) \/ CommitAcked(r) \/ Finished(r) \/ Redelivers(r)
  <2>1. UNCHANGED <<objects, current, held, told>>
    BY <1>2 DEF ReserveConfirmed, CommitAcked, Finished, Redelivers
  <2>2. \A q \in Reserves : task'[q] = "redelivering" => task[q] = "redelivering"
    <3>1. PICK next \in Tasks \ {"redelivering"} : task' = [task EXCEPT ![r] = next]
      BY <1>2 DEF ReserveConfirmed, CommitAcked, Finished, Redelivers, Tasks, RunningTasks
    <3> QED
      BY <1>0, <3>1 DEF TypeOK
  <2> QED
    BY <2>1, <2>2, OneObjectStays
<1>3. ASSUME r \in Reserves, Fails(r) PROVE OneObject'
  BY <1>1, <1>3 DEF Fails
<1>4. CASE r \in Reserves /\ Committed(r)
  BY <1>1, <1>4 DEF Committed
<1>5. CASE r \in Terminates /\ TerminateEnds(r)
  <2>1. PICK c \in Reserves : c = aim[r]
    BY <1>0, <1>5 DEF TerminateEnds, Aimed
  <2>2. PICK lastError : Ends(r, c, "TERMINATED", lastError)
    BY <1>5, <2>1 DEF TerminateEnds
  <2> QED
    BY <1>1, <1>5, <2>2 DEF TerminateEnds
<1>6. CASE r \in Reserves /\ (\/ ReserveFailed(r) \/ ReserveTimesOut(r) \/ CommitPostFails(r)
                             \/ CommitFailed(r) \/ CommitTimesOut(r))
  BY <1>3, <1>6 DEF ReserveFailed, ReserveTimesOut, CommitPostFails, CommitFailed, CommitTimesOut,
     WaitTimeout
<1> QED
  BY <1>2, <1>4, <1>5, <1>6 DEF TaskStep

LEMMA HandlersKeepOneObject ==
    ASSUME CourseInv, Alone, OneObject, Next, NEW r \in Requests, HandlerStep(r)
    PROVE  OneObject'
<1>0. TInv /\ TypeOK /\ Aimed
  BY DEF CourseInv, TInv
<1>1. \A c \in Reserves : pc[c] = "done" => pc'[c] = "done"
  BY <1>0, AllAdvance DEF Advances, Requests
<1> USE DEF storeVars, taskVars
<1>2. CASE \/ CandidatesFound(r) \/ Unanswered(r) \/ ReserveAnew(r) \/ TerminateSummary(r)
           \/ HandlerPostFails(r)
  <2>1. UNCHANGED <<objects, current, held, told, task>>
    BY <1>2 DEF CandidatesFound, Unanswered, FindFails, TerminateSummaryFails, TerminateNotFound,
       GivesUp, ReserveAnew, TerminateSummary, HandlerPostFails
  <2> QED
    BY <1>0, <2>1, OneObjectStays
<1>3. CASE TerminateAcked(r)
  <2>1. UNCHANGED <<objects, current, held, told>> /\ task' = [task EXCEPT ![r] = "terminating"]
    BY <1>3 DEF TerminateAcked
  <2>2. \A q \in Reserves : task'[q] = "redelivering" => task[q] = "redelivering"
    BY <1>0, <2>1 DEF TypeOK
  <2> QED
    BY <1>0, <2>1, <2>2, OneObjectStays
<1>4. ASSUME NEW c \in Reserves, CandidateResolved(r, c) PROVE OneObject'
  <2>1. PICK errors \in ErrorsSeen(c) :
            objects' = [objects EXCEPT ![c][Maker(c)] = RefreshedEntry(c, view[r][c], errors)]
    BY <1>4 DEF CandidateResolved
  <2>2. PICK m, entry : m = Maker(c) /\ entry = RefreshedEntry(c, view[r][c], errors)
    OBVIOUS
  <2>3. m \in Makers /\ entry.callbackUrl = Stored(c).callbackUrl
    BY <1>0, <2>2, StoredTyped, ErrorsTyped, RefreshedTyped
  <2>4. Exists(c) /\ r \in Reserves /\ pc[r] = "resolving"
    BY <1>4 DEF CandidateResolved, Candidates, CourseInv, Sighted, Follows, Reserves
  <2>5. pc[c] = "done"
    BY <2>4, Served
  <2>6. /\ objects' = [objects EXCEPT ![c][m] = entry]
        /\ current' = [current EXCEPT ![c] = m]
        /\ held' = [held EXCEPT ![r][c] = m]
        /\ UNCHANGED <<told, task>>
    BY <1>4, <2>1, <2>2 DEF CandidateResolved
  <2>7. \A d \in Reserves : Stored(d)'.callbackUrl = Stored(d).callbackUrl
    BY <1>0, <2>3, <2>6 DEF TypeOK, Stored
  <2>8. current[c] # "none" => m = current[c]
    BY <2>2 DEF Maker
  <2>9. \A d \in Reserves : pc'[d] # "done" => current'[d] = "none"
    <3>1. \A d \in Reserves \ {c} : current'[d] = current[d]
      BY <1>0, <2>6 DEF TypeOK
    <3> QED
      BY <1>1, <2>5, <3>1 DEF OneObject
  <2>10. \A q, d \in Reserves : held'[q][d] # "none" => held'[q][d] = current'[d]
    BY <1>0, <2>3, <2>4, <2>6, <2>8 DEF OneObject, TypeOK
  <2> QED
    BY <1>1, <2>6, <2>7, <2>9, <2>10 DEF OneObject
<1>5. ASSUME NEW c \in Reserves, Reuse(r, c) PROVE OneObject'
  <2>1. /\ r \in Reserves /\ pc[r] = "resolving" /\ held[r][c] # "none"
        /\ view[r][c].lifecycle # "None"
    BY <1>5 DEF Reuse, AllResolved, Reusable, Live, Candidates, Reserves
  <2>2. Exists(c)
    BY <2>1 DEF CourseInv, Sighted, Follows
  <2>3. pc[c] = "done" /\ c # r /\ held[r][c] = current[c] /\ current[c] \in Makers
    BY <1>0, <2>1, <2>2, Served DEF OneObject, TypeOK
  <2>4. PICK entry : entry = [Stored(c) EXCEPT !.callbackUrl = r]
    OBVIOUS
  <2>5. entry.callbackUrl = r
    BY <1>0, <2>4, StoredTyped, Readdressed
  <2>6. objects' = [objects EXCEPT ![c][current[c]] = entry]
    BY <1>5, <2>3, <2>4 DEF Reuse, AdoptedUrl, Stored
  <2>7. PICK next : /\ task' = [task EXCEPT ![r] = next]
                    /\ told' = [told EXCEPT ![r] = c]
                    /\ UNCHANGED <<current, held>>
    BY <1>5 DEF Reuse
  <2>8. \A d \in Reserves : Stored(d)'.callbackUrl = IF d = c THEN r ELSE Stored(d).callbackUrl
    BY <1>0, <2>3, <2>5, <2>6, <2>7 DEF TypeOK, Stored
  <2>9. \A q \in Reserves : task'[q] = "redelivering" => told'[q] # q
    BY <1>0, <2>3, <2>7 DEF OneObject, TypeOK
  <2>10. \A q, d \in Reserves :
            told'[q] = d /\ q # d => pc'[d] = "done" /\ Stored(d)'.callbackUrl # d
    <3> SUFFICES ASSUME NEW q \in Reserves, NEW d \in Reserves, told'[q] = d, q # d
                 PROVE  pc'[d] = "done" /\ Stored(d)'.callbackUrl # d
      OBVIOUS
    <3>1. CASE d = c
      BY <1>1, <2>3, <2>8, <3>1
    <3>2. CASE d # c
      <4>1. told[q] = d
        BY <1>0, <2>1, <2>7, <3>2 DEF TypeOK
      <4> QED
        BY <1>1, <2>8, <3>2, <4>1 DEF OneObject
    <3> QED
      BY <3>1, <3>2
  <2> QED
    BY <1>1, <2>7, <2>9, <2>10 DEF OneObject
<1>6. CASE ReserveAcked(r)
  <2>1. /\ r \in Reserves /\ pc[r] = "posting"
        /\ objects' = [objects EXCEPT ![r]["reserve"] = NewEntry(r)]
        /\ current' = [current EXCEPT ![r] = "reserve"]
        /\ task' = [task EXCEPT ![r] = "reserving"]
        /\ told' = [told EXCEPT ![r] = r]
        /\ UNCHANGED held
    BY <1>6 DEF ReserveAcked
  <2>2. current[r] = "none" /\ pc'[r] = "done"
    BY <1>0, <1>6, <2>1 DEF OneObject, ReserveAcked, Replies, TypeOK
  <2>3. \A d \in Reserves \ {r} : Stored(d)' = Stored(d) /\ current'[d] = current[d]
    BY <1>0, <2>1 DEF TypeOK, Stored
  <2>4. \A d \in Reserves : pc'[d] # "done" => current'[d] = "none"
    BY <1>1, <2>2, <2>3 DEF OneObject
  <2>5. \A q, d \in Reserves : held'[q][d] # "none" => held'[q][d] = current'[d]
    BY <2>1, <2>2, <2>3 DEF OneObject
  <2>6. \A q \in Reserves : task'[q] = "redelivering" => told'[q] # q
    BY <1>0, <2>1 DEF OneObject, TypeOK
  <2>7. \A q, d \in Reserves :
            told'[q] = d /\ q # d => pc'[d] = "done" /\ Stored(d)'.callbackUrl # d
    <3> SUFFICES ASSUME NEW q \in Reserves, NEW d \in Reserves, told'[q] = d, q # d
                 PROVE  pc'[d] = "done" /\ Stored(d)'.callbackUrl # d
      OBVIOUS
    <3>1. told[q] = d
      BY <1>0, <2>1 DEF TypeOK
    <3>2. d # r
      BY <2>1, <3>1 DEF OneObject
    <3> QED
      BY <1>1, <2>3, <3>1, <3>2 DEF OneObject
  <2> QED
    BY <2>4, <2>5, <2>6, <2>7 DEF OneObject
<1>7. CASE TerminateDispatch(r)
  <2>1. r \in Terminates /\ r \notin Reserves /\ pc[r] = "refreshed"
    BY <1>7, ReserveAssumption DEF TerminateDispatch
  <2>2. PICK c \in Reserves, m \in Makers : c = aim[r] /\ m = Maker(c)
    BY <1>0, <2>1, StoredTyped DEF Aimed
  <2>3. pc[c] = "done"
    <3>1. Exists(c)
      BY <2>1, <2>2 DEF CourseInv, Sighted
    <3> QED
      BY <2>1, <3>1, Served
  <2>4. PICK errors \in ErrorsSeen(c) :
            LET entry == RefreshedEntry(c, view[r][c], errors)
            IN  TerminatedAlready(r, entry) \/ TerminateProceeds(r, entry) \/ TerminateRefused(r, entry)
    BY <1>7, <2>2 DEF TerminateDispatch
  <2>5. PICK entry : entry = RefreshedEntry(c, view[r][c], errors)
    OBVIOUS
  <2>6. entry \in Entries /\ entry.callbackUrl = Stored(c).callbackUrl
    BY <1>0, <2>5, ErrorsTyped, RefreshedTyped
  <2>7. TerminatedAlready(r, entry) \/ TerminateProceeds(r, entry) \/ TerminateRefused(r, entry)
    BY <2>4, <2>5
  <2>8. PICK url \in {r, entry.callbackUrl} : Stores(c, entry, url)
    BY <2>2, <2>7 DEF TerminatedAlready, TerminateProceeds, TerminateRefused, UrlWhenRefused
  <2>9. PICK new : /\ new = [entry EXCEPT !.callbackUrl = url]
                   /\ objects' = [objects EXCEPT ![c][m] = new]
                   /\ current' = [current EXCEPT ![c] = m]
    BY <2>2, <2>8 DEF Stores
  <2>10. new.callbackUrl \in {r, Stored(c).callbackUrl}
    BY <2>6, <2>8, <2>9 DEF Entries
  <2>11. /\ UNCHANGED <<held, told>>
         /\ \A q \in Reserves : task'[q] = task[q]
    <3>1. /\ UNCHANGED <<held, told>>
          /\ task' = task \/ task' = [task EXCEPT ![r] = "redelivering"]
      BY <2>7 DEF TerminatedAlready, TerminateProceeds, TerminateRefused
    <3> QED
      BY <1>0, <2>1, <3>1 DEF TypeOK, Requests
  <2>12. \A d \in Reserves : Stored(d)'.callbackUrl \in {r, Stored(d).callbackUrl}
    BY <1>0, <2>9, <2>10 DEF TypeOK, Stored
  <2>13. current[c] # "none" => m = current[c]
    BY <2>2 DEF Maker
  <2>14. \A d \in Reserves : pc'[d] # "done" => current'[d] = "none"
    BY <1>0, <1>1, <2>3, <2>9, ZenonT(60) DEF OneObject, TypeOK
  <2>15. \A q, d \in Reserves : held'[q][d] # "none" => held'[q][d] = current'[d]
    BY <1>0, <2>9, <2>11, <2>13 DEF OneObject, TypeOK
  <2> QED
    BY <1>1, <2>1, <2>11, <2>12, <2>14, <2>15 DEF OneObject
<1> QED
  BY <1>2, <1>3, <1>4, <1>5, <1>6, <1>7 DEF HandlerStep

LEMMA OneObjectStep == CourseInv /\ Alone /\ OneObject /\ [Next]_vars => OneObject'
<1> SUFFICES ASSUME CourseInv, Alone, OneObject, [Next]_vars PROVE OneObject'
  OBVIOUS
<1>0. TInv /\ TypeOK
  BY DEF CourseInv, TInv
<1> USE DEF storeVars, handlerVars, taskVars
<1>1. CASE UNCHANGED <<objects, current, held, told, task>>
  BY <1>0, <1>1, OneObjectStays
<1>2. ASSUME NEW r \in Requests, RequesterStep(r)
      PROVE  UNCHANGED <<objects, current, held, told, task>>
  BY <1>2 DEF RequesterStep, StartKeyed, StartUnkeyed, StartTerminate
<1>3. CASE Crash
  <2>1. \A c \in Reserves : pc[c] = "done" => pc'[c] = "done"
    BY <1>3 DEF Crash, Requests
  <2>2. \A c \in Reserves, m \in Makers : objects'[c][m] = NoEntry
    BY <1>3 DEF Crash
  <2>3. \A c \in Reserves : current'[c] = "none" /\ \A r \in Reserves : held'[r][c] = "none"
    BY <1>3 DEF Crash
  <2>4. \A c \in Reserves : Stored(c)' = NoEntry /\ NoEntry.callbackUrl # c
    BY <2>2, <2>3, ReserveAssumption DEF Stored, Makers, NoEntry, Requests
  <2>5. \A r \in Reserves : task'[r] # "redelivering" /\ told'[r] = told[r]
    BY <1>3 DEF Crash, RunningTasks, Requests
  <2> QED
    BY <2>1, <2>3, <2>4, <2>5 DEF OneObject
<1> QED
  BY <1>0, <1>1, <1>2, <1>3, TasksKeepOneObject, HandlersKeepOneObject
     DEF Next, DeliverAnswer, Environment, vars

\* A handler that resolves candidates.
LEMMA ResolvingSteps ==
    ASSUME TInv, [Next]_vars, NEW r \in Requests, pc'[r] = "resolving"
    PROVE  \/ pc[r] = "resolving" /\ view'[r] = view[r]
           \/ r \in Keyed /\ CandidatesFound(r)
<1> DEFINE Remains == pc[r] = "resolving" /\ view'[r] = view[r]
<1>0. pc \in [Requests -> PCs] /\ view \in [Requests -> [Reserves -> AggRecords]]
  BY DEF TInv, TypeOK, PCs
<1> USE DEF handlerVars
<1>1. ASSUME UNCHANGED <<pc, view>> PROVE Remains
  BY <1>1
<1>2. ASSUME NEW q \in Requests, NEW next, next # "resolving", pc' = [pc EXCEPT ![q] = next],
             view' = view \/ \E new : view' = [view EXCEPT ![q] = new]
      PROVE  Remains
  BY <1>0, <1>2
<1>3. ASSUME NEW q \in Requests, HandlerStep(q) PROVE Remains \/ (r \in Keyed /\ CandidatesFound(r))
  <2>1. CASE CandidatesFound(q)
    <3>1. CASE q = r
      BY <2>1, <3>1 DEF CandidatesFound
    <3>2. CASE q # r
      BY <1>0, <2>1, <3>2 DEF CandidatesFound
    <3> QED
      BY <3>1, <3>2
  <2>2. CASE Unanswered(q) \/ ReserveAcked(q) \/ TerminateAcked(q) \/ HandlerPostFails(q)
    BY <1>2, <2>2 DEF Unanswered, FindFails, TerminateSummaryFails, TerminateNotFound, GivesUp,
       ReserveAcked, TerminateAcked, HandlerPostFails, Replies
  <2>3. CASE ReserveAnew(q) \/ \E d \in Reserves : CandidateResolved(q, d)
    BY <1>1, <1>2, <2>3 DEF ReserveAnew, CandidateResolved
  <2>4. CASE \E d \in Reserves : Reuse(q, d)
    <3>1. Replies(q, "202")
      BY <2>4 DEF Reuse
    <3> QED
      BY <1>2, <3>1 DEF Replies
  <2>5. CASE TerminateSummary(q)
    <3>1. q # r
      BY <1>0, <2>5 DEF TerminateSummary
    <3> QED
      BY <1>0, <2>5, <3>1 DEF TerminateSummary
  <2>6. CASE TerminateDispatch(q)
    <3>1. PICK entry : TerminatedAlready(q, entry) \/ TerminateProceeds(q, entry) \/ TerminateRefused(q, entry)
      BY <2>6 DEF TerminateDispatch
    <3> QED
      BY <1>2, <3>1 DEF TerminatedAlready, TerminateProceeds, TerminateRefused, Replies
  <2> QED
    BY <1>3, <2>1, <2>2, <2>3, <2>4, <2>5, <2>6 DEF HandlerStep
<1>4. ASSUME NEW q \in Requests, RequesterStep(q) PROVE Remains
  BY <1>2, <1>4 DEF RequesterStep, StartKeyed, StartUnkeyed, StartTerminate
<1>5. ASSUME NEW q \in Requests, TaskStep(q) PROVE Remains
  BY <1>1, <1>5 DEF TaskStep, ReserveConfirmed, ReserveFailed, ReserveTimesOut, CommitAcked,
     CommitPostFails, Committed, CommitFailed, CommitTimesOut, WaitTimeout, Fails, TerminateEnds,
     Finished, Redelivers
<1>6. CASE Crash
  BY <1>0, <1>6 DEF Crash
<1> QED
  BY <1>1, <1>3, <1>4, <1>5, <1>6 DEF Next, DeliverAnswer, Environment, vars

\* A connection that was acknowledged to the request it was made for is listed to every other request
\* with its globalReservationId, as long as it lives.
Listed == \A c, d \in Keyed :
    c # d /\ told[c] = c /\ agg[c].lifecycle = "Created" /\ pc[d] = "resolving"
       => view[d][c].lifecycle # "None"

\* A reserve that was answered 202 was told the connection that was made for it, if one was, and
\* nothing of it is on its way to the aggregator.
Informed == \A c \in Reserves :
    /\ pc[c] = "done" => reply[c] \in {"202", "502", "lost"}
    /\ reply[c] = "202" => /\ pc[c] = "done"
                           /\ <<"reserve", c>> \notin posted
                           /\ Exists(c) => told[c] = c

LEMMA ToldOneself ==
    ASSUME CourseInv, [Next]_vars, NEW r \in Keyed, told'[r] = r
    PROVE  told[r] = r \/ ReserveAcked(r)
<1>1. r \in Reserves /\ r \in Requests
  BY DEF Reserves, Requests
<1>2. ~Reuse(r, r)
  <2> SUFFICES ASSUME Reuse(r, r) PROVE FALSE
    OBVIOUS
  <2>1. view[r][r].lifecycle # "None" /\ pc[r] = "resolving"
    BY DEF Reuse, AllResolved, Reusable, Live, Candidates
  <2>2. Exists(r)
    BY <1>1, <2>1 DEF CourseInv, Sighted, Follows
  <2> QED
    BY <1>1, <2>1, <2>2 DEF CourseInv, SentOnce, Early
<1> QED
  BY <1>1, <1>2, ToldSteps DEF CourseInv

LEMMA ListedStep == CourseInv /\ Alone /\ Listed /\ [Next]_vars => Listed'
<1> SUFFICES ASSUME CourseInv, Alone, Listed, [Next]_vars,
                    NEW c \in Keyed, NEW d \in Keyed, c # d,
                    told'[c] = c, agg'[c].lifecycle = "Created", pc'[d] = "resolving"
             PROVE  view'[d][c].lifecycle # "None"
  BY DEF Listed
<1>0. /\ TInv /\ TypeOK /\ c \in Reserves /\ c \in Requests /\ d \in Requests
      /\ SentOnce /\ Sighted
  BY DEF CourseInv, TInv, Reserves, Requests
<1>1. CASE told[c] = c
  <2>1. agg[c].lifecycle = "Created"
    BY <1>0, <1>1, Evolution DEF Sighted, Evolves
  <2>2. ASSUME CandidatesFound(d) PROVE view'[d][c] = agg[c]
    BY <1>0, <2>2 DEF CandidatesFound, TypeOK
  <2> QED
    BY <1>0, <1>1, <2>1, <2>2, ResolvingSteps DEF Listed
<1>2. CASE ReserveAcked(c)
  <2>1. pc[c] = "posting" /\ pc'[d] = pc[d]
    BY <1>0, <1>2 DEF ReserveAcked, Replies, TypeOK
  <2> QED
    BY <1>0, <2>1 DEF Alone, Active
<1> QED
  BY <1>1, <1>2, ToldOneself

\* How the reply of a reserve comes about.
LEMMA AnsweringSteps ==
    ASSUME TInv, [Next]_vars, NEW c \in Reserves
    PROVE  \/ reply'[c] = reply[c] /\ (pc'[c] = "done" => pc[c] = "done")
           \/ reply'[c] \in {"502", "lost"} /\ pc[c] # "done" /\ pc'[c] = "done"
           \/ /\ reply'[c] = "202" /\ pc'[c] = "done"
              /\ ReserveAcked(c) \/ \E d \in Reserves : Reuse(c, d)
<1> DEFINE Stays == reply'[c] = reply[c] /\ (pc'[c] = "done" => pc[c] = "done")
           FailsFor == reply'[c] \in {"502", "lost"} /\ pc[c] # "done" /\ pc'[c] = "done"
           Succeeds == /\ reply'[c] = "202" /\ pc'[c] = "done"
                       /\ ReserveAcked(c) \/ \E d \in Reserves : Reuse(c, d)
<1>0. /\ pc \in [Requests -> PCs] /\ reply \in [Requests -> Codes]
      /\ c \in Requests /\ c \notin Terminates
  BY ReserveAssumption DEF TInv, TypeOK, PCs, Codes, Requests
<1> USE DEF handlerVars
<1>1. CASE UNCHANGED <<pc, reply>>
  BY <1>1
<1>2. ASSUME NEW q, NEW next, next # "done", pc' = [pc EXCEPT ![q] = next], UNCHANGED reply
      PROVE  Stays
  BY <1>0, <1>2
<1>3. ASSUME NEW q, q # c, NEW code, Replies(q, code) PROVE Stays
  BY <1>0, <1>3 DEF Replies
<1>4. ASSUME NEW q \in Requests, HandlerStep(q) PROVE Stays \/ FailsFor \/ Succeeds
  <2>1. CASE \/ CandidatesFound(q) \/ ReserveAnew(q) \/ TerminateSummary(q)
             \/ \E d \in Reserves : CandidateResolved(q, d)
    BY <1>1, <1>2, <2>1 DEF CandidatesFound, ReserveAnew, TerminateSummary, CandidateResolved
  <2>2. CASE FindFails(q) \/ HandlerPostFails(q)
    <3>1. Replies(q, "502") /\ pc[q] # "done"
      BY <2>2 DEF FindFails, GivesUp, HandlerPostFails
    <3> QED
      BY <1>0, <1>3, <3>1 DEF Replies
  <2>3. CASE TerminateSummaryFails(q) \/ TerminateNotFound(q) \/ TerminateAcked(q)
    BY <1>0, <1>3, <2>3 DEF TerminateSummaryFails, TerminateNotFound, GivesUp, TerminateAcked
  <2>4. CASE ReserveAcked(q)
    <3>1. Replies(q, "202")
      BY <2>4 DEF ReserveAcked
    <3>2. CASE q = c
      BY <1>0, <2>4, <3>1, <3>2 DEF Replies
    <3> QED
      BY <1>3, <3>1, <3>2
  <2>5. ASSUME NEW d \in Reserves, Reuse(q, d) PROVE Stays \/ Succeeds
    <3>1. Replies(q, "202")
      BY <2>5 DEF Reuse
    <3>2. CASE q = c
      BY <1>0, <2>5, <3>1, <3>2 DEF Replies
    <3> QED
      BY <1>3, <3>1, <3>2
  <2>6. CASE TerminateDispatch(q)
    <3>1. q # c /\ \E entry : \/ TerminatedAlready(q, entry)
                              \/ TerminateProceeds(q, entry)
                              \/ TerminateRefused(q, entry)
      BY <1>0, <2>6 DEF TerminateDispatch
    <3> QED
      BY <1>2, <1>3, <3>1 DEF TerminatedAlready, TerminateProceeds, TerminateRefused
  <2> QED
    BY <1>4, <2>1, <2>2, <2>3, <2>4, <2>5, <2>6 DEF HandlerStep, Unanswered
<1>5. ASSUME NEW q \in Requests, RequesterStep(q) PROVE Stays
  BY <1>2, <1>5 DEF RequesterStep, StartKeyed, StartUnkeyed, StartTerminate
<1>6. ASSUME NEW q \in Requests, TaskStep(q) PROVE UNCHANGED <<pc, reply>>
  BY <1>6 DEF TaskStep, ReserveConfirmed, ReserveFailed, ReserveTimesOut, CommitAcked,
     CommitPostFails, Committed, CommitFailed, CommitTimesOut, WaitTimeout, Fails, TerminateEnds,
     Finished, Redelivers
<1>7. CASE Crash
  BY <1>0, <1>7 DEF Crash
<1> QED
  BY <1>1, <1>4, <1>5, <1>6, <1>7 DEF Next, DeliverAnswer, Environment, vars

LEMMA InformedStep == CourseInv /\ Informed /\ [Next]_vars => Informed'
<1> SUFFICES ASSUME CourseInv, Informed, [Next]_vars, NEW c \in Reserves
             PROVE  /\ pc'[c] = "done" => reply'[c] \in {"202", "502", "lost"}
                    /\ reply'[c] = "202" => /\ pc'[c] = "done"
                                            /\ <<"reserve", c>> \notin posted'
                                            /\ Exists(c)' => told'[c] = c
  BY DEF Informed
<1>0. TInv /\ TypeOK /\ SentOnce /\ SentOnce' /\ c \in Requests
  BY SentOnceStep DEF CourseInv, TInv, Requests
<1>1. Advances(c) /\ acked' \subseteq acked \union posted
  BY <1>0, AllAdvance, AcceptedWasSent
<1>2. CASE reply'[c] = reply[c] /\ (pc'[c] = "done" => pc[c] = "done")
  <2> SUFFICES ASSUME reply[c] = "202"
               PROVE  /\ pc'[c] = "done" /\ <<"reserve", c>> \notin posted'
                      /\ Exists(c)' => told'[c] = c
    BY <1>2 DEF Informed
  <2>1. /\ pc[c] = "done" /\ <<"reserve", c>> \notin posted /\ (Exists(c) => told[c] = c)
    BY DEF Informed
  <2>2. pc'[c] = "done" /\ <<"reserve", c>> \notin posted'
    BY <1>1, <2>1 DEF Advances, Early
  <2>3. Exists(c)' => Exists(c)
    BY <1>0, <1>1, <2>1 DEF SentOnce
  <2>4. told'[c] = told[c]
    BY <1>0, <2>1, ToldSteps DEF ReserveAcked, Reuse, AllResolved
  <2> QED
    BY <2>1, <2>2, <2>3, <2>4
<1>3. CASE reply'[c] \in {"502", "lost"}
  BY <1>3
<1>4. CASE reply'[c] = "202" /\ pc'[c] = "done" /\ ReserveAcked(c)
  <2>1. /\ <<"reserve", c>> \in acked /\ told'[c] = c /\ posted' = posted
    BY <1>0, <1>4 DEF ReserveAcked, externalVars, TypeOK
  <2> QED
    BY <1>0, <1>4, <2>1 DEF SentOnce
<1>5. CASE reply'[c] = "202" /\ pc'[c] = "done" /\ \E d \in Reserves : Reuse(c, d)
  <2>1. pc[c] \in Early /\ posted' = posted /\ acked' = acked
    BY <1>5 DEF Reuse, AllResolved, Early, externalVars
  <2> QED
    BY <1>0, <1>5, <2>1 DEF SentOnce
<1> QED
  BY <1>0, <1>2, <1>3, <1>4, <1>5, AnsweringSteps

PatientInv == CourseInv /\ Alone /\ OneObject /\ Listed /\ Informed

LEMMA PatientKept ==
    ASSUME Patience = "reply"
    PROVE  Spec => []PatientInv
<1>1. Init => Alone /\ OneObject /\ Listed /\ Informed
  <2> SUFFICES ASSUME Init PROVE Alone /\ OneObject /\ Listed /\ Informed
    OBVIOUS
  <2>1. \A r \in Reserves : r # NoRequest
    BY ReserveAssumption DEF Requests
  <2>2. Informed
    BY DEF Init, Informed, Requests
  <2> QED
    BY <2>1, <2>2, ReserveAssumption
    DEF Init, Alone, Active, OneObject, Listed, Reserves, Requests, Nothing
<1>2. PatientInv /\ CourseInv' /\ [Next]_vars => PatientInv'
  BY AloneStep, OneObjectStep, ListedStep, InformedStep DEF PatientInv, CourseInv
<1> QED
  BY <1>1, <1>2, CourseKept, PTL DEF Spec, PatientInv

\* For any number of requests with one globalReservationId that wait for each other's reply, and any
\* faults: a request that reserves anew beside a live connection, or beside a reserve on its way, was
\* not listed that connection, and the reply of the request it was made for was a failure or lost.
THEOREM RepeatsReuse ==
    ASSUME Patience = "reply"
    PROVE  Spec => RepeatReusesWhatIsThere
<1> DEFINE Reuses == \A r \in Keyed : pc[r] # "posting" /\ pc'[r] = "posting" =>
          \A c \in Keyed \ {r} :
             agg[c].lifecycle = "Created" \/ <<"reserve", c>> \in posted =>
                view[r][c].lifecycle = "None" /\ reply[c] \in {"502", "lost"}
<1>1. RepeatReusesWhatIsThere <=> [][Reuses]_vars
  BY DEF RepeatReusesWhatIsThere
<1>2. PatientInv /\ [Next]_vars => [Reuses]_vars
  <2> SUFFICES ASSUME PatientInv, [Next]_vars,
                      NEW r \in Keyed, pc[r] # "posting", pc'[r] = "posting",
                      NEW c \in Keyed \ {r},
                      agg[c].lifecycle = "Created" \/ <<"reserve", c>> \in posted
               PROVE  view[r][c].lifecycle = "None" /\ reply[c] \in {"502", "lost"}
    OBVIOUS
  <2>0. /\ TInv /\ TypeOK /\ SentOnce /\ Sighted /\ Warranted /\ Alone /\ Listed /\ Informed
        /\ r \in Reserves /\ r \in Requests /\ c \in Reserves /\ c \in Requests
    BY DEF PatientInv, CourseInv, TInv, Reserves, Requests
  <2>1. ReserveAnew(r)
    BY <2>0, PostingSteps, ReserveAssumption DEF TerminateDispatch
  <2>2. pc[r] = "resolving" /\ AllResolved(r) /\ Reusable(r) = {}
    BY <2>1 DEF ReserveAnew, AllResolved
  <2>3. pc[c] = "done"
    <3>1. pc[c] \notin Early
      BY <2>0 DEF SentOnce, Exists
    <3> QED
      BY <2>0, <2>2, <3>1 DEF Alone, Active, Early
  <2>4. view[r][c].lifecycle = "None"
    <3> SUFFICES ASSUME view[r][c].lifecycle # "None" PROVE FALSE
      OBVIOUS
    <3>1. Exists(c) /\ agg[c].lifecycle = "Created"
      BY <2>0 DEF Sighted, Follows, SentOnce
    <3>2. c \in Candidates(r)
      BY DEF Candidates
    <3>3. held[r][c] \in Makers /\ objects[c][held[r][c]].status = "TERMINATED"
      BY <2>0, <2>2, <3>2 DEF AllResolved, Reusable, Live, TypeOK
    <3> QED
      BY <2>0, <3>1, <3>3 DEF Warranted, Closing
  <2>5. reply[c] # "202"
    <3> SUFFICES ASSUME reply[c] = "202" PROVE FALSE
      OBVIOUS
    <3>1. agg[c].lifecycle = "Created" /\ told[c] = c
      BY <2>0 DEF Informed, Exists
    <3> QED
      BY <2>0, <2>2, <2>4, <3>1 DEF Listed
  <2> QED
    BY <2>0, <2>3, <2>4, <2>5 DEF Informed
<1> HIDE DEF Reuses
<1> QED
  BY <1>1, <1>2, PatientKept, PTL DEF Spec

\* Once a retry was told a connection, no result of it goes to the first requester any more, for any
\* number of requests that come one after the other and any faults.
THEOREM TakenOver ==
    ASSUME Patience = "reply"
    PROVE  Spec => RetryTakesOver
<1> DEFINE TakesOver == \A rep \in reports' \ reports :
          rep.to \in Keyed /\ rep.conn = rep.to => \A r \in Keyed \ {rep.to} : told[r] # rep.conn
<1>1. RetryTakesOver <=> [][TakesOver]_vars
  BY DEF RetryTakesOver
<1>2. PatientInv /\ [Next]_vars => [TakesOver]_vars
  <2> SUFFICES ASSUME PatientInv, [Next]_vars, NEW rep \in reports' \ reports,
                      rep.to \in Keyed, rep.conn = rep.to, NEW r \in Keyed \ {rep.to},
                      told[r] = rep.conn
               PROVE  FALSE
    OBVIOUS
  <2>1. OneObject /\ TInv
    BY DEF PatientInv, CourseInv
  <2>2. rep.to \in Reserves /\ r \in Reserves
    BY DEF Reserves
  <2>3. CASE rep.to = Stored(rep.conn).callbackUrl
    BY <2>1, <2>2, <2>3 DEF OneObject
  <2>4. CASE task[rep.to] = "redelivering" /\ rep.conn = told[rep.to]
    BY <2>1, <2>2, <2>4 DEF OneObject
  <2> QED
    BY <2>1, <2>2, <2>3, <2>4, ReportSteps
<1> HIDE DEF TakesOver
<1> QED
  BY <1>1, <1>2, PatientKept, PTL DEF Spec
=============================================================================
