------------------------- MODULE StatusHistory_proofs -------------------------
(***************************************************************************)
(* What a reader derives from the history agrees with what happened, for   *)
(* any timeout, any startTime, any horizon and any number of results.      *)
(***************************************************************************)
EXTENDS StatusHistory, StateMapping_proofs, FiniteSetTheorems

Results == [id : Nat, operation : {"provisionConfirmed", "releaseConfirmed"}, time : Nat]
DataPlaneChanges == [active : BOOLEAN, time : Nat]

HTypeOK ==
    /\ now \in Nat /\ last \in Nat /\ opAt \in Nat
    /\ startTime \in Nat \union {NoTime}
    /\ provision \in {"Released", "Provisioned"}
    /\ active \in BOOLEAN /\ dropped \in BOOLEAN
    /\ results \in SUBSET Results /\ IsFiniteSet(results)
    /\ changes \in SUBSET DataPlaneChanges

(***************************************************************************)
(* The inductive invariant: the clocks are in order; the result with the   *)
(* highest id is the one of the last operation, with its time; and the     *)
(* data plane came up since that operation exactly when it is up now, or   *)
(* was and dropped.                                                        *)
(***************************************************************************)
Ordered == opAt <= last /\ last <= now /\ \A change \in changes : change.time <= last

LastResult ==
    [id |-> Cardinality(results),
     operation |-> IF provision = "Provisioned" THEN "provisionConfirmed" ELSE "releaseConfirmed",
     time |-> opAt]

Recorded ==
    /\ \/ LastResult \in results
       \/ results = {} /\ provision = "Released" /\ ~active
    /\ \A res \in results : res = LastResult \/ res.id < Cardinality(results)

Explained ==
    /\ dropped => provision = "Provisioned" /\ ~active
    /\ provision = "Provisioned" =>
          (DataPlaneActiveSince(changes, opAt) <=> active \/ dropped)

HInv == HTypeOK /\ Ordered /\ Recorded /\ Explained

\* A recorded result is the last one from then on.
LEMMA ResultRecorded ==
    ASSUME HInv, NEW operation \in {"provisionConfirmed", "releaseConfirmed"},
           RecordsResult(operation), now' = now, changes' = changes, active' = active,
           provision' = IF operation = "provisionConfirmed" THEN "Provisioned" ELSE "Released",
           UNCHANGED startTime, operation = "provisionConfirmed" => ~active
    PROVE  HInv'
<1> DEFINE new == [id |-> Cardinality(results) + 1, operation |-> operation, time |-> now]
<1>1. /\ HTypeOK /\ Ordered /\ Recorded
      /\ Cardinality(results) \in Nat
  BY FS_CardinalityType DEF HInv, HTypeOK
<1>2. results' = results \union {new} /\ opAt' = now /\ last' = now /\ dropped' = FALSE /\ last < now
  BY <1>1 DEF RecordsResult, HTypeOK
<1>3. \A res \in results : res.id \in Nat /\ res.id <= Cardinality(results)
  BY <1>1 DEF Recorded, LastResult, HTypeOK, Results
<1>4. new \notin results
  BY <1>1, <1>3
<1>5. IsFiniteSet(results') /\ Cardinality(results') = Cardinality(results) + 1
  BY <1>1, <1>2, <1>4, FS_AddElement DEF HTypeOK
<1>6. HTypeOK'
  <2>1. new \in Results
    BY <1>1 DEF HTypeOK, Results
  <2> QED
    BY <1>1, <1>2, <1>5, <2>1 DEF HTypeOK
<1>7. Ordered'
  <2>1. \A change \in changes : change.time \in Nat
    BY <1>1 DEF HTypeOK, DataPlaneChanges
  <2> QED
    BY <1>1, <1>2, <2>1 DEF Ordered, HTypeOK
<1>8. Recorded'
  <2>1. LastResult' = new
    BY <1>2, <1>5 DEF LastResult
  <2> QED
    BY <1>1, <1>2, <1>3, <1>5, <2>1 DEF Recorded
<1>9. Explained'
  <2>1. ~DataPlaneActiveSince(changes, now)
    <3>1. \A change \in changes : change.time \in Nat /\ change.time < now
      BY <1>1, <1>2 DEF Ordered, HTypeOK, DataPlaneChanges
    <3> QED
      BY <1>1, <3>1 DEF DataPlaneActiveSince, HTypeOK
  <2>2. ~DataPlaneActiveSince(changes', opAt')
    BY <1>2, <2>1
  <2> QED
    BY <1>2, <2>2 DEF Explained
<1> QED
  BY <1>6, <1>7, <1>8, <1>9 DEF HInv

\* A change that is recorded at this moment counts since the last operation if it is upwards.
LEMMA ChangeRecorded ==
    ASSUME HInv, NEW to \in BOOLEAN, Changes(to)
    PROVE  /\ Ordered'
           /\ changes' \in SUBSET DataPlaneChanges
           /\ DataPlaneActiveSince(changes, opAt)' <=> to \/ DataPlaneActiveSince(changes, opAt)
<1> DEFINE new == [active |-> to, time |-> now]
<1>1. HTypeOK /\ Ordered
  BY DEF HInv
<1>2. changes' = changes \union {new} /\ last' = now /\ opAt' = opAt /\ now' = now
  BY DEF Changes
<1>3. new \in DataPlaneChanges /\ \A change \in changes : change.time \in Nat
  BY <1>1 DEF HTypeOK, DataPlaneChanges
<1>4. Ordered'
  BY <1>1, <1>2, <1>3 DEF Ordered, HTypeOK
<1>5. new.time # NoTime /\ new.time >= opAt
  BY <1>1 DEF HTypeOK, Ordered, NoTime
<1>6. DataPlaneActiveSince(changes', opAt') <=> to \/ DataPlaneActiveSince(changes, opAt)
  <2>1. DataPlaneActiveSince(changes', opAt') <=>
           \E change \in changes \union {new} :
              change.active /\ change.time # NoTime /\ change.time >= opAt
    BY <1>2 DEF DataPlaneActiveSince
  <2>2. (new.active /\ new.time # NoTime /\ new.time >= opAt) <=> to
    BY <1>5
  <2> HIDE DEF new
  <2> QED
    BY <2>1, <2>2 DEF DataPlaneActiveSince
<1> QED
  BY <1>1, <1>2, <1>3, <1>4, <1>6 DEF HTypeOK, DataPlaneActiveSince

LEMMA HistoryKept == Spec => []HInv
<1>1. Init => HInv
  <2> SUFFICES ASSUME Init PROVE HInv
    OBVIOUS
  <2>1. HTypeOK
    BY HistoryAssumption, FS_EmptySet DEF Init, HTypeOK
  <2>2. Ordered /\ Recorded /\ Explained
    BY DEF Init, Ordered, Recorded, Explained
  <2> QED
    BY <2>1, <2>2 DEF HInv
<1>2. HInv /\ [Next]_vars => HInv'
  <2> SUFFICES ASSUME HInv, [Next]_vars PROVE HInv'
    OBVIOUS
  <2>1. CASE Tick
    BY <2>1 DEF Tick, HInv, HTypeOK, Ordered, Recorded, LastResult, Explained,
                DataPlaneActiveSince
  <2>2. CASE ProvisionConfirmed
    BY <2>2, ResultRecorded DEF ProvisionConfirmed
  <2>3. CASE ReleaseConfirmed
    BY <2>3, ResultRecorded DEF ReleaseConfirmed
  <2>4. CASE Up
    <3>1. Changes(TRUE) /\ provision = "Provisioned" /\ ~dropped /\ UNCHANGED <<provision, results, opAt, dropped>>
      BY <2>4 DEF Up, Changes
    <3>2. HTypeOK'
      BY <2>4, <3>1, ChangeRecorded DEF Up, Changes, HInv, HTypeOK
    <3>3. Recorded'
      BY <3>1 DEF HInv, Recorded, LastResult
    <3>4. active' = TRUE /\ DataPlaneActiveSince(changes, opAt)'
      BY <3>1, ChangeRecorded DEF Changes
    <3>5. Explained'
      BY <3>1, <3>4 DEF Explained
    <3> QED
      BY <3>1, <3>2, <3>3, <3>5, ChangeRecorded DEF HInv
  <2>5. CASE Down
    <3>1. /\ Changes(FALSE) /\ active /\ dropped' = (provision = "Provisioned") /\ active' = FALSE
          /\ UNCHANGED <<provision, results, opAt>>
      BY <2>5 DEF Down, Changes
    <3>2. HTypeOK'
      BY <2>5, <3>1, ChangeRecorded DEF Down, Changes, HInv, HTypeOK
    <3>3. Recorded'
      BY <3>1 DEF HInv, Recorded, LastResult
    <3>4. Explained'
      BY <3>1, ChangeRecorded DEF HInv, Explained
    <3> QED
      BY <3>1, <3>2, <3>3, <3>4, ChangeRecorded DEF HInv
  <2>6. CASE UNCHANGED vars
    BY <2>6 DEF vars, HInv, HTypeOK, Ordered, Recorded, LastResult, Explained,
                DataPlaneActiveSince
  <2> QED
    BY <2>1, <2>2, <2>3, <2>4, <2>5, <2>6 DEF Next
<1> QED
  BY <1>1, <1>2, PTL DEF Spec

(***************************************************************************)
(* What is derived, in the terms of what happened.                         *)
(***************************************************************************)
LEMMA OperationTime ==
    ASSUME HInv, results # {}
    PROVE  LatestOperationTime(results, LastResult.operation) = opAt
<1>1. LastResult \in results /\ Cardinality(results) \in Nat
  BY FS_CardinalityType DEF HInv, Recorded, HTypeOK
<1>2. /\ LastResult.id \in Nat /\ LastResult.time \in Int
      /\ \A res \in results : res.id \in Nat /\ (res = LastResult \/ res.id < LastResult.id)
  BY <1>1 DEF HInv, Recorded, LastResult, HTypeOK, Results
<1>3. LatestOperationTime(results, LastResult.operation) = LastResult.time
  BY <1>1, <1>2, LatestResult
<1> QED
  BY <1>3 DEF LastResult

LEMMA DueTime ==
    ASSUME HInv, HistoryAssumption
    PROVE  /\ Due \in Int
           /\ provision = "Provisioned" => Due = Timeout + SlaStart(opAt, startTime)
           /\ provision = "Released" => Due = Timeout + opAt
<1>1. startTime \in Int /\ opAt \in Int
  BY DEF HInv, HTypeOK, NoTime
<1>2. SlaStart(opAt, startTime) = IF startTime > opAt THEN startTime ELSE opAt
  BY <1>1, MaxOfTwo DEF SlaStart, HInv, HTypeOK, NoTime
<1> QED
  BY <1>1, <1>2 DEF Due, HistoryAssumption

\* A dropped data plane, a late operation, and the statuses that wait: each exactly when it happened.
Waiting ==
    \/ provision = "Provisioned" /\ ~active /\ ~dropped
    \/ provision = "Released" /\ active

Agrees ==
    /\ Derived.reason = "dropped" <=> dropped
    /\ Derived.reason = "late" <=> Waiting /\ now > Due
    /\ Derived.status = "FAILED" <=> dropped \/ (Waiting /\ now > Due)
    /\ Derived.status \in TransientStatuses <=> Waiting /\ ~(now > Due)

LEMMA DerivedAgrees ==
    ASSUME HInv
    PROVE  Agrees
<1> DEFINE base == MapNsiStates([lifecycle |-> "Created", reservation |-> "ReserveStart",
                      provision |-> provision, active |-> active], FALSE)
           provisionAt == LatestOperationTime(results, "provisionConfirmed")
           releaseAt == LatestOperationTime(results, "releaseConfirmed")
<1> USE HistoryAssumption DEF NoError, TransientStatuses, Agrees, Waiting
<1>1. now \in Int /\ opAt \in Int /\ opAt # NoTime /\ Timeout \in Int /\ Due \in Int
  BY DueTime DEF HInv, HTypeOK, NoTime, HistoryAssumption
<1>2. base = CASE active /\ provision = "Released" -> "DEACTIVATING"
               [] active /\ provision # "Released" -> "ACTIVATED"
               [] ~active /\ provision = "Provisioned" -> "ACTIVATING"
               [] OTHER -> "RESERVED"
  BY DEF MapNsiStates, EndedLifecycles, FailedReservations, OpenReservations
<1>3. provision \in {"Released", "Provisioned"} /\ active \in BOOLEAN
  BY DEF HInv, HTypeOK
<1>4. CASE provision = "Provisioned" /\ ~active
  <2>1. provisionAt = opAt
    BY <1>4, OperationTime DEF LastResult, HInv, Recorded
  <2>2. Overdue(SlaStart(provisionAt, startTime), now, Timeout) <=> now > Due
    <3>1. SlaStart(opAt, startTime) \in Int
      BY <1>1, MaxOfTwo DEF SlaStart, HInv, HTypeOK, NoTime
    <3> QED
      BY <1>1, <1>4, <2>1, <3>1, DueTime DEF Overdue
  <2>3. DataPlaneActiveSince(changes, provisionAt) <=> dropped
    BY <1>4, <2>1 DEF HInv, Explained
  <2>4. Derived = Refine("ACTIVATING", TRUE, dropped, now > Due)
    <3>1. Derived = Refine(base, provisionAt # NoTime, DataPlaneActiveSince(changes, provisionAt),
                      Overdue(SlaStart(provisionAt, startTime), now, Timeout))
      BY <1>2, <1>4 DEF Derived, DeriveStatus
    <3> HIDE DEF base, provisionAt
    <3> QED
      BY <1>1, <1>2, <1>4, <2>1, <2>2, <2>3, <3>1 DEF Refine
  <2>5. CASE dropped
    <3>1. Derived = [status |-> "FAILED", reason |-> "dropped"]
      BY <2>4, <2>5 DEF Refine
    <3> QED
      BY <1>4, <2>5, <3>1
  <2>6. CASE ~dropped /\ now > Due
    <3>1. Derived = [status |-> "FAILED", reason |-> "late"]
      BY <2>4, <2>6 DEF Refine
    <3> QED
      BY <1>4, <2>6, <3>1
  <2>7. CASE ~dropped /\ ~(now > Due)
    <3>1. Derived = [status |-> "ACTIVATING", reason |-> NoError]
      BY <2>4, <2>7 DEF Refine
    <3> QED
      BY <1>4, <2>7, <3>1
  <2> QED
    BY <2>5, <2>6, <2>7
<1>5. CASE provision = "Released" /\ active
  <2>1. releaseAt = opAt
    BY <1>5, OperationTime DEF LastResult, HInv, Recorded
  <2>2. Overdue(releaseAt, now, Timeout) <=> now > Due
    BY <1>1, <1>5, <2>1, DueTime DEF Overdue
  <2>3. Derived = Refine("DEACTIVATING", TRUE, FALSE, now > Due)
    <3>1. Derived = Refine(base, releaseAt # NoTime, FALSE, Overdue(releaseAt, now, Timeout))
      BY <1>2, <1>5 DEF Derived, DeriveStatus
    <3> HIDE DEF base, releaseAt
    <3> QED
      BY <1>1, <1>2, <1>5, <2>1, <2>2, <3>1 DEF Refine
  <2>4. ~dropped
    BY <1>5 DEF HInv, Explained
  <2> QED
    BY <1>5, <2>3, <2>4 DEF Refine
<1>6. CASE (provision = "Provisioned") = active
  <2>1. base \in {"ACTIVATED", "RESERVED"}
    BY <1>2, <1>3, <1>6
  <2>2. Derived = [status |-> base, reason |-> NoError]
    <3>1. PICK known, late : Derived = Refine(base, known, FALSE, late)
      BY <2>1 DEF Derived, DeriveStatus
    <3> HIDE DEF base
    <3> QED
      BY <2>1, <3>1 DEF Refine
  <2>3. ~dropped
    BY <1>3, <1>6 DEF HInv, Explained
  <2> HIDE DEF base
  <2> QED
    BY <1>3, <1>6, <2>1, <2>2, <2>3
<1> QED
  BY <1>3, <1>4, <1>5, <1>6

(***************************************************************************)
(* The theorems.                                                           *)
(***************************************************************************)
\* A reader reports a drop exactly when the data plane dropped since the last provisionConfirmed:
\* no earlier cycle is mistaken for it, and none is missed (derive_status).
THEOREM DropsDetected == Spec => []DropIsDetected
<1>1. HInv => DropIsDetected
  BY DerivedAgrees DEF Agrees, DropIsDetected, HInv, Explained
<1> QED
  BY <1>1, HistoryKept, PTL

\* Nothing is failed for lateness before its time has passed.
THEOREM NothingFailedEarly == Spec => []NeverFailedEarly
<1>1. HInv => NeverFailedEarly
  BY DerivedAgrees DEF Agrees, NeverFailedEarly
<1> QED
  BY <1>1, HistoryKept, PTL

\* ACTIVATING and DEACTIVATING end with that time, however many cycles went before.
THEOREM TransientsBounded == Spec => []TransientIsBounded
<1>1. HInv => TransientIsBounded
  <2> SUFFICES ASSUME HInv PROVE TransientIsBounded
    OBVIOUS
  <2>1. now \in Int /\ Due \in Int
    BY DueTime, HistoryAssumption DEF HInv, HTypeOK
  <2> QED
    BY <2>1, DerivedAgrees DEF Agrees, TransientIsBounded
<1> QED
  BY <1>1, HistoryKept, PTL

\* The passing of time takes no failure back.
THEOREM FailuresOutlastTime == Spec => FailureOutlastsTime
<1>1. HInv => Agrees
  BY DerivedAgrees
<1>2. HInv /\ Agrees /\ Agrees' /\ [Next]_vars
         => [now' # now /\ Derived.status = "FAILED" => Derived'.status = "FAILED"]_vars
  <2> SUFFICES ASSUME HInv, Agrees, Agrees', Next, now' # now, Derived.status = "FAILED"
               PROVE  Derived'.status = "FAILED"
    BY DEF vars
  <2>1. Tick
    BY DEF Next, ProvisionConfirmed, ReleaseConfirmed, Up, Down, Changes
  <2>2. now \in Int /\ Due \in Int /\ now' = now + 1
    BY <2>1, DueTime, HistoryAssumption DEF Tick, HInv, HTypeOK
  <2>3. Due' = Due /\ Waiting' = Waiting /\ dropped' = dropped
    BY <2>1 DEF Tick, Due, Waiting
  <2> QED
    BY <2>2, <2>3 DEF Agrees
<1> QED
  BY <1>1, <1>2, HistoryKept, PTL DEF Spec, FailureOutlastsTime
=============================================================================
