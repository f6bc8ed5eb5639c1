------------------------- MODULE StateMapping_proofs -------------------------
(***************************************************************************)
(* What the pure functions of StateMapping return for any argument, and    *)
(* what the modules that use them need to know of Min.                     *)
(***************************************************************************)
EXTENDS StateMapping, WellFoundedInduction, TLAPS

LEMMA MappedStatus ==
    ASSUME NEW states, NEW hasErrorEvent
    PROVE  MapNsiStates(states, hasErrorEvent) \in Statuses
BY DEF MapNsiStates, Statuses

\* An error event leaves only the two terminal statuses.
LEMMA ErrorIsTerminal ==
    ASSUME NEW states
    PROVE  MapNsiStates(states, TRUE) \in TerminalStatuses
BY DEF MapNsiStates, TerminalStatuses

LEMMA RefinedStatus ==
    ASSUME NEW base, NEW known, NEW cameUp, NEW overdue
    PROVE  /\ Refine(base, known, cameUp, overdue).status \in {base, "FAILED"}
           /\ Refine(base, known, cameUp, overdue).reason \in Reasons
BY DEF Refine, Reasons, NoError

LEMMA ResolvedError ==
    ASSUME NEW derived, NEW eventError \in Reasons, NEW existing \in Reasons,
           derived.reason \in Reasons
    PROVE  ResolveLastError(derived, eventError, existing) \in Reasons
BY DEF ResolveLastError, Reasons, NoError

\* The latest result of an operation is the one with the highest id, whatever the others are.
LEMMA LatestResult ==
    ASSUME NEW results, NEW latest \in results, latest.id \in Nat, latest.time \in Int,
           \A res \in results : res.operation = latest.operation =>
              res = latest \/ (res.id \in Nat /\ res.id < latest.id)
    PROVE  LatestOperationTime(results, latest.operation) = latest.time
<1> DEFINE matching == {res \in results : res.operation = latest.operation}
           highest == {res \in matching : \A other \in matching :
                          \/ other.id < res.id
                          \/ other.id = res.id /\ other.time <= res.time}
<1>1. latest \in matching
  OBVIOUS
<1>2. \A res \in highest : res.time = latest.time
  <2> SUFFICES ASSUME NEW res \in matching,
                      \/ latest.id < res.id
                      \/ latest.id = res.id /\ latest.time <= res.time
               PROVE  res.time = latest.time
    BY <1>1
  <2>1. res = latest \/ (res.id \in Nat /\ res.id < latest.id)
    OBVIOUS
  <2> QED
    BY <2>1
<1>3. latest \in highest
  BY <1>1
<1>4. matching # {} /\ (CHOOSE res \in highest : TRUE) \in highest
  BY <1>1, <1>3
<1> QED
  BY <1>2, <1>4 DEF LatestOperationTime

\* The later of two instants.
LEMMA MaxOfTwo ==
    ASSUME NEW a \in Int, NEW b \in Int
    PROVE  Max({a, b}) = IF a >= b THEN a ELSE b
BY DEF Max

\* Min is a choice; that there is something to choose from is that < is well-founded.
Below == {pair \in Nat \X Nat : pair[1] < pair[2]}

LEMMA BelowIsWellFounded == IsWellFoundedOn(Below, Nat)
BY NatLessThanWellFounded DEF OpToRel, Below

LEMMA MinIsLeast ==
    ASSUME NEW T \in SUBSET Nat, T # {}
    PROVE  Min(T) \in T /\ \A x \in T : Min(T) <= x
<1>1. PICK x \in T : \A y \in T : <<y, x>> \notin Below
  BY BelowIsWellFounded, WFMin
<1>2. ASSUME NEW y \in T PROVE x <= y
  <2>1. x \in Nat /\ y \in Nat
    OBVIOUS
  <2>2. <<y, x>> \in Below <=> y < x
    BY <2>1 DEF Below
  <2> QED
    BY <1>1, <2>1, <2>2
<1> QED
  BY <1>2 DEF Min
=============================================================================
