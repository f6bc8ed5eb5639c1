----------------------- MODULE CallbackDelivery_proofs -----------------------
(***************************************************************************)
(* What holds of the delivery of results for any number of deliveries to   *)
(* one callbackURL, any number of attempts and any delay between them.     *)
(***************************************************************************)
EXTENDS CallbackDelivery, TLAPS

(***************************************************************************)
(* When the n-th attempt is due.                                           *)
(***************************************************************************)
DueAt(n) == n * Delay

LEMMA DueFacts ==
    /\ \A n \in Nat : DueAt(n) \in Nat /\ DueAt(n + 1) = DueAt(n) + Delay
    /\ \A n \in 0..Attempts : DueAt(n) <= Oldest
    /\ Oldest = Window + Delay /\ Window = DueAt(Attempts - 1) /\ Oldest = DueAt(Attempts)
    /\ Window \in Nat /\ Oldest \in Nat /\ Never \in Nat /\ Never > Oldest
<1> USE DeliveryAssumption
<1>1. \A n \in Nat : n * Delay \in Nat /\ (n + 1) * Delay = n * Delay + Delay
  OBVIOUS
<1>2. \A n \in 0..Attempts : n * Delay <= Attempts * Delay
  <2> TAKE n \in 0..Attempts
  <2>1. (Attempts - n) * Delay \in Nat /\ Attempts * Delay = n * Delay + (Attempts - n) * Delay
    OBVIOUS
  <2> QED
    BY <2>1
<1>3. Attempts * Delay = (Attempts - 1) * Delay + Delay
  OBVIOUS
<1> QED
  BY <1>1, <1>2, <1>3 DEF DueAt, Oldest, Window, Never

(***************************************************************************)
(* Type correctness.                                                       *)
(***************************************************************************)
\* A step of the requester's process that awaits a result has been counted, and a delivery that has
\* not begun has posted nothing.
TInv ==
    /\ TypeOK
    /\ awaiting => steps > 0
    /\ \A d \in Deliveries : phase[d] = "due" => attempt[d] = 0

LEMMA InitTyped == Init => TInv
<1>0. Oldest \in Nat /\ Never \in Nat /\ Never > Oldest
  BY DueFacts
<1> USE DeliveryAssumption, <1>0 DEF TInv, TypeOK, Ended, proxyVars, requesterVars
<1>r. /\ \A how \in {"none", "sent", "success", "409", "error"}, n \in 0..MaxWrites :
            [at |-> how, version |-> n] \in Exchanges
      /\ \A e \in Exchanges : e.version \in 0..MaxWrites
  BY DEF Exchanges
<1>1. [at |-> "none", version |-> 0] \in Exchanges
  BY <1>r
<1>2. Init => /\ exchange \in [Deliveries -> Exchanges]
              /\ accepted \subseteq Results
  BY <1>1 DEF Init
<1>3. Init => /\ attempt \in [Deliveries -> 0..Attempts]
              /\ payload \in [Deliveries -> 0..MaxWrites]
              /\ left \in [Deliveries -> 0..Delay]
              /\ age \in [Deliveries -> 0..Oldest]
              /\ readyAge \in [Deliveries -> 0..Never]
  BY DEF Init
<1>4. Init => stored \in 0..MaxWrites /\ steps \in 0..MaxSteps
  BY DEF Init
<1>5. Init => awaiting \in BOOLEAN
  BY Zenon DEF Init
<1>6. Init => phase \in [Deliveries -> {"due", "posting", "sleeping"} \union Ended]
  BY DEF Init
<1>7. Init => \A d \in Deliveries : phase[d] = "due" => attempt[d] = 0
  BY DEF Init
<1> QED
  BY <1>2, <1>3, <1>4, <1>5, <1>6, <1>7 DEF Init

LEMMA StepTyped == TInv /\ [Next]_vars => TInv'
<1>0. Oldest \in Nat /\ Never \in Nat /\ Never > Oldest
  BY DueFacts
<1> USE DeliveryAssumption, <1>0 DEF TInv, TypeOK, Ended, proxyVars, requesterVars
<1>r. /\ \A how \in {"none", "sent", "success", "409", "error"}, n \in 0..MaxWrites :
            [at |-> how, version |-> n] \in Exchanges
      /\ \A e \in Exchanges : e.version \in 0..MaxWrites
  BY DEF Exchanges
<1> SUFFICES ASSUME TInv, [Next]_vars PROVE TInv'
  OBVIOUS
<1>1. ASSUME NEW d \in Deliveries, Begin(d) PROVE TInv'
  <2>1. [at |-> "sent", version |-> stored] \in Exchanges
    BY <1>r
  <2> QED
    BY <1>1, <2>1 DEF Begin, Posts
<1>2. ASSUME NEW d \in Deliveries, Retry(d) PROVE TInv'
  BY <1>2, <1>r DEF Retry, Posts
<1>3. ASSUME NEW d \in Deliveries, Conflict(d) PROVE TInv'
  BY <1>3 DEF Conflict
<1>4. ASSUME NEW d \in Deliveries, GivesUp(d) \/ Succeeds(d) \/ Rejected(d) \/ Raises(d)
      PROVE  TInv'
  BY <1>4 DEF GivesUp, Succeeds, Rejected, Raises, Ends
<1>5. ASSUME NEW d \in Deliveries, Arrives(d) \/ Refused(d) PROVE TInv'
  <2>1. ASSUME NEW how \in {"success", "409", "error"}, Answers(d, how)
        PROVE  exchange' \in [Deliveries -> Exchanges]
    BY <1>r, <2>1 DEF Answers
  <2>2. exchange' \in [Deliveries -> Exchanges]
    BY <1>5, <2>1 DEF Arrives, Refused
  <2>3. accepted' \subseteq Results /\ (awaiting' => steps' > 0)
    BY <1>5, <1>r DEF Arrives, Refused, Results
  <2> QED
    BY <1>5, <2>2, <2>3 DEF Arrives, Refused
<1>6. CASE Awaits
  BY <1>6 DEF Awaits
<1>7. CASE Write
  BY <1>7 DEF Write
<1>8. CASE Tick
  BY <1>8 DEF Tick
<1>9. CASE UNCHANGED vars
  BY <1>9 DEF vars
<1> QED
  BY <1>1, <1>2, <1>3, <1>4, <1>5, <1>6, <1>7, <1>8, <1>9 DEF Next, Deliver

LEMMA AlwaysTyped == Spec => []TInv
BY InitTyped, StepTyped, PTL DEF Spec

\* Every variable keeps to its type; in particular no delivery posts more than Attempts times.
THEOREM TypeCorrect == Spec => []TypeOK
<1>1. TInv => TypeOK
  BY DEF TInv
<1> QED
  BY <1>1, AlwaysTyped, PTL

(***************************************************************************)
(* What is accepted.  A result is taken from an exchange that has not been *)
(* answered, and a delivery posts again only after a 409: so what a        *)
(* delivery has had taken was taken from the last exchange it opened.      *)
(***************************************************************************)
Exchanged(d) ==
    /\ phase[d] = "due" => exchange[d].at = "none"
    /\ phase[d] = "sleeping" => exchange[d].at = "409"
    /\ exchange[d].at = "sent" => exchange[d].version = payload[d]

Taken == \A one \in accepted : exchange[one.by].at = "success" /\ one.version = payload[one.by]

AInv == TInv /\ (\A d \in Deliveries : Exchanged(d)) /\ Taken /\ AcceptedOnce

LEMMA AlwaysTaken == Spec => []AInv
<1>1. Init => AInv
  <2>1. Init => TInv
    BY InitTyped
  <2>2. Init => (\A d \in Deliveries : Exchanged(d)) /\ Taken /\ AcceptedOnce
    BY DEF Init, Exchanged, Taken, AcceptedOnce
  <2> QED
    BY <2>1, <2>2 DEF AInv
<1>2. AInv /\ [Next]_vars => AInv'
  <2> SUFFICES ASSUME AInv, [Next]_vars PROVE AInv'
    OBVIOUS
  <2>0. TInv /\ TInv'
    BY StepTyped DEF AInv
  <2>t. /\ phase \in [Deliveries -> {"due", "posting", "sleeping"} \union Ended]
        /\ exchange \in [Deliveries -> Exchanges]
        /\ payload \in [Deliveries -> 0..MaxWrites]
        /\ \A one \in accepted : one.by \in Deliveries
    BY <2>0 DEF TInv, TypeOK, Results
  <2>s. SUFFICES (\A d \in Deliveries : Exchanged(d))' /\ Taken' /\ AcceptedOnce'
    BY <2>0 DEF AInv
  <2>1. ASSUME NEW d \in Deliveries, Begin(d) \/ Retry(d)
        PROVE  (\A e \in Deliveries : Exchanged(e))' /\ Taken' /\ AcceptedOnce'
    <3>1. /\ exchange[d].at # "success"
          /\ exchange' = [exchange EXCEPT ![d] = [at |-> "sent", version |-> payload'[d]]]
          /\ phase' = [phase EXCEPT ![d] = "posting"]
          /\ \A e \in Deliveries : e # d => payload'[e] = payload[e]
          /\ accepted' = accepted
      BY <2>1, <2>t DEF Begin, Retry, Posts, AInv, Exchanged, requesterVars
    <3>2. \A one \in accepted : one.by # d
      BY <3>1 DEF AInv, Taken
    <3>3. (\A e \in Deliveries : Exchanged(e))'
      BY <3>1, <2>t DEF AInv, Exchanged
    <3>4. Taken'
      BY <3>1, <3>2, <2>t DEF AInv, Taken
    <3> QED
      BY <3>1, <3>3, <3>4 DEF AInv, AcceptedOnce
  <2>2. ASSUME NEW d \in Deliveries, Conflict(d)
        PROVE  (\A e \in Deliveries : Exchanged(e))' /\ Taken' /\ AcceptedOnce'
    <3>1. /\ exchange' = exchange /\ payload' = payload /\ accepted' = accepted
          /\ exchange[d].at = "409" /\ phase' = [phase EXCEPT ![d] = "sleeping"]
      BY <2>2 DEF Conflict, requesterVars
    <3>2. (\A e \in Deliveries : Exchanged(e))'
      BY <3>1, <2>t DEF AInv, Exchanged
    <3> QED
      BY <3>1, <3>2 DEF AInv, Taken, AcceptedOnce
  <2>6. ASSUME NEW d \in Deliveries, NEW how \in Ended, Ends(d, how)
        PROVE  (\A e \in Deliveries : Exchanged(e))' /\ Taken' /\ AcceptedOnce'
    <3>1. /\ exchange' = exchange /\ payload' = payload /\ accepted' = accepted
          /\ phase' = [phase EXCEPT ![d] = how]
      BY <2>6 DEF Ends, requesterVars
    <3>2. (\A e \in Deliveries : Exchanged(e))'
      BY <3>1, <2>t DEF AInv, Exchanged, Ended
    <3> QED
      BY <3>1, <3>2 DEF AInv, Taken, AcceptedOnce
  <2>7. ASSUME NEW d \in Deliveries, GivesUp(d) \/ Succeeds(d) \/ Rejected(d) \/ Raises(d)
        PROVE  (\A e \in Deliveries : Exchanged(e))' /\ Taken' /\ AcceptedOnce'
    BY <2>6, <2>7 DEF GivesUp, Succeeds, Rejected, Raises, Ended
  <2>3. ASSUME NEW d \in Deliveries, Arrives(d)
        PROVE  (\A e \in Deliveries : Exchanged(e))' /\ Taken' /\ AcceptedOnce'
    <3>1. /\ exchange[d].at = "sent" /\ phase' = phase /\ payload' = payload
          /\ exchange[d].version = payload[d]
      BY <2>3 DEF Arrives, proxyVars, AInv, Exchanged
    <3>2. \A one \in accepted : one.by # d
      BY <3>1 DEF AInv, Taken
    <3>3. phase[d] # "due" /\ phase[d] # "sleeping"
      BY <3>1 DEF AInv, Exchanged
    <3>4. CASE awaiting
      <4> DEFINE new == [by |-> d, version |-> exchange[d].version, step |-> steps]
      <4>1. /\ accepted' = accepted \union {new}
            /\ exchange' = [exchange EXCEPT ![d] = [at |-> "success", version |-> exchange[d].version]]
        BY <2>3, <3>4 DEF Arrives, Answers
      <4>2. (\A e \in Deliveries : Exchanged(e))'
        BY <4>1, <3>1, <3>3, <2>t DEF AInv, Exchanged
      <4>3. new.by = d /\ new.version = payload[d]
        BY <3>1
      <4>4. PICK taken : taken = new
        OBVIOUS
      <4> HIDE DEF new
      <4>5. Taken'
        BY <4>1, <4>3, <3>1, <3>2, <2>t DEF AInv, Taken
      <4>6. AcceptedOnce'
        BY <4>1, <4>3, <3>2 DEF AInv, AcceptedOnce
      <4> QED
        BY <4>2, <4>5, <4>6
    <3>5. CASE ~awaiting
      <4>1. /\ accepted' = accepted
            /\ exchange' = [exchange EXCEPT ![d] = [at |-> "409", version |-> exchange[d].version]]
        BY <2>3, <3>5 DEF Arrives, Answers
      <4> QED
        BY <4>1, <3>1, <3>2, <3>3, <2>t DEF AInv, Exchanged, Taken, AcceptedOnce
    <3> QED
      BY <3>4, <3>5
  <2>4. ASSUME NEW d \in Deliveries, Refused(d)
        PROVE  (\A e \in Deliveries : Exchanged(e))' /\ Taken' /\ AcceptedOnce'
    <3>1. /\ exchange[d].at = "sent" /\ phase' = phase /\ payload' = payload
          /\ accepted' = accepted
          /\ exchange' = [exchange EXCEPT ![d] = [at |-> "error", version |-> exchange[d].version]]
      BY <2>4 DEF Refused, Answers, proxyVars, requesterVars
    <3>2. (\A one \in accepted : one.by # d) /\ phase[d] # "due" /\ phase[d] # "sleeping"
      BY <3>1 DEF AInv, Taken, Exchanged
    <3> QED
      BY <3>1, <3>2, <2>t DEF AInv, Exchanged, Taken, AcceptedOnce
  <2>5. CASE Awaits \/ Write \/ Tick \/ UNCHANGED vars
    <3>1. UNCHANGED <<phase, exchange, payload, accepted>>
      BY <2>5 DEF Awaits, Write, Tick, vars, proxyVars, requesterVars
    <3> QED
      BY <3>1 DEF AInv, Exchanged, Taken, AcceptedOnce
  <2> QED
    BY <2>1, <2>2, <2>3, <2>4, <2>5, <2>7 DEF Next, Deliver
<1> QED
  BY <1>1, <1>2, PTL DEF Spec

\* However often a delivery is tried and whatever becomes of its answers, the requester takes it once.
THEOREM TakenOnce == Spec => []AcceptedOnce
<1>1. AInv => AcceptedOnce
  BY DEF AInv
<1> QED
  BY <1>1, AlwaysTaken, PTL

\* What the requester takes is the reservation as it was when the delivery began.
THEOREM TakenAsSerialised == Spec => []ResultIsSnapshot
<1>1. AInv => ResultIsSnapshot
  BY DEF AInv, Taken, ResultIsSnapshot
<1> QED
  BY <1>1, AlwaysTaken, PTL

(***************************************************************************)
(* When a delivery is given up.  Its age never lags behind the attempts it *)
(* has made (Timed); while it is under way, a requester that has awaited a *)
(* result still does, or took one (Heard); so the conflict of the last     *)
(* attempt is that of a requester that came late or was served (Late).     *)
(***************************************************************************)
Others(d) == \E one \in accepted : one.by # d

Timed(d) ==
    /\ phase[d] = "posting" => attempt[d] > 0 /\ age[d] >= DueAt(attempt[d] - 1)
    /\ phase[d] = "sleeping" => attempt[d] > 0 /\ age[d] + left[d] >= DueAt(attempt[d])
    /\ phase[d] = "gaveUp" => age[d] >= Window

Heard(d) ==
    phase[d] \in {"posting", "sleeping"} /\ readyAge[d] # Never =>
        awaiting \/ exchange[d].at = "success" \/ Others(d)

LastFailed(d) ==
    \/ phase[d] = "gaveUp"
    \/ attempt[d] = Attempts /\ phase[d] = "sleeping"
    \/ attempt[d] = Attempts /\ phase[d] = "posting" /\ exchange[d].at = "409"

Late(d) == LastFailed(d) => readyAge[d] >= Window \/ Others(d)

GInv == \A d \in Deliveries : Timed(d) /\ Heard(d) /\ Late(d)

\* The state of a delivery that a step leaves alone, but for a clock that runs on.
Same(d) ==
    /\ phase'[d] = phase[d] /\ attempt'[d] = attempt[d] /\ left'[d] = left[d]
    /\ age'[d] = age[d] /\ readyAge'[d] = readyAge[d]
    /\ exchange'[d] = exchange[d]

LEMMA SameKept ==
    ASSUME NEW d \in Deliveries, Timed(d), Heard(d), Late(d), Same(d),
           awaiting' = awaiting, accepted' = accepted
    PROVE  Timed(d)' /\ Heard(d)' /\ Late(d)'
BY DEF Timed, Heard, Late, LastFailed, Same, Others

LEMMA GInvStep == TInv /\ AInv /\ GInv /\ [Next]_vars => GInv'
<1> SUFFICES ASSUME TInv, AInv, GInv, [Next]_vars PROVE GInv'
  OBVIOUS
<1>d. /\ Window \in Nat /\ Oldest \in Nat /\ Never > Oldest /\ Never \in Nat
      /\ Oldest = Window + Delay
      /\ Attempts \in Nat \ {0} /\ Delay \in Nat \ {0}
      /\ DueAt(Attempts) = Oldest /\ DueAt(Attempts - 1) = Window
      /\ DueAt(0) = 0
      /\ \A n \in Nat : DueAt(n) \in Nat
  BY DueFacts, DeliveryAssumption DEF DueAt
<1>t. /\ phase \in [Deliveries -> {"due", "posting", "sleeping"} \union Ended]
      /\ attempt \in [Deliveries -> 0..Attempts] /\ left \in [Deliveries -> 0..Delay]
      /\ age \in [Deliveries -> 0..Oldest] /\ readyAge \in [Deliveries -> 0..Never]
      /\ exchange \in [Deliveries -> Exchanges]
      /\ \A d \in Deliveries : phase[d] = "due" => attempt[d] = 0
  BY DEF TInv, TypeOK
<1>g. \A d \in Deliveries : Timed(d) /\ Heard(d) /\ Late(d) /\ Exchanged(d)
  BY DEF GInv, AInv
<1>s. SUFFICES ASSUME NEW e \in Deliveries PROVE Timed(e)' /\ Heard(e)' /\ Late(e)'
  BY DEF GInv
<1>1. ASSUME NEW d \in Deliveries, Begin(d) PROVE Timed(e)' /\ Heard(e)' /\ Late(e)'
  <2>1. /\ phase[d] = "due" /\ phase' = [phase EXCEPT ![d] = "posting"]
        /\ attempt' = [attempt EXCEPT ![d] = @ + 1]
        /\ exchange' = [exchange EXCEPT ![d] = [at |-> "sent", version |-> stored]]
        /\ readyAge' = [readyAge EXCEPT ![d] = IF awaiting THEN 0 ELSE Never]
        /\ left' = left /\ age' = age /\ awaiting' = awaiting /\ accepted' = accepted
    BY <1>1 DEF Begin, Posts, requesterVars
  <2>2. CASE e = d
    <3>1. phase'[e] = "posting" /\ attempt'[e] = 1 /\ exchange'[e].at = "sent" /\ age'[e] \in Nat
      BY <2>1, <2>2, <1>t, <1>d
    <3>2. Timed(e)'
      BY <3>1, <1>d DEF Timed
    <3>3. Heard(e)'
      BY <2>1, <2>2, <1>t DEF Heard
    <3> QED
      BY <3>1, <3>2, <3>3 DEF Late, LastFailed
  <2>3. CASE e # d
    <3>1. Same(e)
      BY <2>1, <2>3, <1>t DEF Same
    <3> QED
      BY <3>1, <2>1, <1>g, SameKept
  <2> QED
    BY <2>2, <2>3
<1>2. ASSUME NEW d \in Deliveries, Retry(d) PROVE Timed(e)' /\ Heard(e)' /\ Late(e)'
  <2>1. /\ phase[d] = "sleeping" /\ left[d] = 0 /\ phase' = [phase EXCEPT ![d] = "posting"]
        /\ attempt' = [attempt EXCEPT ![d] = @ + 1]
        /\ exchange' = [exchange EXCEPT ![d] = [at |-> "sent", version |-> payload[d]]]
        /\ readyAge' = readyAge
        /\ left' = left /\ age' = age /\ awaiting' = awaiting /\ accepted' = accepted
    BY <1>2 DEF Retry, Posts, requesterVars
  <2>2. CASE e = d
    <3>1. /\ phase'[e] = "posting" /\ attempt'[e] = attempt[e] + 1 /\ exchange'[e].at = "sent"
          /\ age'[e] = age[e] /\ age[e] \in Nat /\ attempt[e] \in Nat
          /\ phase[e] = "sleeping" /\ left[e] = 0 /\ exchange[e].at = "409"
      BY <2>1, <2>2, <1>t, <1>d, <1>g DEF Exchanged
    <3>2. attempt'[e] > 0 /\ attempt'[e] - 1 = attempt[e] /\ age'[e] >= DueAt(attempt[e])
      BY <3>1, <1>g, <1>d DEF Timed
    <3>3. Timed(e)'
      BY <3>1, <3>2 DEF Timed
    <3>4. Heard(e)'
      BY <2>1, <3>1, <1>g DEF Heard, Others
    <3> QED
      BY <3>1, <3>3, <3>4 DEF Late, LastFailed
  <2>3. CASE e # d
    <3>1. Same(e)
      BY <2>1, <2>3, <1>t DEF Same
    <3> QED
      BY <3>1, <2>1, <1>g, SameKept
  <2> QED
    BY <2>2, <2>3
<1>3. ASSUME NEW d \in Deliveries, Conflict(d) PROVE Timed(e)' /\ Heard(e)' /\ Late(e)'
  <2>1. /\ phase[d] = "posting" /\ exchange[d].at = "409"
        /\ phase' = [phase EXCEPT ![d] = "sleeping"] /\ left' = [left EXCEPT ![d] = Delay]
        /\ attempt' = attempt /\ exchange' = exchange /\ readyAge' = readyAge
        /\ age' = age /\ awaiting' = awaiting /\ accepted' = accepted
    BY <1>3 DEF Conflict, requesterVars
  <2>2. CASE e = d
    <3>1. /\ phase'[e] = "sleeping" /\ left'[e] = Delay /\ phase[e] = "posting"
          /\ exchange[e].at = "409" /\ attempt[e] \in Nat /\ age[e] \in Nat
      BY <2>1, <2>2, <1>t, <1>d
    <3>2. attempt[e] > 0 /\ age[e] >= DueAt(attempt[e] - 1)
      BY <3>1, <1>g DEF Timed
    <3>3. attempt[e] - 1 \in Nat
      BY <3>1, <3>2
    <3>4. DueAt((attempt[e] - 1) + 1) = DueAt(attempt[e] - 1) + Delay
      BY <3>3, DueFacts
    <3>5. (attempt[e] - 1) + 1 = attempt[e]
      BY <3>1
    <3>6. age[e] + Delay >= DueAt(attempt[e])
      BY <3>1, <3>2, <3>3, <3>4, <3>5, <1>d
    <3>7. Timed(e)'
      BY <2>1, <3>1, <3>2, <3>6 DEF Timed
    <3>8. Heard(e)'
      BY <2>1, <3>1, <1>g DEF Heard, Others
    <3>9. Late(e)'
      BY <2>1, <3>1, <1>g DEF Late, LastFailed, Others
    <3> QED
      BY <3>7, <3>8, <3>9
  <2>3. CASE e # d
    <3>1. Same(e)
      BY <2>1, <2>3, <1>t DEF Same
    <3> QED
      BY <3>1, <2>1, <1>g, SameKept
  <2> QED
    BY <2>2, <2>3
<1>4. ASSUME NEW d \in Deliveries, NEW how \in Ended, Ends(d, how),
             how = "gaveUp" => GivesUp(d)
      PROVE  Timed(e)' /\ Heard(e)' /\ Late(e)'
  <2>1. /\ phase' = [phase EXCEPT ![d] = how]
        /\ left' = left /\ attempt' = attempt /\ exchange' = exchange /\ readyAge' = readyAge
        /\ age' = age /\ awaiting' = awaiting /\ accepted' = accepted
    BY <1>4 DEF Ends, requesterVars
  <2>2. CASE e = d /\ how # "gaveUp"
    <3>1. phase'[e] \in Ended \ {"gaveUp"}
      BY <2>1, <2>2, <1>t
    <3> QED
      BY <3>1 DEF Ended, Timed, Heard, Late, LastFailed
  <2>3. CASE e = d /\ how = "gaveUp"
    <3>1. /\ phase[e] = "sleeping" /\ left[e] = 0 /\ attempt[e] = Attempts
          /\ phase'[e] = "gaveUp" /\ age[e] \in Nat
      BY <1>4, <2>1, <2>3, <1>t, <1>d DEF GivesUp
    <3>2. age[e] >= Oldest
      BY <3>1, <1>g, <1>d DEF Timed
    <3>3. Timed(e)' /\ Heard(e)'
      BY <2>1, <3>1, <3>2, <1>d DEF Timed, Heard
    <3>4. Late(e)'
      BY <2>1, <3>1, <1>g DEF Late, LastFailed, Others
    <3> QED
      BY <3>3, <3>4
  <2>4. CASE e # d
    <3>1. Same(e)
      BY <2>1, <2>4, <1>t DEF Same
    <3> QED
      BY <3>1, <2>1, <1>g, SameKept
  <2> QED
    BY <2>2, <2>3, <2>4
<1>5. ASSUME NEW d \in Deliveries, GivesUp(d) \/ Succeeds(d) \/ Rejected(d) \/ Raises(d)
      PROVE  Timed(e)' /\ Heard(e)' /\ Late(e)'
  BY <1>4, <1>5 DEF GivesUp, Succeeds, Rejected, Raises, Ended
<1>6. ASSUME NEW d \in Deliveries, Arrives(d) PROVE Timed(e)' /\ Heard(e)' /\ Late(e)'
  <2>1. /\ exchange[d].at = "sent" /\ readyAge' = readyAge
        /\ phase' = phase /\ left' = left /\ attempt' = attempt /\ age' = age
    BY <1>6 DEF Arrives, proxyVars
  <2>2. CASE awaiting
    <3>1. /\ exchange' = [exchange EXCEPT ![d] = [at |-> "success", version |-> exchange[d].version]]
          /\ accepted' = accepted \union {[by |-> d, version |-> exchange[d].version, step |-> steps]}
      BY <1>6, <2>2 DEF Arrives, Answers
    <3>2. CASE e = d
      <4>1. exchange'[e].at = "success" /\ phase[e] # "sleeping"
        BY <3>1, <3>2, <2>1, <1>t, <1>g DEF Exchanged
      <4>2. Others(e) => Others(e)'
        BY <3>1 DEF Others
      <4>3. Timed(e)' /\ Heard(e)'
        BY <2>1, <4>1, <1>g DEF Timed, Heard
      <4>4. Late(e)'
        BY <2>1, <4>1, <4>2, <1>g DEF Late, LastFailed
      <4> QED
        BY <4>3, <4>4
    <3>3. CASE e # d
      <4>1. Others(e)'
        <5>1. PICK one : one = [by |-> d, version |-> exchange[d].version, step |-> steps]
          OBVIOUS
        <5>2. one.by # e /\ one \in accepted'
          BY <3>1, <3>3, <5>1
        <5> QED
          BY <5>2 DEF Others
      <4>2. Timed(e)'
        BY <2>1, <1>g DEF Timed
      <4> QED
        BY <4>1, <4>2 DEF Heard, Late
    <3> QED
      BY <3>2, <3>3
  <2>3. CASE ~awaiting
    <3>1. /\ exchange' = [exchange EXCEPT ![d] = [at |-> "409", version |-> exchange[d].version]]
          /\ accepted' = accepted /\ awaiting' = awaiting
      BY <1>6, <2>3 DEF Arrives, Answers
    <3>2. CASE e = d
      <4>1. (phase[e] = "posting" /\ readyAge[e] # Never) => Others(e)
        BY <2>1, <2>3, <3>2, <1>g DEF Heard
      <4>2. readyAge[e] = Never => readyAge[e] >= Window
        BY <1>d
      <4>3. Timed(e)' /\ Heard(e)'
        BY <2>1, <2>3, <3>1, <3>2, <1>t, <1>g DEF Timed, Heard, Others
      <4>4. Others(e)' <=> Others(e)
        BY <3>1 DEF Others
      <4>5. Late(e)'
        BY <2>1, <4>1, <4>2, <4>4, <1>g DEF Late, LastFailed
      <4> QED
        BY <4>3, <4>5
    <3>3. CASE e # d
      <4>1. Same(e)
        BY <2>1, <3>1, <3>3, <1>t DEF Same
      <4> QED
        BY <4>1, <3>1, <1>g, SameKept
    <3> QED
      BY <3>2, <3>3
  <2> QED
    BY <2>2, <2>3
<1>7. ASSUME NEW d \in Deliveries, Refused(d) PROVE Timed(e)' /\ Heard(e)' /\ Late(e)'
  <2>1. /\ exchange[d].at = "sent" /\ readyAge' = readyAge
        /\ phase' = phase /\ left' = left /\ attempt' = attempt /\ age' = age
        /\ exchange' = [exchange EXCEPT ![d] = [at |-> "error", version |-> exchange[d].version]]
        /\ accepted' = accepted /\ awaiting' = awaiting
    BY <1>7 DEF Refused, Answers, proxyVars, requesterVars
  <2>2. CASE e = d
    <3>1. exchange'[e].at = "error" /\ exchange[e].at = "sent"
      BY <2>1, <2>2, <1>t
    <3> QED
      BY <2>1, <3>1, <1>g DEF Timed, Heard, Late, LastFailed, Others
  <2>3. CASE e # d
    <3>1. Same(e)
      BY <2>1, <2>3, <1>t DEF Same
    <3> QED
      BY <3>1, <2>1, <1>g, SameKept
  <2> QED
    BY <2>2, <2>3
<1>8. CASE Awaits
  <2>1. /\ awaiting' = TRUE /\ accepted' = accepted /\ exchange' = exchange
        /\ phase' = phase /\ left' = left /\ attempt' = attempt /\ age' = age
        /\ readyAge'[e] = IF readyAge[e] = Never /\ phase[e] # "due" THEN age[e] ELSE readyAge[e]
    BY <1>8 DEF Awaits, proxyVars
  <2>2. Timed(e)' /\ Heard(e)'
    BY <2>1, <1>g DEF Timed, Heard
  <2>3. LastFailed(e) => age[e] >= Window
    <3>1. age[e] \in Nat /\ left[e] \in 0..Delay
      BY <1>t, <1>d
    <3>2. attempt[e] = Attempts /\ phase[e] = "posting" => age[e] >= Window
      BY <1>g, <1>d DEF Timed
    <3>3. attempt[e] = Attempts /\ phase[e] = "sleeping" => age[e] >= Window
      BY <3>1, <1>g, <1>d DEF Timed
    <3> QED
      BY <3>2, <3>3, <1>g DEF Timed, LastFailed
  <2>4. Late(e)'
    BY <2>1, <2>3, <1>g DEF Late, LastFailed, Others
  <2> QED
    BY <2>2, <2>4
<1>9. CASE Write \/ UNCHANGED vars
  <2>1. Same(e) /\ awaiting' = awaiting /\ accepted' = accepted
    BY <1>9 DEF Write, vars, proxyVars, requesterVars, Same
  <2> QED
    BY <2>1, <1>g, SameKept
<1>10. CASE Tick
  <2>1. /\ UNCHANGED <<phase, attempt, exchange, awaiting, accepted, readyAge>>
        /\ left'[e] = IF left[e] > 0 THEN left[e] - 1 ELSE 0
        /\ age'[e] = IF phase[e] \in {"posting", "sleeping"} /\ age[e] < Oldest
                     THEN age[e] + 1 ELSE age[e]
    BY <1>10 DEF Tick, requesterVars
  <2>2. age[e] \in 0..Oldest /\ left[e] \in 0..Delay /\ attempt[e] \in 0..Attempts
    BY <1>t
  <2>3. DueAt(attempt[e]) <= Oldest /\ DueAt(attempt[e]) \in Nat
    BY <2>2, DueFacts
  <2>4. phase[e] = "sleeping" => age'[e] + left'[e] >= DueAt(attempt[e])
    BY <2>1, <2>2, <2>3, <1>g, <1>d DEF Timed
  <2>5. age'[e] >= age[e] /\ age'[e] \in Nat
    BY <2>1, <2>2, <1>d
  <2>6. phase[e] = "posting" => attempt[e] - 1 \in Nat
    BY <2>2, <1>g DEF Timed
  <2>7. phase[e] = "posting" => DueAt(attempt[e] - 1) \in Nat
    BY <2>6, <1>d
  <2>8. Timed(e)'
    BY <2>1, <2>2, <2>4, <2>5, <2>7, <1>g, <1>d DEF Timed
  <2>9. Heard(e)' /\ Late(e)'
    BY <2>1, <1>g DEF Heard, Late, LastFailed, Others
  <2> QED
    BY <2>8, <2>9
<1> QED
  BY <1>1, <1>2, <1>3, <1>5, <1>6, <1>7, <1>8, <1>9, <1>10 DEF Next, Deliver

\* No delivery is given up on a requester that awaited its result when the last attempt was made, or
\* before, whatever is posted beside it and however late its answers come.
THEOREM GivesUpLate == Spec => []NotGivenUpEarly
<1>1. Init => GInv
  BY DEF Init, GInv, Timed, Heard, Late, LastFailed
<1>2. GInv => NotGivenUpEarly
  BY DEF GInv, Late, LastFailed, Others, NotGivenUpEarly
<1> QED
  BY <1>1, <1>2, AlwaysTyped, AlwaysTaken, GInvStep, PTL DEF Spec
=============================================================================
