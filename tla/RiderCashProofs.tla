-------------------------- MODULE RiderCashProofs --------------------------
(***************************************************************************)
(* Proofs about RiderCash, for any number of managers, deliveries and      *)
(* hand-ins: stamps stay, and a hand-in covers what it was added up from.  *)
(* The sum over a set of deliveries depends on the proofs of that set      *)
(* alone, and a proof does not change once it is there; SumTheorems has    *)
(* what conservation needs besides.                                        *)
(***************************************************************************)
EXTENDS RiderCash, SumTheorems

\* A proof of delivery is written once, and cash is only in proofs that are.
LEMMA ProofsStay ==
    ASSUME CashTyped, [Next]_vars
    PROVE  /\ CashTaken \subseteq CashTaken'
           /\ \A p \in CashTaken : pods'[p] = pods[p]
<1>1. ASSUME NEW p \in PoDId, NEW method, NEW amount, Deliver(p, method, amount)
      PROVE  \A q \in CashTaken : pods'[q] = pods[q]
    <2>1. p \notin CashTaken
        BY <1>1 DEF Deliver, CashTaken, NoPoD
    <2> QED BY <1>1, <2>1 DEF Deliver, CashTaken, CashTyped
<1>2. (\E m \in Managers :
          \/ \E i \in RemittanceId, received \in 0 .. MaxAmount : LoadOutstanding(m, i, received)
          \/ StampLoaded(m)
          \/ Abandon(m)) => UNCHANGED pods
    BY DEF LoadOutstanding, StampLoaded, Abandon
<1>3. UNCHANGED vars => UNCHANGED pods
    BY DEF vars
<1>4. \A p \in CashTaken : pods'[p] = pods[p]
    BY <1>1, <1>2, <1>3 DEF Next
<1> QED BY <1>4 DEF CashTaken

\* So the sum over cash deliveries that are there is the same after the step.
LEMMA TotalsStay ==
    ASSUME CashTyped, [Next]_vars, NEW S \in SUBSET CashTaken
    PROVE  CashTotal(S)' = CashTotal(S)
<1>1. \A p \in S : CashAmount(p)' = CashAmount(p)
    BY ProofsStay DEF CashAmount
<1>2. [p \in S |-> CashAmount(p)]' = [p \in S |-> CashAmount(p)]
    BY <1>1
<1> QED BY <1>2 DEF CashTotal

LEMMA AmountsAreNat == \A amount \in 0 .. MaxAmount : amount \in Nat
<1> MaxAmount \in Nat
    BY CashAssumption
<1> QED OBVIOUS

LEMMA TypedKept == CashTyped /\ [Next]_vars => CashTyped'
<1> SUFFICES ASSUME CashTyped, [Next]_vars PROVE CashTyped'
    OBVIOUS
<1> USE DEF CashTyped, Goto
<1>1. ASSUME NEW p \in PoDId, NEW method \in {"cash", "mpesa", ""},
             NEW amount \in 0 .. MaxAmount, Deliver(p, method, amount)
      PROVE  CashTyped'
    <2>1. amount \in Nat
        BY <1>1, AmountsAreNat
    <2>2. [method |-> method, collected |-> amount] \in PoD
        BY <2>1 DEF PoD
    <2> QED BY <1>1, <2>2 DEF Deliver
<1>2. ASSUME NEW m \in Managers, NEW i \in RemittanceId, NEW received,
             LoadOutstanding(m, i, received)
      PROVE  CashTyped'
    <2>1. \A n \in Managers : call'[n].id \in RemittanceId \cup {NoRemittance}
        BY <1>2 DEF LoadOutstanding
    <2> QED BY <1>2, <2>1 DEF LoadOutstanding
<1>3. ASSUME NEW m \in Managers, StampLoaded(m)
      PROVE  CashTyped'
    <2>1. \A n \in Managers : call'[n].id \in RemittanceId \cup {NoRemittance}
        BY <1>3 DEF StampLoaded, Idle
    <2>2. remitted' \in [PoDId -> RemittanceId \cup {NoRemittance}]
        BY <1>3 DEF StampLoaded
    <2>3. DOMAIN handIns' = RemittanceId /\ DOMAIN call' = Managers
        BY <1>3 DEF StampLoaded
    <2> QED BY <1>3, <2>1, <2>2, <2>3 DEF StampLoaded
<1>4. ASSUME NEW m \in Managers, Abandon(m)
      PROVE  CashTyped'
    <2>1. \A n \in Managers : call'[n].id \in RemittanceId \cup {NoRemittance}
        BY <1>4 DEF Abandon, Idle
    <2> QED BY <1>4, <2>1 DEF Abandon
<1>5. CASE UNCHANGED vars
    BY <1>5 DEF vars
<1> QED BY <1>1, <1>2, <1>3, <1>4, <1>5 DEF Next

-----------------------------------------------------------------------------
(* The invariant *)

LEMMA CashInit == Init => CashInv
<1> SUFFICES ASSUME Init PROVE CashInv
    OBVIOUS
<1>1. CashTyped
    BY DEF Init, CashTyped, Idle
<1>2. \A i \in RemittanceId : handIns[i] = NoHandIn /\ StampedWith(i) = {}
    BY CashAssumption DEF Init, StampedWith
<1> QED BY <1>1, <1>2 DEF Init, CashInv, CallOK, HandInIsWhole

\* The parts of the invariant that a step which stamps nothing keeps, for the
\* hand-ins recorded and for one under way.
LEMMA UnstampedStep ==
    ASSUME CashInv, [Next]_vars, UNCHANGED <<remitted, handIns>>
    PROVE  /\ HandInIsWhole'
           /\ \A p \in PoDId : remitted'[p] # NoRemittance => p \in CashTaken'
           /\ \A i \in RemittanceId \cup {NoRemittance} : StampedWith(i)' = StampedWith(i)
<1>1. \A i \in RemittanceId \cup {NoRemittance} : StampedWith(i)' = StampedWith(i)
    BY DEF StampedWith
<1>2. \A i \in RemittanceId : StampedWith(i) \subseteq CashTaken
    BY CashAssumption DEF StampedWith, CashInv
<1>3. \A i \in RemittanceId : CashTotal(StampedWith(i))' = CashTotal(StampedWith(i))
    <2> TAKE i \in RemittanceId
    <2>1. PICK S : S = StampedWith(i)
        OBVIOUS
    <2>2. CashTotal(S)' = CashTotal(S)
        BY <1>2, <2>1, TotalsStay DEF CashInv
    <2> QED BY <1>1, <2>1, <2>2
<1>4. HandInIsWhole'
    BY <1>1, <1>3 DEF HandInIsWhole, CashInv
<1> QED BY <1>1, <1>4, ProofsStay DEF CashInv

\* A step that changes no stamp leaves a request alone, or starts or ends it.
LEMMA CallKept ==
    ASSUME CashInv, [Next]_vars, UNCHANGED <<remitted, handIns>>,
           \A n \in Managers : call'[n] = call[n] \/ call'[n] = Idle,
           NEW m \in Managers
    PROVE  CallOK(m)'
<1> SUFFICES ASSUME call'[m] = call[m], call[m] # Idle
             PROVE  CallOK(m)'
    BY DEF CallOK
<1>1. CallOK(m) /\ CashTyped
    BY DEF CashInv
<1>2. CashTotal(call[m].loaded)' = CashTotal(call[m].loaded)
    <2>1. PICK S : S = call[m].loaded
        OBVIOUS
    <2>2. CashTotal(S)' = CashTotal(S)
        BY <1>1, <2>1, TotalsStay DEF CallOK
    <2> QED BY <2>1, <2>2
<1>3. call[m].loaded \subseteq CashTaken'
    BY <1>1, ProofsStay DEF CallOK
<1>4. StampedWith(call[m].id)' = {}
    BY <1>1, UnstampedStep DEF CallOK, CashTyped
<1>5. \A n \in Managers : call'[n].id = call'[m].id => n = m
    BY <1>1 DEF CallOK, Idle
<1> QED BY <1>1, <1>2, <1>3, <1>4, <1>5 DEF CallOK

LEMMA CashStep == CashInv /\ [Next]_vars => CashInv'
<1> SUFFICES ASSUME CashInv, [Next]_vars PROVE CashInv'
    OBVIOUS
<1>t. CashTyped /\ CashTyped'
    BY TypedKept DEF CashInv
<1>1. ASSUME NEW p \in PoDId, NEW method, NEW amount, Deliver(p, method, amount)
      PROVE  CashInv'
    BY <1>1, <1>t, UnstampedStep, CallKept DEF Deliver, CashInv
<1>2. ASSUME NEW m \in Managers, NEW i \in RemittanceId, NEW received,
             LoadOutstanding(m, i, received)
      PROVE  CashInv'
    <2>1. UNCHANGED <<pods, remitted, handIns>>
        BY <1>2 DEF LoadOutstanding
    <2>2. call'[m].id = i /\ call'[m].loaded = OutstandingCash
            /\ call'[m].expected = CashTotal(OutstandingCash)
            /\ OutstandingCash # {}
        BY <1>2, <1>t DEF LoadOutstanding, Goto, CashTyped
    <2>3. \A n \in Managers \ {m} : call'[n] = call[n]
        BY <1>2, <1>t DEF LoadOutstanding, Goto, CashTyped
    <2>4. StampedWith(i) = {} /\ \A n \in Managers : call[n].id # i
        BY <1>2 DEF LoadOutstanding, Unused, StampedWith
    <2>5. /\ CashTaken' = CashTaken
          /\ \A j : StampedWith(j)' = StampedWith(j)
          /\ \A S : CashTotal(S)' = CashTotal(S)
        BY <2>1 DEF CashTaken, StampedWith, CashTotal, CashAmount
    <2>6. CallOK(m)'
        BY <2>2, <2>3, <2>4, <2>5, CashAssumption DEF CallOK, OutstandingCash
    <2>7. \A n \in Managers \ {m} : CallOK(n)'
        BY <2>2, <2>3, <2>4, <2>5 DEF CallOK, CashInv
    <2> QED BY <1>t, <2>1, <2>6, <2>7, UnstampedStep DEF CashInv
<1>3. ASSUME NEW m \in Managers, StampLoaded(m), AllStillUnstamped(call[m].loaded)
      PROVE  CashInv'
    <2>c. PICK c : c = call[m]
        OBVIOUS
    <2>1. /\ UNCHANGED pods
          /\ remitted' = [p \in PoDId |-> IF p \in c.loaded THEN c.id ELSE remitted[p]]
          /\ \A j \in RemittanceId \ {c.id} : handIns'[j] = handIns[j]
          /\ \A n \in Managers \ {m} : call'[n] = call[n]
          /\ call'[m] = Idle
        BY <2>c, <1>3, <1>t DEF StampLoaded, Goto, CashTyped
    <2>2. CallOK(m) /\ call[m] # Idle /\ c.id \in RemittanceId
        BY <2>c, <1>3, <1>t DEF StampLoaded, CashInv, CallOK, CashTyped
    <2>3. /\ handIns'[c.id].deliveries = Cardinality(c.loaded)
          /\ handIns'[c.id].expected = c.expected
        BY <2>c, <1>3, <1>t, <2>2 DEF StampLoaded, CashTyped
    <2>4. /\ CashTaken' = CashTaken
          /\ \A S : CashTotal(S)' = CashTotal(S)
        BY <2>1 DEF CashTaken, CashTotal, CashAmount
    <2>5. c.loaded \subseteq PoDId /\ \A p \in c.loaded : remitted[p] = NoRemittance
        BY <2>c, <1>3, <2>2 DEF CallOK, CashTaken, AllStillUnstamped, NotRemitted
    <2>6. StampedWith(c.id)' = c.loaded
        BY <2>c, <2>1, <2>2, <2>5 DEF CallOK, StampedWith
    <2>7. \A j \in RemittanceId \ {c.id} : StampedWith(j)' = StampedWith(j)
        BY <2>1, <2>5, CashAssumption DEF StampedWith
    <2>8. HandInIsWhole'
        <3> SUFFICES ASSUME NEW i \in RemittanceId
                     PROVE  /\ handIns'[i] = NoHandIn => StampedWith(i)' = {}
                            /\ handIns'[i] # NoHandIn =>
                                  /\ handIns'[i].deliveries = Cardinality(StampedWith(i)')
                                  /\ handIns'[i].expected = CashTotal(StampedWith(i))'
            BY DEF HandInIsWhole
        <3>1. CASE i = c.id
            <4>1. Cardinality(c.loaded) # 0
                BY <2>c, <2>2, <2>5, CashAssumption, FS_Subset, FS_EmptySet DEF CallOK
            <4>2. handIns'[i] # NoHandIn
                BY <3>1, <4>1, <2>3 DEF NoHandIn
            <4> QED BY <2>c, <3>1, <4>2, <2>2, <2>3, <2>4, <2>6 DEF CallOK
        <3>2. CASE i # c.id
            BY <3>2, <2>1, <2>4, <2>7 DEF CashInv, HandInIsWhole
        <3> QED BY <3>1, <3>2
    <2>9. \A p \in PoDId : remitted'[p] # NoRemittance => p \in CashTaken'
        BY <2>c, <2>1, <2>2, <2>4 DEF CashInv, CallOK
    <2>10. \A n \in Managers : CallOK(n)'
        <3> TAKE n \in Managers
        <3>1. CASE n = m
            BY <3>1, <2>1 DEF CallOK
        <3>2. CASE n # m
            <4>1. CallOK(n) /\ call'[n] = call[n]
                BY <3>2, <2>1 DEF CashInv
            <4>2. call[n] # Idle => StampedWith(call[n].id)' = {}
                BY <2>c, <3>2, <4>1, <2>2, <2>7, <1>t DEF CallOK, CashTyped
            <4> QED BY <4>1, <4>2, <2>1, <2>4 DEF CallOK, Idle
        <3> QED BY <3>1, <3>2
    <2> QED BY <1>t, <2>8, <2>9, <2>10 DEF CashInv
<1>4. ASSUME NEW m \in Managers,
             Abandon(m) \/ (StampLoaded(m) /\ ~AllStillUnstamped(call[m].loaded))
      PROVE  CashInv'
    <2>1. UNCHANGED <<pods, remitted, handIns>>
        BY <1>4 DEF Abandon, StampLoaded
    <2>2. \A n \in Managers : call'[n] = call[n] \/ call'[n] = Idle
        BY <1>4, <1>t DEF Abandon, StampLoaded, Goto, CashTyped
    <2> QED BY <1>t, <2>1, <2>2, UnstampedStep, CallKept DEF CashInv
<1>5. CASE UNCHANGED vars
    BY <1>5, <1>t, UnstampedStep, CallKept DEF vars, CashInv
<1> QED BY <1>1, <1>2, <1>3, <1>4, <1>5 DEF Next

LEMMA CashAlways == Spec => []CashInv
<1> QED BY CashInit, CashStep, PTL DEF Spec

-----------------------------------------------------------------------------
(* The theorems *)

\* A recorded hand-in covers exactly the deliveries it was added up from, for any
\* number of managers and deliveries: RecordRemittance loads before it stamps.
THEOREM HandInsAreWhole == Spec => []HandInIsWhole
<1>1. CashInv => HandInIsWhole
    BY DEF CashInv
<1> QED BY <1>1, CashAlways, PTL

\* No step stamps a delivery again: the update of each proof is conditional.
THEOREM StampsStay == Spec => StampedOnce
<1>1. CashInv /\ [Next]_vars =>
          [\A p \in PoDId : remitted[p] # NoRemittance => remitted'[p] = remitted[p]]_vars
    <2> SUFFICES ASSUME CashInv, Next, NEW p \in PoDId, remitted[p] # NoRemittance
                 PROVE  remitted'[p] = remitted[p]
        BY DEF vars
    <2>1. ASSUME NEW m \in Managers, StampLoaded(m)
          PROVE  remitted'[p] = remitted[p]
        BY <2>1 DEF StampLoaded, AllStillUnstamped, NotRemitted
    <2> QED BY <2>1 DEF Next, Deliver, LoadOutstanding, Abandon
<1> QED BY <1>1, CashAlways, PTL DEF Spec, StampedOnce

-----------------------------------------------------------------------------
(* Amounts *)

LEMMA AmountsTyped ==
    ASSUME TypeOK
    PROVE  /\ \A p \in PoDId : CashAmount(p) \in Nat
           /\ \A S \in SUBSET PoDId : CashTotal(S) \in Nat
<1>1. \A p \in PoDId : CashAmount(p) \in Nat
    <2> TAKE p \in PoDId
    <2>1. pods[p] \in PoD \/ pods[p] = NoPoD
        BY DEF TypeOK
    <2>2. pods[p].collected \in Nat
        <3>1. CASE pods[p] \in PoD
            BY <3>1 DEF PoD
        <3>2. CASE pods[p] = NoPoD
            BY <3>2 DEF NoPoD
        <3> QED BY <2>1, <3>1, <3>2
    <2>3. Due[p] \in Nat
        BY CashAssumption
    <2> QED BY <2>2, <2>3 DEF CashAmount
<1>2. ASSUME NEW S \in SUBSET PoDId
      PROVE  CashTotal(S) \in Nat
    <2> DEFINE f == [p \in S |-> CashAmount(p)]
    <2>1. IsFiniteSet(S) /\ \A p \in S : f[p] \in Nat
        BY <1>1, CashAssumption, FS_Subset
    <2>2. CashTotal(S) = SumOver(f, S)
        BY DEF CashTotal, Sum, FoldFunction, SumOver
    <2> QED BY <2>1, <2>2, SumNat
<1> QED BY <1>1, <1>2

LEMMA HandInTyped ==
    ASSUME NEW S \in SUBSET PoDId, NEW expected \in Nat, NEW received \in Nat
    PROVE  [deliveries |-> Cardinality(S), expected |-> expected, received |-> received,
            shortfall |-> Shortfall(expected, received)] \in HandIn
<1>1. Cardinality(S) \in Nat
    BY CashAssumption, FS_Subset, FS_CardinalityType
<1>2. Shortfall(expected, received) \in Nat
    BY DEF Shortfall
<1> QED BY <1>1, <1>2 DEF HandIn

LEMMA TypeNext == TypeOK /\ [Next]_vars => TypeOK'
<1> SUFFICES ASSUME TypeOK, [Next]_vars PROVE TypeOK'
    OBVIOUS
<1>1. ASSUME NEW p \in PoDId, NEW method \in {"cash", "mpesa", ""},
             NEW amount \in 0 .. MaxAmount, Deliver(p, method, amount)
      PROVE  TypeOK'
    <2>1. [method |-> method, collected |-> amount] \in PoD
        BY AmountsAreNat DEF PoD
    <2> QED BY <1>1, <2>1 DEF Deliver, TypeOK
<1>2. ASSUME NEW m \in Managers, NEW i \in RemittanceId, NEW received \in 0 .. MaxAmount,
             LoadOutstanding(m, i, received)
      PROVE  TypeOK'
    <2>1. OutstandingCash \in SUBSET PoDId /\ received \in Nat
        BY AmountsAreNat DEF OutstandingCash, CashTaken
    <2>2. CashTotal(OutstandingCash) \in Nat
        BY <2>1, AmountsTyped
    <2> DEFINE c == [id |-> i, loaded |-> OutstandingCash,
                     expected |-> CashTotal(OutstandingCash), received |-> received]
    <2>3. c \in Call
        BY <2>1, <2>2 DEF Call
    <2> QED BY <1>2, <2>3 DEF LoadOutstanding, Goto, TypeOK
<1>3. ASSUME NEW m \in Managers, StampLoaded(m)
      PROVE  TypeOK'
    <2>1. call[m] \in Call /\ Idle \in Call
        BY DEF TypeOK, Call, Idle
    <2>2. CASE AllStillUnstamped(call[m].loaded)
        <3> DEFINE c == call[m]
                   h == [deliveries |-> Cardinality(c.loaded), expected |-> c.expected,
                         received |-> c.received, shortfall |-> Shortfall(c.expected, c.received)]
        <3>1. h \in HandIn
            BY <2>1, HandInTyped DEF Call
        <3>2. remitted' = [p \in PoDId |-> IF p \in c.loaded THEN c.id ELSE remitted[p]]
              /\ handIns' = [handIns EXCEPT ![c.id] = h]
              /\ call' = [call EXCEPT ![m] = Idle] /\ pods' = pods
            BY <1>3, <2>2 DEF StampLoaded, Goto
        <3>3. c.id \in RemittanceId \cup {NoRemittance}
            BY <2>1 DEF Call
        <3> HIDE DEF c, h
        <3>4. remitted' \in [PoDId -> RemittanceId \cup {NoRemittance}]
            BY <3>2, <3>3 DEF TypeOK
        <3>5. handIns' \in [RemittanceId -> HandIn]
            BY <3>1, <3>2 DEF TypeOK
        <3>6. call' \in [Managers -> Call]
            BY <2>1, <3>2 DEF TypeOK
        <3> QED BY <3>2, <3>4, <3>5, <3>6 DEF TypeOK
    <2>3. CASE ~AllStillUnstamped(call[m].loaded)
        BY <1>3, <2>1, <2>3 DEF StampLoaded, Goto, TypeOK
    <2> QED BY <2>2, <2>3
<1>4. ASSUME NEW m \in Managers, Abandon(m)
      PROVE  TypeOK'
    BY <1>4 DEF Abandon, Goto, TypeOK, Call, Idle
<1>5. CASE UNCHANGED vars
    BY <1>5 DEF vars, TypeOK
<1> QED BY <1>1, <1>2, <1>3, <1>4, <1>5 DEF Next

\* Amounts, counts and shortfalls are never negative, for any number of managers:
\* Shortfall stops at zero.
THEOREM TypeCorrect == Spec => []TypeOK
<1>1. Init => TypeOK
    BY DEF Init, TypeOK, PoD, NoPoD, HandIn, NoHandIn, Call, Idle
<1> QED BY <1>1, TypeNext, PTL DEF Spec

-----------------------------------------------------------------------------
(* Conservation *)

\* Every cash delivery is outstanding or carries one stamp, so what was taken is
\* what is outstanding and, stamp by stamp, what the hand-ins expected.
LEMMA TakenAddsUp == TypeOK /\ CashInv => CashConserved
<1> SUFFICES ASSUME TypeOK, CashInv PROVE CashConserved
    OBVIOUS
<1> DEFINE f == [p \in PoDId |-> CashAmount(p)]
           Stamped == CashTaken \ OutstandingCash
           expected == [i \in RemittanceId |-> handIns[i].expected]
<1>1. /\ IsFiniteSet(CashTaken) /\ CashTaken \subseteq PoDId
      /\ OutstandingCash \subseteq CashTaken
      /\ IsFiniteSet(Stamped) /\ IsFiniteSet(OutstandingCash)
    BY CashAssumption, FS_Subset DEF CashTaken, OutstandingCash
<1>2. \A p \in PoDId : f[p] \in Nat
    BY AmountsTyped
<1>3. ASSUME NEW S \in SUBSET PoDId
      PROVE  CashTotal(S) = SumOver(f, S)
    <2> DEFINE g == [p \in S |-> CashAmount(p)]
    <2>1. CashTotal(S) = SumOver(g, S)
        BY DEF CashTotal, Sum, FoldFunction, SumOver
    <2>2. IsFiniteSet(S) /\ \A p \in S : g[p] = f[p]
        BY CashAssumption, FS_Subset
    <2> HIDE DEF f, g
    <2> QED BY <2>1, <2>2, SumSame
<1>4. SumOver(f, CashTaken) = SumOver(f, OutstandingCash) + SumOver(f, Stamped)
    <2> HIDE DEF f
    <2> QED BY <1>1, <1>2, SumSplit
<1>5. \A p \in Stamped : remitted[p] \in RemittanceId
    BY DEF TypeOK, OutstandingCash, NotRemitted, CashTaken
<1>6. \A i \in RemittanceId : {p \in Stamped : remitted[p] = i} = StampedWith(i)
    BY CashAssumption DEF StampedWith, OutstandingCash, NotRemitted, CashInv, CashTaken
<1> DEFINE byStamp == [i \in RemittanceId |-> SumOver(f, {p \in Stamped : remitted[p] = i})]
<1>7. SumOver(f, Stamped) = SumOver(byStamp, RemittanceId)
    <2>1. \A p \in Stamped : f[p] \in Int
        BY <1>1, <1>2
    <2> HIDE DEF f, Stamped
    <2> QED BY <1>1, <1>5, <2>1, CashAssumption, SumByClass
<1>8. ASSUME NEW i \in RemittanceId
      PROVE  byStamp[i] = expected[i]
    <2>1. byStamp[i] = CashTotal(StampedWith(i))
        BY <1>3, <1>6 DEF StampedWith
    <2>2. handIns[i] = NoHandIn => CashTotal(StampedWith(i)) = 0
        <3>1. CashTotal({}) = 0
            BY <1>3, SumEmpty
        <3> QED BY <3>1 DEF CashInv, HandInIsWhole
    <2> QED BY <2>1, <2>2 DEF CashInv, HandInIsWhole, NoHandIn
<1>9. SumOver(byStamp, RemittanceId) = SumOver(expected, RemittanceId)
    <2> HIDE DEF byStamp, expected
    <2> QED BY <1>8, CashAssumption, SumSame
<1>10. SumOver(expected, RemittanceId) = Sum(expected)
    BY DEF Sum, FoldFunction, SumOver
<1> QED BY <1>1, <1>3, <1>4, <1>7, <1>9, <1>10 DEF CashConserved

\* No cash is lost or counted twice, for any number of managers, deliveries and
\* hand-ins: what was taken is what is held and what was handed in.
THEOREM CashIsConserved == Spec => []CashConserved
<1> QED BY TypeCorrect, CashAlways, TakenAddsUp, PTL
=============================================================================
