----------------------------- MODULE RiderCash -----------------------------
(***************************************************************************)
(* The cash a rider takes on delivery and hands in at the outlet:          *)
(* internal/modules/tasks/cash.go. The ledger is the cash proofs of        *)
(* delivery that are not stamped as handed in; recording a hand-in loads   *)
(* them, adds them up, and stamps them in one transaction.                 *)
(*                                                                         *)
(* The transaction updates row after row, in the order the proofs were     *)
(* captured and each on the condition that it is still unstamped. Two of   *)
(* them wait for each other on the first row they share, and one that      *)
(* misses a row is rolled back, so the transaction is one action. Riders   *)
(* share no proofs; one is modelled. The amount due on a delivered task    *)
(* does not change, so the queries of proofs and of tasks are one step.    *)
(* Amounts are whole.                                                      *)
(***************************************************************************)
EXTENDS Integers, FiniteSets, Functions

CONSTANTS
    Managers,       \* requests that can be in flight together
    PoDId,          \* the rider's deliveries, one proof each
    Due,            \* taskCODAmount of each delivery; 0 is prepaid
    RemittanceId,   \* identifiers of hand-ins; bounds how many are recorded
    NoRemittance,   \* a proof that is not stamped
    MaxAmount       \* bound: what a customer or a rider hands over

ASSUME CashAssumption ==
    /\ NoRemittance \notin RemittanceId
    /\ IsFiniteSet(PoDId)
    /\ IsFiniteSet(RemittanceId)
    /\ Due \in [PoDId -> Nat]
    /\ MaxAmount \in Nat

VARIABLES
    pods,       \* proof_of_deliveries of the rider
    remitted,   \* remitted_at and remittance_id on each proof
    handIns,    \* the other fields of a stamp, per remittance_id
    call        \* the hand-in each manager is recording

vars == <<pods, remitted, handIns, call>>

-----------------------------------------------------------------------------
(* State *)

NoPoD == [method |-> "none", collected |-> 0]

PoD == [method : {"cash", "mpesa", ""}, collected : Nat]

NoHandIn == [deliveries |-> 0, expected |-> 0, received |-> 0, shortfall |-> 0]

HandIn == [deliveries : Nat, expected : Nat, received : Nat, shortfall : Nat]

\* loaded: the proofs read; id: the new remittance; expected, received: its sums.
Idle == [id |-> NoRemittance, loaded |-> {}, expected |-> 0, received |-> 0]

Call == [id : RemittanceId \cup {NoRemittance}, loaded : SUBSET PoDId,
         expected : Nat, received : Nat]

TypeOK ==
    /\ pods \in [PoDId -> PoD \cup {NoPoD}]
    /\ remitted \in [PoDId -> RemittanceId \cup {NoRemittance}]
    /\ handIns \in [RemittanceId -> HandIn]
    /\ call \in [Managers -> Call]

Init ==
    /\ pods = [p \in PoDId |-> NoPoD]
    /\ remitted = [p \in PoDId |-> NoRemittance]
    /\ handIns = [i \in RemittanceId |-> NoHandIn]
    /\ call = [m \in Managers |-> Idle]

Sum(f) == FoldFunction(+, 0, f)

\* What the rider owes: the amount due, although more may have been handed over.
CashAmount(p) ==
    IF Due[p] > 0 /\ Due[p] <= pods[p].collected THEN Due[p] ELSE pods[p].collected

CashTotal(S) == Sum([p \in S |-> CashAmount(p)])

\* A variant that asks for every cash delivery the rider ever made.
StampIgnored(p) == TRUE

NotRemitted(p) == remitted[p] = NoRemittance

CashTaken == {p \in PoDId : pods[p].method = "cash" /\ pods[p].collected > 0}

OutstandingCash == {p \in CashTaken : NotRemitted(p)}

Goto(m, c) == call' = [call EXCEPT ![m] = c]

\* The proofs stamped with remittance i.
StampedWith(i) == {p \in PoDId : remitted[p] = i}

Unused(i) == (\A p \in PoDId : remitted[p] # i) /\ \A m \in Managers : call[m].id # i

-----------------------------------------------------------------------------
(* Delivering *)

\* checkCOD: the full amount, in cash or by M-Pesa; prepaid records nothing.
CheckCOD(p, method, amount) ==
    IF Due[p] = 0 THEN method = "" /\ amount = 0
    ELSE method \in {"cash", "mpesa"} /\ amount >= Due[p]

\* completeDelivery writes the proof with what was collected.
Deliver(p, method, amount) ==
    /\ pods[p] = NoPoD
    /\ CheckCOD(p, method, amount)
    /\ pods' = [pods EXCEPT ![p] = [method |-> method, collected |-> amount]]
    /\ UNCHANGED <<remitted, handIns, call>>

-----------------------------------------------------------------------------
(* Handing in *)

\* RecordRemittance loads the outstanding proofs and adds them up.
LoadOutstanding(m, i, received) ==
    /\ call[m] = Idle
    /\ OutstandingCash # {}
    /\ Unused(i)
    /\ Goto(m, [id |-> i, loaded |-> OutstandingCash,
                expected |-> CashTotal(OutstandingCash), received |-> received])
    /\ UNCHANGED <<pods, remitted, handIns>>

\* A variant that lets a shortfall go negative when the rider brings too much.
SignedShortfall(expected, received) == expected - received

\* math.Max(0, expected-received)
Shortfall(expected, received) == IF expected > received THEN expected - received ELSE 0

\* A variant that goes on when a proof was stamped meanwhile.
AnyStillUnstamped(S) == \E p \in S : NotRemitted(p)

\* Every conditional update of the transaction finds its row.
AllStillUnstamped(S) == \A p \in S : NotRemitted(p)

\* The transaction, or ErrRemittanceChanged.
StampLoaded(m) ==
    /\ call[m] # Idle
    /\ LET c == call[m] IN
       \/ /\ AllStillUnstamped(c.loaded)
          /\ remitted' = [p \in PoDId |-> IF p \in c.loaded THEN c.id ELSE remitted[p]]
          /\ handIns' = [handIns EXCEPT ![c.id] =
                [deliveries |-> Cardinality(c.loaded), expected |-> c.expected,
                 received |-> c.received, shortfall |-> Shortfall(c.expected, c.received)]]
       \/ /\ ~AllStillUnstamped(c.loaded)
          /\ UNCHANGED <<remitted, handIns>>
    /\ Goto(m, Idle)
    /\ UNCHANGED pods

\* The request is cut off, or the transaction fails and is rolled back.
Abandon(m) ==
    /\ call[m] # Idle
    /\ Goto(m, Idle)
    /\ UNCHANGED <<pods, remitted, handIns>>

-----------------------------------------------------------------------------
Next ==
    \/ \E p \in PoDId, method \in {"cash", "mpesa", ""}, amount \in 0 .. MaxAmount :
          Deliver(p, method, amount)
    \/ \E m \in Managers :
          \/ \E i \in RemittanceId, received \in 0 .. MaxAmount : LoadOutstanding(m, i, received)
          \/ StampLoaded(m)
          \/ Abandon(m)

Spec == Init /\ [][Next]_vars

-----------------------------------------------------------------------------
(* Properties *)

\* Two managers, a double click or a retry never stamp a delivery twice ("each
\* delivery is stamped only if it is still unremitted", cash.go:245).
StampedOnce ==
    [][\A p \in PoDId : remitted[p] # NoRemittance => remitted'[p] = remitted[p]]_vars

\* A recorded hand-in covers exactly the deliveries it was added up from,
\* whatever is delivered or recorded between the load and the stamps: its count
\* and its amount are those of the proofs that carry it.
HandInIsWhole ==
    \A i \in RemittanceId :
        /\ handIns[i] = NoHandIn => StampedWith(i) = {}
        /\ handIns[i] # NoHandIn =>
              /\ handIns[i].deliveries = Cardinality(StampedWith(i))
              /\ handIns[i].expected = CashTotal(StampedWith(i))

\* No cash is lost or counted twice: what the customers owed in cash is what
\* the rider still holds and what the hand-ins recorded.
CashConserved ==
    CashTotal(CashTaken)
        = CashTotal(OutstandingCash) + Sum([i \in RemittanceId |-> handIns[i].expected])

-----------------------------------------------------------------------------
(* The inductive strengthening behind the proofs *)

\* A hand-in under way has an identifier of its own, and what it loaded
\* is there, is delivered and adds up to what it expects.
CallOK(m) ==
    call[m] # Idle =>
        /\ call[m].id # NoRemittance
        /\ call[m].loaded # {}
        /\ call[m].loaded \subseteq CashTaken
        /\ call[m].expected = CashTotal(call[m].loaded)
        /\ StampedWith(call[m].id) = {}
        /\ \A n \in Managers : call[n].id = call[m].id => n = m

CashTyped ==
    /\ pods \in [PoDId -> PoD \cup {NoPoD}]
    /\ remitted \in [PoDId -> RemittanceId \cup {NoRemittance}]
    /\ DOMAIN handIns = RemittanceId
    /\ DOMAIN call = Managers
    /\ \A m \in Managers : call[m].id \in RemittanceId \cup {NoRemittance}

CashInv ==
    /\ CashTyped
    /\ \A m \in Managers : CallOK(m)
    /\ \A p \in PoDId : remitted[p] # NoRemittance => p \in CashTaken
    /\ HandInIsWhole
=============================================================================
