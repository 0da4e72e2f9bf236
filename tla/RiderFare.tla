------------------------------ MODULE RiderFare ------------------------------
(***************************************************************************)
(* What a rider earns for a delivery that carries no fee of its own: the    *)
(* tenant's rider pricing rules (internal/modules/earnings/calculator.go,   *)
(* pricing_rules.go). Kilometres and money are whole numbers; a rate or a   *)
(* multiplier that is not set is 0.                                         *)
(***************************************************************************)
EXTENDS Integers, FiniteSets, SequencesExt

CONSTANTS
    RuleIds,        \* the rules a tenant may have
    RuleInputs,     \* what ValidateRule accepts
    MaxKm           \* bound: the longest delivery

VARIABLE rules      \* the stored rules

-----------------------------------------------------------------------------
(* State *)

RuleTypes == {"distance", "flat", "surge", "weight", "time_of_day"}

Tier == [max : Nat \ {0}, rate : Nat]

\* tiers: distance_tiers; two tiers with one max_km are not in RuleInputs.
Rule == [type : RuleTypes, active : BOOLEAN, priority : Nat, base : Nat, perKm : Nat,
         surge : Nat, tiers : SUBSET Tier]

NoRule == [type |-> "none"]

TypeOK == rules \in [RuleIds -> Rule \cup {NoRule}]

Init == rules = [id \in RuleIds |-> NoRule]

Km == 0 .. MaxKm

-----------------------------------------------------------------------------
(* Editing *)

CreateRule(id, r) ==
    /\ rules[id] = NoRule
    /\ rules' = [rules EXCEPT ![id] = r]

\* A patch cannot take a rate or a multiplier away again.
UpdateRule(id, r) ==
    /\ rules[id] # NoRule
    /\ rules[id].perKm # 0 => r.perKm # 0
    /\ rules[id].surge # 0 => r.surge # 0
    /\ rules' = [rules EXCEPT ![id] = r]

DeleteRule(id) ==
    /\ rules[id] # NoRule
    /\ rules' = [rules EXCEPT ![id] = NoRule]

Next ==
    \E id \in RuleIds :
        \/ \E r \in RuleInputs : CreateRule(id, r) \/ UpdateRule(id, r)
        \/ DeleteRule(id)

Spec == Init /\ [][Next]_rules

-----------------------------------------------------------------------------
(* Fares *)

Sorted(tiers) ==
    CHOOSE s \in [1 .. Cardinality(tiers) -> tiers] :
        \A i, j \in 1 .. Cardinality(tiers) : i < j => s[i].max < s[j].max

AtMost(x, y) == IF x < y THEN x ELSE y

\* One round of the loop over the tiers.
Band(sum, tier, km) ==
    IF km <= sum.upTo THEN sum
    ELSE [total |-> sum.total + (AtMost(km, tier.max) - sum.upTo) * tier.rate,
          upTo |-> tier.max]

Bands(tiers, km) ==
    FoldLeft(LAMBDA sum, tier : Band(sum, tier, km), [total |-> 0, upTo |-> 0], Sorted(tiers))

\* Fault: what lies beyond the last tier is free.
NothingBeyond(tiers, km) == Bands(tiers, km).total

ApplyDistanceTiers(tiers, km) ==
    LET s == Sorted(tiers)
        sum == Bands(tiers, km)
    IN  IF tiers = {} THEN 0
        ELSE IF km > sum.upTo THEN sum.total + (km - sum.upTo) * s[Cardinality(tiers)].rate
        ELSE sum.total

Applies(r) == r.type \in {"distance", "flat"}

\* applyRule
ApplyRule(r, km) ==
    LET fee == IF r.type = "flat" THEN r.base
               ELSE r.base + ApplyDistanceTiers(r.tiers, km) + r.perKm * km
    IN  IF r.surge > 0 THEN fee * r.surge ELSE fee

Active == {rules[id] : id \in {i \in RuleIds : rules[i] # NoRule /\ rules[i].active}}

First(rs) == {r \in rs : \A s \in rs : s.priority <= r.priority}

\* CalculateDeliveryFee: the first rule that applies, else the base of the first;
\* rules of one priority come in any order. {}: the delivery policy sets the fare.
Fares(km) ==
    LET applying == {r \in Active : Applies(r)}
    IN  IF applying # {} THEN {ApplyRule(r, km) : r \in First(applying)}
        ELSE {r.base : r \in First(Active)}

-----------------------------------------------------------------------------
(* Properties *)

\* The rate of one kilometre: that of the first tier that reaches it, else that of
\* the last tier.
RateOf(tiers, k) ==
    LET reaching == {t \in tiers : k <= t.max}
    IN  IF reaching # {}
        THEN (CHOOSE t \in reaching : \A u \in reaching : t.max <= u.max).rate
        ELSE (CHOOSE t \in tiers : \A u \in tiers : u.max <= t.max).rate

\* Tiers charge every kilometre once, at its own rate, whatever the order in which
\* they are stored and however far the delivery goes (applyDistanceTiers: "each
\* tier covers the range from the previous tier's max_km up to its own").
EachKmAtItsRate ==
    \A r \in Active, km \in Km :
        r.tiers # {} =>
            ApplyDistanceTiers(r.tiers, km)
                = FoldLeft(LAMBDA sum, k : sum + RateOf(r.tiers, k), 0, [k \in 1 .. km |-> k])

=============================================================================
