---------------------------- MODULE DeliveryQuote ----------------------------
(***************************************************************************)
(* What a delivery costs a customer: computeQuote and what it calls         *)
(* (internal/modules/zones/quote.go), over delivery areas and a policy that *)
(* the tenant edits (service.go, policy.go).                                *)
(*                                                                         *)
(* Everything lies on one road: a point is an integer, an area an interval, *)
(* and the route to an area runs from the outlet to its farther end. Road   *)
(* distance is a fixed multiple of the straight one. Money is in units.     *)
(***************************************************************************)
EXTENDS Integers, FiniteSets

CONSTANTS
    Points,         \* where a pin can be
    OutletAt,       \* the place of each active outlet with a map location
    AreaInputs,     \* the areas a tenant may define
    Policies,       \* the policies it may save
    MaxAreas        \* bound: areas at a time

VARIABLES
    areas,      \* the tenant's zones
    policy      \* the delivery policy in force

vars == <<areas, policy>>

-----------------------------------------------------------------------------
(* State *)

Outlets == DOMAIN OutletAt

\* fee 0: free. outlets {}: every outlet.
Area == [type : {"delivery", "exclusion"}, active : BOOLEAN, lo : Points, hi : Points,
         fee : Nat, priority : Nat, outlets : SUBSET Outlets]

\* maxRadius and pickupRadius 0: not set. factor: road_factor_fallback, which is 1
\* when distances are straight.
Policy == [perKm : BOOLEAN, byRoute : BOOLEAN, corridor : Nat, buffer : Nat,
           maxRadius : Nat, pickupRadius : Nat, requireZones : BOOLEAN, base : Nat,
           rate : Nat, minFee : Nat, rounding : Nat \ {0}, factor : Nat \ {0}]

TypeOK ==
    /\ areas \subseteq Area
    /\ policy \in Policy

Init ==
    /\ areas = {}
    /\ policy \in Policies

-----------------------------------------------------------------------------
(* Editing *)

CreateZone(a) ==
    /\ Cardinality(areas) < MaxAreas
    /\ areas' = areas \cup {a}
    /\ UNCHANGED policy

UpdateZone(a, b) ==
    /\ a \in areas
    /\ areas' = (areas \ {a}) \cup {b}
    /\ UNCHANGED policy

DeleteZone(a) ==
    /\ a \in areas
    /\ areas' = areas \ {a}
    /\ UNCHANGED policy

SavePolicy(p) ==
    /\ policy' = p
    /\ UNCHANGED areas

Next ==
    \/ \E a \in AreaInputs : CreateZone(a)
    \/ \E a \in areas, b \in AreaInputs : UpdateZone(a, b)
    \/ \E a \in areas : DeleteZone(a)
    \/ \E p \in Policies : SavePolicy(p)

Spec == Init /\ [][Next]_vars

-----------------------------------------------------------------------------
(* Places *)

Larger(x, y) == IF x > y THEN x ELSE y

Smaller(x, y) == IF x < y THEN x ELSE y

Apart(x, y) == IF x > y THEN x - y ELSE y - x

Holds(a, pin) == a.lo <= pin /\ pin <= a.hi

\* DistanceToRingKm
ToArea(a, pin) ==
    IF Holds(a, pin) THEN 0 ELSE Smaller(Apart(a.lo, pin), Apart(a.hi, pin))

\* routeTo: the end of the area that is farther from the outlet.
Far(from, a) == IF Apart(from, a.lo) > Apart(from, a.hi) THEN a.lo ELSE a.hi

Reach(from, a) == Apart(from, Far(from, a))

\* DistanceToSegmentKm of the route to the area.
OffRoute(from, a, pin) ==
    IF Smaller(from, Far(from, a)) <= pin /\ pin <= Larger(from, Far(from, a)) THEN 0
    ELSE Smaller(Apart(from, pin), Apart(Far(from, a), pin))

ServesOutlet(a, o) == a.outlets = {} \/ o \in a.outlets

-----------------------------------------------------------------------------
(* Prices *)

RoundUp(x, step) == ((x + step - 1) \div step) * step

\* perKmFee
PerKmFee(km) ==
    RoundUp(Larger(policy.base + policy.rate * km, policy.minFee), policy.rounding)

\* measure
Measured(from, pin) == policy.factor * Apart(from, pin)

Passed(routes, pinKm, from) == {a \in routes : a.fee > 0 /\ Reach(from, a) <= pinKm}

Ahead(routes, pinKm, from) == {a \in routes : a.fee > 0 /\ Reach(from, a) > pinKm}

\* The fee beyond the end of the last area passed.
Extended(a, from, pin) ==
    a.fee + RoundUp(policy.rate * (Apart(from, pin) - Reach(from, a)) * policy.factor,
                    policy.rounding)

\* Fault: the area ahead does not cap the price.
HoldToPassedOnly(fee, routes, from, pin) ==
    LET passed == Passed(routes, Apart(from, pin), from)
        last == CHOOSE a \in passed : \A b \in passed : Reach(from, b) <= Reach(from, a)
    IN  IF passed = {} THEN fee ELSE Extended(last, from, pin)

\* holdToRoute: of areas that end at the same distance the code takes the first it
\* lists; AreaInputs has no two such areas with different fees.
HoldToRoute(fee, routes, from, pin) ==
    LET passed == Passed(routes, Apart(from, pin), from)
        ahead == Ahead(routes, Apart(from, pin), from)
        last == CHOOSE a \in passed : \A b \in passed : Reach(from, b) <= Reach(from, a)
        next == CHOOSE a \in ahead : \A b \in ahead : Reach(from, a) <= Reach(from, b)
    IN  IF ahead # {}
        THEN IF fee > next.fee THEN next.fee
             ELSE IF passed # {} /\ fee < last.fee /\ last.fee <= next.fee THEN last.fee
             ELSE fee
        ELSE IF passed = {} THEN fee
        ELSE Extended(last, from, pin)

-----------------------------------------------------------------------------
(* Quotes *)

Refusal(why) == [served |-> FALSE, why |-> why, fee |-> 0]

Price(how, fee) == [served |-> TRUE, why |-> how, fee |-> fee]

\* Highest priority, then smallest area.
Specific(hits) ==
    {a \in hits : \A b \in hits :
        \/ a.priority > b.priority
        \/ a.priority = b.priority /\ a.hi - a.lo <= b.hi - b.lo}

\* Outside every area: near one, or near the route to one.
Covered(delivery, from, pin) ==
    IF delivery = {} THEN ~policy.requireZones
    ELSE \/ \E a \in delivery : ToArea(a, pin) <= policy.buffer
         \/ policy.byRoute /\ \E a \in delivery : OffRoute(from, a, pin) <= policy.corridor

RoutesNear(delivery, from, pin) ==
    {a \in delivery : OffRoute(from, a, pin) <= policy.corridor}

PerKmPrice(delivery, from, pin) ==
    LET fee == PerKmFee(Measured(from, pin))
    IN  IF policy.byRoute THEN HoldToRoute(fee, RoutesNear(delivery, from, pin), from, pin)
        ELSE fee

\* computeQuote for an outlet; Specific may leave two areas alike, and the code
\* takes the first it lists.
Quotes(o, pin) ==
    LET from == OutletAt[o]
        serving == {a \in areas : a.active /\ ServesOutlet(a, o)}
        delivery == {a \in serving : a.type = "delivery"}
        hits == {a \in delivery : Holds(a, pin)}
    IN  IF policy.pickupRadius > 0 /\ Apart(from, pin) <= policy.pickupRadius
        THEN {Refusal("at outlet")}
        ELSE IF \E a \in serving : a.type = "exclusion" /\ Holds(a, pin)
        THEN {Refusal("excluded")}
        ELSE IF policy.maxRadius > 0 /\ Apart(from, pin) > policy.maxRadius
        THEN {Refusal("beyond radius")}
        ELSE IF hits # {} THEN {Price("zone", a.fee) : a \in Specific(hits)}
        ELSE IF ~policy.perKm \/ ~Covered(delivery, from, pin)
        THEN {Refusal("outside")}
        ELSE {Price("per km", PerKmPrice(delivery, from, pin))}

-----------------------------------------------------------------------------
(* Properties *)

\* The paid areas that serve an outlet follow each other along the road away from
\* it, and the farther ones cost no less.
OrderedTariff(o) ==
    LET delivery == {a \in areas : a.active /\ a.type = "delivery" /\ ServesOutlet(a, o)}
    IN  \A a, b \in delivery :
            /\ a.fee > 0
            /\ a.lo > OutletAt[o]
            /\ a # b => a.hi < b.lo \/ b.hi < a.lo
            /\ a.lo < b.lo => a.fee <= b.fee

\* With such a tariff, prices held to the routes, and no place farther from an area
\* than its corridor, nobody pays less by living farther out on the same road, be
\* it in an area, before it, between two or past the last (computeQuote,
\* holdToRoute: "a place between two areas is priced between their fees and one
\* past the last area continues from its fee").
FartherNeverCheaper ==
    \A o \in Outlets, near, far \in Points :
        (/\ policy.byRoute
         /\ policy.corridor >= far - OutletAt[o]
         /\ OrderedTariff(o)
         /\ OutletAt[o] <= near /\ near < far)
        => \A p \in Quotes(o, near), q \in Quotes(o, far) :
               p.served /\ q.served => p.fee <= q.fee

=============================================================================
