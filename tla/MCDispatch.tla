----------------------------- MODULE MCDispatch -----------------------------
(***************************************************************************)
(* Who is offered a job, what its handlers write on it, what the customer   *)
(* pays for it and what the rider earns with it, checked one at a time:     *)
(* focus names the one that moves.                                          *)
(***************************************************************************)
EXTENDS DispatchChoice

CONSTANTS Points, OutletAt, AreaInputs, Policies, MaxAreas, RuleIds, RuleInputs, MaxKm,
          Handlers, MaxCodeAttempts

ASSUME AttemptsAssumption == MaxCodeAttempts \in Nat

VARIABLES focus, areas, policy, rules, status, meta, held, claim, edit, overwritten

Quote == INSTANCE DeliveryQuote
Fare == INSTANCE RiderFare
Record == INSTANCE TaskMetadata

ASSUME RoadAssumption ==
    /\ Points \subseteq Int
    /\ \A o \in Quote!Outlets : OutletAt[o] \in Int
    /\ \A a \in AreaInputs : a \in Quote!Area /\ a.lo <= a.hi
    /\ \A p \in Policies : p \in Quote!Policy

\* No table has two tiers that end at one kilometre.
ASSUME RulesAssumption ==
    /\ MaxKm \in Nat
    /\ \A r \in RuleInputs :
          /\ r \in Fare!Rule
          /\ IsFiniteSet(r.tiers)
          /\ \A s, t \in r.tiers : s.max = t.max => s = t

quoteVars == <<areas, policy>>
recordVars == <<status, meta, held, claim, edit, overwritten>>
allVars == <<focus, vars, quoteVars, rules, recordVars>>

-----------------------------------------------------------------------------
(* Riders: the one who covers the zone is the farthest *)

MCDistance == [r \in Riders |-> r]

(* Areas and policies: a road of twelve kilometres, a shop at either side of it *)

MCPoints == -2 .. 9
MCOutletAt == [main |-> 0, shop |-> 5]

DeliveryArea(lo, hi, fee, outlets) ==
    [type |-> "delivery", active |-> TRUE, lo |-> lo, hi |-> hi, fee |-> fee,
     priority |-> 0, outlets |-> outlets]

MCAreaInputs ==
    {DeliveryArea(1, 2, 2, {}), DeliveryArea(1, 2, 2, {"main"}),
     DeliveryArea(4, 5, 3, {"main"}), [DeliveryArea(4, 6, 1, {}) EXCEPT !.priority = 1],
     DeliveryArea(7, 8, 6, {"main"}), DeliveryArea(-2, -1, 0, {}),
     [DeliveryArea(5, 6, 0, {}) EXCEPT !.type = "exclusion"],
     [DeliveryArea(2, 3, 2, {"shop"}) EXCEPT !.active = FALSE]}

ByRoute ==
    [perKm |-> TRUE, byRoute |-> TRUE, corridor |-> 9, buffer |-> 1, maxRadius |-> 0,
     pickupRadius |-> 0, requireZones |-> TRUE, base |-> 0, rate |-> 1, minFee |-> 2,
     rounding |-> 2, factor |-> 1]

MCPolicies ==
    {ByRoute, [ByRoute EXCEPT !.corridor = 2, !.factor = 2],
     [ByRoute EXCEPT !.byRoute = FALSE, !.requireZones = FALSE, !.maxRadius = 8],
     [ByRoute EXCEPT !.perKm = FALSE, !.pickupRadius = 1],
     [ByRoute EXCEPT !.factor = 2, !.rounding = 3]}

(* Rules: every table of at most two tiers that end at 1 or 3, and rules of the
   other kinds *)

Tiers == [max : {1, 3}, rate : 0 .. 2]

Plain ==
    [type |-> "distance", active |-> TRUE, priority |-> 1, base |-> 1, perKm |-> 0,
     surge |-> 0, tiers |-> {}]

MCRuleInputs ==
    {[Plain EXCEPT !.tiers = ts] :
        ts \in {us \in SUBSET Tiers : \A s, t \in us : s.max = t.max => s = t}}
    \cup {[Plain EXCEPT !.perKm = 2, !.surge = 2, !.priority = 2],
          [Plain EXCEPT !.type = "flat", !.surge = 3, !.priority = 0],
          [Plain EXCEPT !.type = "surge", !.priority = 3],
          [Plain EXCEPT !.active = FALSE]}

-----------------------------------------------------------------------------
FirstPolicy == CHOOSE p \in Policies : TRUE

MCInit ==
    /\ focus \in {"dispatch", "quote", "fare", "record"}
    /\ Init
    /\ Quote!Init /\ (focus # "quote" => policy = FirstPolicy)
    /\ Fare!Init
    /\ Record!Init

MCNext ==
    /\ UNCHANGED focus
    /\ \/ focus = "dispatch" /\ Next /\ UNCHANGED <<quoteVars, rules, recordVars>>
       \/ focus = "quote" /\ Quote!Next /\ UNCHANGED <<vars, rules, recordVars>>
       \/ focus = "fare" /\ Fare!Next /\ UNCHANGED <<vars, quoteVars, recordVars>>
       \/ focus = "record" /\ Record!Next /\ UNCHANGED <<vars, quoteVars, rules>>

MCSpec == MCInit /\ [][MCNext]_allVars

\* The components' properties, which are costly: where the component moves.
FartherNeverCheaper == focus = "quote" => Quote!FartherNeverCheaper
EachKmAtItsRate == focus = "fare" => Fare!EachKmAtItsRate
StampsFitStatus == Record!StampsFitStatus
=============================================================================
