---------------------------- MODULE MCBackOffice ----------------------------
(***************************************************************************)
(* The components of the back office that share no state, checked one at a  *)
(* time: focus names the one that moves.                                    *)
(***************************************************************************)
EXTENDS VehicleInsurance

CONSTANTS Requests, MaxChanges, Scans, MaxLost, MaxInserts, MaxFaults, Readers, MaxEdits,
          Pings, Streams, Retention, MaxStops

ASSUME BackOfficeAssumption ==
    /\ {MaxChanges, MaxLost, MaxInserts, MaxFaults, MaxEdits, MaxStops} \subseteq Nat
    /\ Retention \in Nat

VARIABLES
    focus,
    user, member, granted, gate, filler, call, approved, ungranted,
    auth, changes, events, row, tenantKnown, entitled, list,
    late, open, claimed, scan, unread, alerts, lost,
    rows, step, roots, gone, disturbed, deliveries, pending, inserts, faults,
    config, hasAreas, dropping, cached, loading,
    streams, ping, prune, stops

Account == INSTANCE RiderAccount
Mirror == INSTANCE OutletMirror
Alerts == INSTANCE TaskAlerts
Purge == INSTANCE TenantPurge
Cache == INSTANCE QuoteCache
Tracking == INSTANCE RiderTracking

Components == {"insurance", "account", "mirror", "alerts", "purge", "cache", "tracking"}

accountVars == <<user, member, granted, gate, filler, call, approved, ungranted>>
mirrorVars == <<auth, changes, events, row, tenantKnown, entitled, list>>
alertVars == <<late, open, claimed, scan, unread, alerts, lost>>
purgeVars == <<rows, step, roots, gone, disturbed, deliveries, pending, inserts, faults>>
cacheVars == <<config, hasAreas, dropping, cached, loading>>
trackingVars == <<streams, ping, prune, stops>>

allVars ==
    <<focus, vars, accountVars, mirrorVars, alertVars, purgeVars, cacheVars, trackingVars>>

\* What a component may start with is pinned in the behaviours of the others.
MCInit ==
    /\ focus \in Components
    /\ Init /\ (focus # "insurance" => vehicle = NewVehicle(TRUE, NoDate))
    /\ Account!Init /\ (focus # "account" => user = "none")
    /\ Mirror!Init /\ (focus # "mirror" => ~tenantKnown /\ ~entitled)
    /\ Alerts!Init
    /\ Purge!Init
    /\ Cache!Init /\ (focus # "cache" => ~hasAreas)
    /\ Tracking!Init

MCNext ==
    /\ UNCHANGED focus
    /\ \/ /\ focus = "insurance" /\ Next
          /\ UNCHANGED <<accountVars, mirrorVars, alertVars, purgeVars, cacheVars, trackingVars>>
       \/ /\ focus = "account" /\ Account!Next
          /\ UNCHANGED <<vars, mirrorVars, alertVars, purgeVars, cacheVars, trackingVars>>
       \/ /\ focus = "mirror" /\ Mirror!Next
          /\ UNCHANGED <<vars, accountVars, alertVars, purgeVars, cacheVars, trackingVars>>
       \/ /\ focus = "alerts" /\ Alerts!Next
          /\ UNCHANGED <<vars, accountVars, mirrorVars, purgeVars, cacheVars, trackingVars>>
       \/ /\ focus = "purge" /\ Purge!Next
          /\ UNCHANGED <<vars, accountVars, mirrorVars, alertVars, cacheVars, trackingVars>>
       \/ /\ focus = "cache" /\ Cache!Next
          /\ UNCHANGED <<vars, accountVars, mirrorVars, alertVars, purgeVars, trackingVars>>
       \/ /\ focus = "tracking" /\ Tracking!Next
          /\ UNCHANGED <<vars, accountVars, mirrorVars, alertVars, purgeVars, cacheVars>>

\* The fairness of each component, for the behaviours where it is the one that moves.
MCFairness ==
    /\ WF_accountVars(focus = "account" /\ Account!ExpireAnswer)
    /\ WF_accountVars(focus = "account" /\ Account!CacheAnswer)
    /\ WF_mirrorVars(focus = "mirror" /\ Mirror!Consume)
    /\ WF_mirrorVars(focus = "mirror" /\ Mirror!ReadList)
    /\ SF_mirrorVars(focus = "mirror" /\ Mirror!WriteList)
    /\ WF_alertVars(focus = "alerts" /\ Alerts!Tick)
    /\ \A s \in Scans : WF_alertVars(focus = "alerts" /\ Alerts!Scan(s))
    /\ WF_cacheVars(focus = "cache" /\ Cache!Expire)
    /\ \A r \in Readers : WF_cacheVars(focus = "cache" /\ Cache!Store(r))
    /\ WF_trackingVars(focus = "tracking" /\ Tracking!Tick)
    /\ WF_trackingVars(focus = "tracking" /\ Tracking!Retain)

MCSpec == MCInit /\ [][MCNext]_allVars /\ MCFairness

\* The components' properties.
MCTypeOK ==
    /\ focus \in Components
    /\ TypeOK /\ Account!TypeOK /\ Mirror!TypeOK /\ Alerts!TypeOK /\ Purge!TypeOK /\ Cache!TypeOK
    /\ Tracking!TypeOK

SuspensionSticks == Account!SuspensionSticks
RoleFollowsRider == Account!RoleFollowsRider
FleetGateRecovers == Account!FleetGateRecovers
MirrorConverges == Mirror!MirrorConverges
LateOrderHeard == Alerts!LateOrderHeard
OrderRespectsForeignKeys == Purge!OrderRespectsForeignKeys
QuotesCatchUp == Cache!QuotesCatchUp
StreamsEnd == Tracking!StreamsEnd
=============================================================================
