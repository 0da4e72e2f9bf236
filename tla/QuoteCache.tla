----------------------------- MODULE QuoteCache -----------------------------
(***************************************************************************)
(* The cached snapshot of areas, outlets and policy that a tenant's quotes  *)
(* are computed from (internal/modules/zones/service.go: snapshot,          *)
(* Invalidate, and the writes). Configurations are numbered; the cache      *)
(* itself is a library (external): GetOrSet loads on a miss and stores what *)
(* it loaded, for a fixed time.                                             *)
(***************************************************************************)
EXTENDS Integers

CONSTANTS
    Readers,        \* requests that load the snapshot
    MaxEdits        \* bound: how often the configuration changes

VARIABLES
    config,     \* the configuration in the database
    hasAreas,   \* the tenant has zones
    dropping,   \* writers that committed and have not invalidated yet
    cached,     \* the cached configuration, 0 for none
    loading     \* what each reader has read and not stored yet, 0 for nothing

vars == <<config, hasAreas, dropping, cached, loading>>

-----------------------------------------------------------------------------

Config == 1 .. MaxEdits + 1

TypeOK ==
    /\ config \in Config
    /\ hasAreas \in BOOLEAN
    /\ dropping \in 0 .. MaxEdits
    /\ cached \in Config \cup {0}
    /\ loading \in [Readers -> Config \cup {0}]

Init ==
    /\ config = 1
    /\ hasAreas \in BOOLEAN
    /\ dropping = 0
    /\ cached = 0
    /\ loading = [r \in Readers |-> 0]

\* CreateZone, UpdateZone, DeleteZone, SavePolicy, ResetPolicy, and an outlet that
\* the mirror changed: the write, then Invalidate.
Edit ==
    /\ config \in 1 .. MaxEdits
    /\ config' = config + 1
    /\ hasAreas' \in BOOLEAN
    /\ dropping' = dropping + 1
    /\ UNCHANGED <<cached, loading>>

\* SavePlatformPolicy: of the tenants that follow it, only those with areas are
\* invalidated.
SavePlatformPolicy ==
    /\ config \in 1 .. MaxEdits
    /\ config' = config + 1
    /\ dropping' = IF hasAreas THEN dropping + 1 ELSE dropping
    /\ UNCHANGED <<hasAreas, cached, loading>>

Invalidate ==
    /\ dropping > 0
    /\ dropping' = dropping - 1
    /\ cached' = 0
    /\ UNCHANGED <<config, hasAreas, loading>>

\* The process stops, or Redis cannot be reached, after the write.
LoseInvalidate ==
    /\ dropping > 0
    /\ dropping' = dropping - 1
    /\ UNCHANGED <<config, hasAreas, cached, loading>>

\* snapshot, on a miss.
Load(r) ==
    /\ cached = 0
    /\ loading[r] = 0
    /\ loading' = [loading EXCEPT ![r] = config]
    /\ UNCHANGED <<config, hasAreas, dropping, cached>>

Store(r) ==
    /\ loading[r] # 0
    /\ cached' = loading[r]
    /\ loading' = [loading EXCEPT ![r] = 0]
    /\ UNCHANGED <<config, hasAreas, dropping>>

\* Fault: a snapshot is kept until it is invalidated.
KeptUntilDropped == FALSE

\* The snapshot is stored with a time to live.
HasTTL == cached # 0

Expire ==
    /\ HasTTL
    /\ cached' = 0
    /\ UNCHANGED <<config, hasAreas, dropping, loading>>

Next ==
    \/ Edit
    \/ SavePlatformPolicy
    \/ Invalidate
    \/ LoseInvalidate
    \/ \E r \in Readers : Load(r) \/ Store(r)
    \/ Expire

\* A snapshot expires, a load ends.
Fairness == WF_vars(Expire) /\ \A r \in Readers : WF_vars(Store(r))

Spec == Init /\ [][Next]_vars /\ Fairness

-----------------------------------------------------------------------------
(* Properties *)

\* Though a load that began before a change may store the old configuration after
\* the change was invalidated, though an invalidation may be lost, and though a
\* change of the platform policy drops no snapshot of a tenant without areas,
\* quotes are in the end computed from what the tenant sees saved (snapshot,
\* SavePlatformPolicy).
QuotesCatchUp == <>[](cached \in {0, config})

=============================================================================
