---------------------------- MODULE OutletMirror ----------------------------
(***************************************************************************)
(* The local copy of one outlet of auth-api (internal/modules/tenant and    *)
(* consumers/tenant_purge_events.go). Events about the outlet arrive in any *)
(* order, more than once or, after five failed deliveries, not at all; a    *)
(* resync every six hours reads the outlet from auth-api and writes what it *)
(* read. The copy decides where deliveries are quoted from.                 *)
(***************************************************************************)
EXTENDS Integers

CONSTANT MaxChanges     \* bound: how often the outlet is changed in auth-api

VARIABLES
    auth,       \* the outlet in auth-api (external)
    changes,    \* how often it was changed
    events,     \* auth.outlet.* events not yet acknowledged
    row,        \* the mirrored outlet
    tenantKnown,\* the tenant has a row here
    entitled,   \* the tenant's plan covers logistics
    list        \* what the running resync read from auth-api: {} when none runs

vars == <<auth, changes, events, row, tenantKnown, entitled, list>>

-----------------------------------------------------------------------------
(* State *)

Pin == {"none", "old", "new"}

\* hub: the use case is one of logisticsUseCases. The other fields, which are
\* written together, are one version number.
Outlet == [version : 1 .. MaxChanges, hub : BOOLEAN, pin : Pin, archived : BOOLEAN]

NoOutlet == [version |-> 0, hub |-> FALSE, pin |-> "none", archived |-> FALSE]

\* auth.outlet.created and .updated carry the outlet, .archived only names it.
Event == [archive : BOOLEAN, outlet : Outlet]

TypeOK ==
    /\ auth \in Outlet \cup {NoOutlet}
    /\ changes \in 0 .. MaxChanges
    /\ events \subseteq Event
    /\ row \in Outlet \cup {NoOutlet}
    /\ tenantKnown \in BOOLEAN
    /\ entitled \in BOOLEAN
    /\ list \in SUBSET (Outlet \cup {NoOutlet})

Init ==
    /\ auth = NoOutlet
    /\ changes = 0
    /\ events = {}
    /\ row = NoOutlet
    /\ tenantKnown \in BOOLEAN
    /\ entitled \in BOOLEAN
    /\ list = {}

-----------------------------------------------------------------------------
(* auth-api *)

\* The outlet is created, edited, archived or taken back into use.
Change(o) ==
    /\ changes < MaxChanges
    /\ o.version = changes + 1
    /\ auth' = o
    /\ changes' = changes + 1
    /\ events' = events \cup {[archive |-> o.archived, outlet |-> o]}
    /\ UNCHANGED <<row, tenantKnown, entitled, list>>

-----------------------------------------------------------------------------
(* Writing the row *)

\* Hubs are always mirrored, another outlet only for a tenant that is known.
Mirrored(o) == o.hub \/ tenantKnown

\* Fault: the writer leaves an outlet alone that is there.
UpsertCreatesOnly(o) == IF ~Mirrored(o) \/ row # NoOutlet THEN row ELSE o

\* UpsertOutlet: a record without a pin keeps the stored one.
UpsertOutlet(o) ==
    IF ~Mirrored(o) THEN row
    ELSE IF row # NoOutlet /\ o.pin = "none" THEN [o EXCEPT !.pin = row.pin]
    ELSE o

\* Fault: an outlet that was never seen is archived.
ArchiveUnseen == [row EXCEPT !.archived = TRUE]

ArchiveOutlet == IF row = NoOutlet THEN row ELSE [row EXCEPT !.archived = TRUE]

\* One delivery of an event. Unless it is acknowledged it comes again.
Handle(e, acked) ==
    /\ e \in events
    /\ row' = IF e.archive THEN ArchiveOutlet ELSE UpsertOutlet(e.outlet)
    /\ events' = IF acked THEN events \ {e} ELSE events
    /\ UNCHANGED <<auth, changes, tenantKnown, entitled, list>>

\* The fifth delivery failed.
Abandon(e) ==
    /\ e \in events
    /\ events' = events \ {e}
    /\ UNCHANGED <<auth, changes, row, tenantKnown, entitled, list>>

-----------------------------------------------------------------------------
(* The resync *)

\* Whether auth-api lists an archived outlet is not known here.
Listed ==
    IF auth = NoOutlet THEN {NoOutlet}
    ELSE IF auth.archived THEN {auth, NoOutlet}
    ELSE {auth}

\* SyncAll visits the entitled tenants; SyncTenant reads their outlets.
ReadList ==
    /\ list = {}
    /\ tenantKnown /\ entitled
    /\ \E o \in Listed : list' = {o}
    /\ UNCHANGED <<auth, changes, events, row, tenantKnown, entitled>>

WriteList ==
    /\ \E o \in list : row' = IF o = NoOutlet THEN row ELSE UpsertOutlet(o)
    /\ list' = {}
    /\ UNCHANGED <<auth, changes, events, tenantKnown, entitled>>

\* An error or a restart: the next run starts over.
GiveUp ==
    /\ list # {}
    /\ list' = {}
    /\ UNCHANGED <<auth, changes, events, row, tenantKnown, entitled>>

-----------------------------------------------------------------------------
(* The tenant *)

\* Syncer.SyncTenant on a request, or an auth.tenant.* event.
LearnTenant ==
    /\ entitled
    /\ ~tenantKnown
    /\ tenantKnown' = TRUE
    /\ UNCHANGED <<auth, changes, events, row, entitled, list>>

\* A confirmed tenant.purge deletes the outlets and the tenant in one transaction.
Purge ==
    /\ tenantKnown' = FALSE
    /\ row' = NoOutlet
    /\ UNCHANGED <<auth, changes, events, entitled, list>>

ChangePlan ==
    /\ entitled' = ~entitled
    /\ UNCHANGED <<auth, changes, events, row, tenantKnown, list>>

-----------------------------------------------------------------------------
(* Specification *)

Edit == \E o \in Outlet : Change(o)

Consume == \E e \in events : Handle(e, TRUE) \/ Abandon(e)

Redeliver == \E e \in events : Handle(e, FALSE)

Next ==
    \/ Edit
    \/ Consume
    \/ Redeliver
    \/ ReadList
    \/ WriteList
    \/ GiveUp
    \/ LearnTenant
    \/ Purge
    \/ ChangePlan

\* An event is delivered at most five times, the resync runs every six hours and
\* does not fail for ever.
Fairness ==
    /\ WF_vars(Consume)
    /\ WF_vars(ReadList)
    /\ SF_vars(WriteList)

Spec == Init /\ [][Next]_vars /\ Fairness

-----------------------------------------------------------------------------
(* Properties *)

\* The row says what auth-api says; a pin that was removed there stays.
UpToDate ==
    /\ row # NoOutlet
    /\ row.version = auth.version
    /\ ~row.archived
    /\ auth.pin # "none" => row.pin = auth.pin

\* Whatever events are lost, repeated or overtaken, and whatever an old list wrote
\* over a newer row, the outlet in use of a tenant that stays is in the end what
\* auth-api says (UpsertOutlet, handleArchive, OutletResync).
MirrorConverges ==
    <>[](tenantKnown /\ entitled)
        => <>[](auth # NoOutlet => auth.archived \/ UpToDate)

=============================================================================
