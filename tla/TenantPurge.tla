----------------------------- MODULE TenantPurge -----------------------------
(***************************************************************************)
(* Deleting all of a tenant's rows on a confirmed tenant.purge              *)
(* (internal/modules/consumers/tenant_purge_events.go), while requests go   *)
(* on inserting. The foreign keys are those of internal/ent/migrate: a row  *)
(* cannot be deleted while another one refers to it.                        *)
(*                                                                         *)
(* A row is <<table, batch>>. The rows that hang on a task, a shipment or a *)
(* telemetry stream are of the batch of that root: "old" if the root was    *)
(* there from the start, "new" if it was inserted later.                    *)
(***************************************************************************)
EXTENDS Integers, Sequences

CONSTANTS
    MaxInserts,     \* bound: rows inserted by other requests
    MaxFaults       \* bound: transactions or acknowledgements lost to an outage

VARIABLES
    rows,       \* the committed rows of the tenant
    step,       \* the table the purge deletes next, 0 when none runs
    roots,      \* task, shipment and stream IDs read up front
    gone,       \* rows deleted in the open transaction
    disturbed,  \* ghost: a row was inserted since the transaction began
    deliveries, \* deliveries of the event
    pending,    \* the event is to be delivered again
    inserts,    \* rows inserted so far
    faults      \* outages so far

vars == <<rows, step, roots, gone, disturbed, deliveries, pending,
          inserts, faults>>

-----------------------------------------------------------------------------
(* The tables *)

MaxDeliver == 5

\* The foreign keys with ON DELETE NO ACTION: the tables a table refers to. shifts
\* stands for every table without one, from ridershifts to outbox_events.
Refers ==
    [task_events |-> {"tasks"}, task_steps |-> {"tasks"},
     task_assignments |-> {"tasks", "fleet_members"},
     proof_of_deliveries |-> {"tasks"}, rider_ratings |-> {"fleet_members"},
     chain_of_custodies |-> {"shipments"},
     telemetry_points |-> {"telemetry_streams"},
     user_role_assignments |-> {"users"}, tasks |-> {}, telemetry_streams |-> {},
     shipments |-> {}, fleet_members |-> {"fleets", "users"},
     vehicles |-> {"fleets"}, fleets |-> {}, shifts |-> {}, users |-> {"tenants"},
     tenants |-> {}]

Table == DOMAIN Refers

\* A table whose rows are found by the IDs of the root they hang on.
RootOf ==
    [task_events |-> "tasks", task_steps |-> "tasks", task_assignments |-> "tasks",
     chain_of_custodies |-> "shipments", telemetry_points |-> "telemetry_streams"]

Scoped == DOMAIN RootOf

Roots == {RootOf[t] : t \in Scoped}

\* A proof carries the tenant, and the batch of its task.
Batch(t) ==
    IF t \in Scoped \cup Roots \cup {"proof_of_deliveries"} THEN {"old", "new"} ELSE {"old"}

Row == UNION {{t} \X Batch(t) : t \in Table}

RefersTo(r, s) ==
    /\ s[1] \in Refers[r[1]]
    /\ s[1] \in Roots => s[2] = r[2]

TypeOK ==
    /\ rows \subseteq Row
    /\ step \in 0 .. 18
    /\ roots \subseteq Roots \X {"old", "new"}
    /\ gone \subseteq Row
    /\ disturbed \in BOOLEAN
    /\ deliveries \in 0 .. MaxDeliver
    /\ pending \in BOOLEAN
    /\ inserts \in 0 .. MaxInserts
    /\ faults \in 0 .. MaxFaults

Init ==
    /\ rows = {<<t, "old">> : t \in Table}
    /\ step = 0
    /\ roots = {}
    /\ gone = {}
    /\ disturbed = FALSE
    /\ deliveries = 0
    /\ pending = TRUE
    /\ inserts = 0
    /\ faults = 0

Running == step > 0

-----------------------------------------------------------------------------
(* The purge *)

\* Fault: the fleets go before their vehicles.
FleetsFirst ==
    <<"task_events", "task_steps", "task_assignments", "proof_of_deliveries",
      "rider_ratings", "chain_of_custodies", "telemetry_points",
      "user_role_assignments", "tasks", "telemetry_streams", "shipments",
      "fleet_members", "fleets", "vehicles", "shifts", "users", "tenants">>

\* The order of the deletes.
Order ==
    <<"task_events", "task_steps", "task_assignments", "proof_of_deliveries",
      "rider_ratings", "chain_of_custodies", "telemetry_points",
      "user_role_assignments", "tasks", "telemetry_streams", "shipments",
      "fleet_members", "vehicles", "fleets", "shifts", "users", "tenants">>

\* handleMessage took a confirmed event; purgeTenant reads the roots.
Begin ==
    /\ pending /\ ~Running
    /\ step' = 1
    /\ roots' = {r \in rows : r[1] \in Roots}
    /\ gone' = {}
    /\ disturbed' = FALSE
    /\ deliveries' = deliveries + 1
    /\ UNCHANGED <<rows, pending, inserts, faults>>

Visible == rows \ gone

Victims(t) ==
    {r \in Visible : /\ r[1] = t
                     /\ t \in Scoped => <<RootOf[t], r[2]>> \in roots}

\* A foreign key refuses the delete.
Refused(t) ==
    \E r \in Victims(t), s \in Visible \ Victims(t) : RefersTo(s, r)

DeleteTable ==
    /\ step \in 1 .. Len(Order)
    /\ ~Refused(Order[step])
    /\ gone' = gone \cup Victims(Order[step])
    /\ step' = step + 1
    /\ UNCHANGED <<rows, roots, disturbed, deliveries, pending, inserts, faults>>

\* The event was not acknowledged and is delivered again, five times at most.
Again == deliveries < MaxDeliver

Rollback ==
    /\ step' = 0
    /\ roots' = {}
    /\ gone' = {}
    /\ pending' = Again
    /\ UNCHANGED <<rows, disturbed, deliveries, inserts>>

Fail ==
    /\ step \in 1 .. Len(Order)
    /\ Refused(Order[step])
    /\ Rollback
    /\ UNCHANGED faults

\* The database or the process goes away.
Outage ==
    /\ Running
    /\ faults < MaxFaults
    /\ faults' = faults + 1
    /\ Rollback

\* The acknowledgement may get lost.
Commit(acked) ==
    /\ step = Len(Order) + 1
    /\ rows' = Visible
    /\ step' = 0
    /\ roots' = {}
    /\ gone' = {}
    /\ IF acked THEN pending' = FALSE /\ UNCHANGED faults
       ELSE /\ faults < MaxFaults
            /\ faults' = faults + 1
            /\ pending' = Again
    /\ UNCHANGED <<disturbed, deliveries, inserts>>

-----------------------------------------------------------------------------
(* Everyone else *)

\* A request or a consumer inserts a row. What it refers to must be there, and
\* must not be deleted by the transaction it would have to wait for.
Insert(r) ==
    /\ inserts < MaxInserts
    /\ r \notin Visible
    /\ \A t \in Refers[r[1]] : \E s \in Visible : s[1] = t /\ RefersTo(r, s)
    /\ rows' = rows \cup {r}
    /\ gone' = gone \ {r}
    /\ disturbed' = TRUE
    /\ inserts' = inserts + 1
    /\ UNCHANGED <<step, roots, deliveries, pending, faults>>

-----------------------------------------------------------------------------
(* Specification *)

Next ==
    \/ Begin
    \/ DeleteTable
    \/ Fail
    \/ Outage
    \/ \E acked \in BOOLEAN : Commit(acked)
    \/ \E r \in Row : Insert(r)

Spec == Init /\ [][Next]_vars

-----------------------------------------------------------------------------
(* Properties *)

\* The order of the deletes suits the foreign keys: only a row that someone
\* inserted in the meantime can make a purge fail (purgeTenant: "children before
\* parents").
OrderRespectsForeignKeys ==
    step \in 1 .. Len(Order) /\ Refused(Order[step]) => disturbed

=============================================================================
