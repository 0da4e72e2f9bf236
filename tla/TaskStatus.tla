----------------------------- MODULE TaskStatus -----------------------------
(***************************************************************************)
(* The status vocabulary of a delivery task and of the assignment rows     *)
(* that say which rider holds it, with the rules for moving between        *)
(* statuses: internal/modules/tasks/statuses.go, the validTransitions      *)
(* table of service.go and statusChangeError of lifecycle.go.              *)
(***************************************************************************)

TerminalStatuses == {"delivered", "completed", "cancelled", "failed", "returned"}

PrePickupStatuses == {"assigned", "accepted", "en_route_pickup", "arrived_pickup"}

PostPickupStatuses == {"picked_up", "en_route", "en_route_dropoff", "arrived_dropoff"}

InProgressStatuses ==
    {"assigned", "accepted", "en_route", "en_route_pickup", "arrived_pickup",
     "picked_up", "en_route_dropoff", "arrived_dropoff"}

TaskStatuses == {"pending"} \cup InProgressStatuses \cup TerminalStatuses

\* The assignment statuses that mean a rider holds the task.
ActiveAssignmentStatuses == {"assigned", "accepted"}

AssignmentStatuses ==
    ActiveAssignmentStatuses
        \cup {"declined", "unassigned", "cancelled", "failed", "completed"}

\* en_route is the legacy one-leg status: rows may carry it, no edge leads to it.
validTransitions ==
    [pending          |-> {"assigned", "cancelled"},
     assigned         |-> {"accepted", "cancelled"},
     accepted         |-> {"en_route_pickup", "cancelled"},
     en_route         |-> {"arrived_dropoff", "delivered", "cancelled", "failed"},
     en_route_pickup  |-> {"arrived_pickup", "cancelled", "failed"},
     arrived_pickup   |-> {"picked_up", "cancelled", "failed"},
     picked_up        |-> {"en_route_dropoff", "cancelled", "failed"},
     en_route_dropoff |-> {"arrived_dropoff", "cancelled", "failed"},
     arrived_dropoff  |-> {"delivered", "cancelled", "failed"},
     delivered        |-> {},
     completed        |-> {},
     failed           |-> {},
     cancelled        |-> {}]

ValidTransition(from, to) ==
    /\ from \in DOMAIN validTransitions
    /\ to \in validTransitions[from]

RiderStatusAllowed(to) == to \notin {"cancelled", "pending", "assigned"}

\* statusChangeError returns nil. A request that fails or cancels without a
\* reason is refused before anything is written and is not modelled.
StatusChangeAllowed(from, to, byRider) ==
    /\ to \notin {"delivered", "completed"}
    /\ from \notin TerminalStatuses
    /\ byRider => RiderStatusAllowed(to)
    /\ to \notin {"pending", "assigned"}
    /\ byRider /\ to = "failed" => from \in PostPickupStatuses
    /\ ValidTransition(from, to)
=============================================================================
