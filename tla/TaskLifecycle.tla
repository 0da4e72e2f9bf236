--------------------------- MODULE TaskLifecycle ---------------------------
(***************************************************************************)
(* One delivery task and the handlers that race on it: riders claiming,    *)
(* working, declining and delivering, the dispatcher assigning,            *)
(* reassigning, unassigning, cancelling and overriding, auto-dispatch.     *)
(*                                                                         *)
(* internal/modules/tasks keeps no lock across a handler. Every action is  *)
(* one database statement or one transaction; a handler that reads, then   *)
(* writes on the condition that the status is still the one it read, is    *)
(* two actions with any other handler's actions in between. Tasks share no *)
(* state in these handlers, so one task is modelled.                       *)
(*                                                                         *)
(* A refused request changes nothing: where the refusal is the first thing *)
(* that happens the action is not enabled, later it returns to Idle.       *)
(***************************************************************************)
EXTENDS TaskStatus, FiniteSets, Naturals

CONSTANTS
    Workers,        \* handler invocations that can be in flight together
    Riders,         \* fleet members of the tenant
    NoRider,        \* no fleet member (uuid.Nil)
    Eligible,       \* riders that are active and pass RiderBlock
    PaidPerTask,    \* riders whose employment terms pay per delivery
    RowId,          \* primary keys of task_assignments; bounds the rows
    SelfClaim,      \* the tenant setting rider_self_claim
    Faults          \* "insert": the assignment insert may fail,
                    \* "abandon": a handler may die or lose its request context

ASSUME LifecycleAssumption ==
    /\ NoRider \notin Riders
    /\ Eligible \subseteq Riders
    /\ PaidPerTask \subseteq Riders
    /\ IsFiniteSet(RowId)
    /\ IsFiniteSet(Workers)
    /\ SelfClaim \in BOOLEAN
    /\ Faults \subseteq {"insert", "abandon"}

VARIABLES
    status,     \* tasks.status
    rows,       \* task_assignments of the task
    proof,      \* proof_of_deliveries.fleet_member_id, or NoRider
    via,        \* delivered_via on the proof: "code", "override" or "none"
    earned,     \* billing events recorded for the delivery, per rider
    orphaned,   \* an assignment was abandoned before its row was written
    call        \* the handler each worker is running

vars == <<status, rows, proof, via, earned, orphaned, call>>

-----------------------------------------------------------------------------
(* State *)

Ops == {"none", "claim", "assign", "reassign", "status", "decline",
        "unassign", "cancel", "code", "override"}

ReleaseOps == {"decline", "unassign", "reassign"}

DeliveryOps == {"code", "override"}

\* Handlers a dispatcher, or another service, calls without a check of who
\* holds the task.
DispatcherOps == {"status", "unassign", "code", "override"}

\* The statuses UpdateStatusAs ever writes: statusChangeError refuses the others
\* from every status, and "cancelled" goes to CancelTask.
LegStatuses ==
    {"accepted", "en_route_pickup", "arrived_pickup", "picked_up",
     "en_route_dropoff", "arrived_dropoff", "failed"}

Steps == {"idle", "take", "insert", "giveback", "read", "assignee", "write",
          "stamp", "earn"}

NoRow == [member |-> NoRider, status |-> "none"]

Row == [member : Riders \cup {NoRider}, status : AssignmentStatuses \cup {"none"}]

\* op: the handler; at: its next step; who: the rider it is about; seen: the
\* task status it read; to: the status it was asked to set.
Call == [op : Ops, at : Steps, who : Riders \cup {NoRider},
         seen : TaskStatuses \cup {"none"}, to : TaskStatuses \cup {"none"}]

Idle == [op |-> "none", at |-> "idle", who |-> NoRider,
         seen |-> "none", to |-> "none"]

TypeOK ==
    /\ status \in TaskStatuses
    /\ rows \in [RowId -> Row]
    /\ proof \in Riders \cup {NoRider}
    /\ via \in {"none", "code", "override"}
    /\ earned \in [Riders -> Nat]
    /\ orphaned \in BOOLEAN
    /\ call \in [Workers -> Call]

Init ==
    /\ status = "pending"
    /\ rows = [i \in RowId |-> NoRow]
    /\ proof = NoRider
    /\ via = "none"
    /\ earned = [r \in Riders |-> 0]
    /\ orphaned = FALSE
    /\ call = [w \in Workers |-> Idle]

\* Rows that mean a rider holds the task.
Active == {i \in RowId : rows[i].status \in ActiveAssignmentStatuses}

\* ActiveAssignee takes the first active row in no stated order.
MayBeAssignee(m) == \E i \in Active : rows[i].member = m

\* openTaskPredicates: pending, and no rider holds it.
Open == status = "pending" /\ Active = {}

\* A variant that drifts from the assignment vocabulary of statuses.go.
CloseActiveAsClosed(st) ==
    [i \in RowId |-> IF i \in Active THEN [rows[i] EXCEPT !.status = "closed"] ELSE rows[i]]

\* closeActiveAssignments
CloseActive(st) ==
    [i \in RowId |-> IF i \in Active THEN [rows[i] EXCEPT !.status = st] ELSE rows[i]]

Inserting == {w \in Workers : call[w].at = "insert"}

\* Bound: a row is left for every insert that is under way.
RoomForRow ==
    Cardinality({i \in RowId : rows[i] = NoRow}) > Cardinality(Inserting)

\* A variant without the condition: read, then write.
StatusNotCompared(w) == TRUE

\* task.StatusEQ(t.Status): the row still has the status the handler read.
StatusEQ(w) == status = call[w].seen

\* A variant that takes a code from any job in progress.
PodAllowedInProgress == InProgressStatuses

\* podAllowedFrom: the rider must have collected the order.
PodAllowedFrom == {"picked_up", "en_route_dropoff", "arrived_dropoff", "en_route"}

\* A variant without the unique index on proof_of_deliveries.task_id.
ProofNotUnique == TRUE

\* The proof insert passes the unique index on task_id.
NoProofYet == proof = NoRider

Goto(w, c) == call' = [call EXCEPT ![w] = c]

\* A handler about to load the task, asked for by m about status `to`.
Request(op, m, to) == [Idle EXCEPT !.op = op, !.at = "read", !.who = m, !.to = to]

\* The handler with request c loads the task. A dispatcher's request is not
\* preceded by a look at the assignment, so its load is its first step.
Loading(w, c) ==
    \/ call[w] = c
    \/ call[w] = Idle /\ c.who = NoRider /\ c.op \in DispatcherOps

At(w, ops, step) == call[w].op \in ops /\ call[w].at = step

-----------------------------------------------------------------------------
(* Handing the task out *)

\* ClaimTask up to its conditional pending -> assigned update.
ClaimTask(w, m) ==
    /\ call[w] = Idle
    /\ SelfClaim
    /\ m \in Eligible
    /\ Open
    /\ RoomForRow
    /\ status' = "assigned"
    /\ Goto(w, [Idle EXCEPT !.op = "claim", !.at = "insert", !.who = m])
    /\ UNCHANGED <<rows, proof, via, earned, orphaned>>

\* AssignTask up to its look at the current assignment. Assigning to the rider
\* who already holds the task, or to another without reassign, changes nothing.
AssignTask(w, m, reassign) ==
    /\ call[w] = Idle
    /\ m \in Eligible
    /\ \/ /\ Active = {}
          /\ Goto(w, [Idle EXCEPT !.op = "assign", !.at = "take", !.who = m])
       \/ /\ reassign
          /\ \E i \in Active : rows[i].member # m
          /\ Goto(w, Request("reassign", m, "none"))
    /\ UNCHANGED <<status, rows, proof, via, earned, orphaned>>

\* AssignTask's conditional pending -> assigned update; ErrTaskTaken otherwise.
TakeOpenTask(w) ==
    /\ At(w, {"assign", "reassign"}, "take")
    /\ \/ /\ Open
          /\ RoomForRow
          /\ status' = "assigned"
          /\ Goto(w, [call[w] EXCEPT !.op = "assign", !.at = "insert"])
       \/ /\ ~(Open /\ RoomForRow)
          /\ Goto(w, Idle)
          /\ UNCHANGED status
    /\ UNCHANGED <<rows, proof, via, earned, orphaned>>

\* The assignment row is written, in no transaction with the status. A claim
\* goes on to UpdateStatus(accepted).
InsertAssignment(w) ==
    /\ At(w, {"claim", "assign"}, "insert")
    /\ \E i \in RowId :
          /\ rows[i] = NoRow
          /\ rows' = [rows EXCEPT ![i] = [member |-> call[w].who, status |-> "assigned"]]
    /\ Goto(w, IF call[w].op = "claim"
               THEN Request("status", NoRider, "accepted")
               ELSE Idle)
    /\ UNCHANGED <<status, proof, via, earned, orphaned>>

InsertFails(w) ==
    /\ "insert" \in Faults
    /\ At(w, {"claim", "assign"}, "insert")
    /\ Goto(w, [call[w] EXCEPT !.at = "giveback"])
    /\ UNCHANGED <<status, rows, proof, via, earned, orphaned>>

\* UpdateOneID(taskID).SetStatus("pending"), whatever the status is by now.
GiveBack(w) ==
    /\ At(w, {"claim", "assign"}, "giveback")
    /\ status' = "pending"
    /\ Goto(w, Idle)
    /\ UNCHANGED <<rows, proof, via, earned, orphaned>>

-----------------------------------------------------------------------------
(* Working the task *)

\* callerMayWorkTask lets the rider holding the task ask for a status.
RiderAsksStatus(w, m, to) ==
    /\ call[w] = Idle
    /\ MayBeAssignee(m)
    /\ Goto(w, Request("status", m, to))
    /\ UNCHANGED <<status, rows, proof, via, earned, orphaned>>

\* UpdateStatusAs reads the task and applies statusChangeError, for the rider
\* who was let through, a dispatcher or a claim; cancelling is CancelTask.
UpdateStatusAs(w, m, to) ==
    /\ Loading(w, Request("status", m, to))
    /\ StatusChangeAllowed(status, to, m # NoRider)
    /\ Goto(w, [Request("status", m, to) EXCEPT !.at = "write", !.seen = status])
    /\ UNCHANGED <<status, rows, proof, via, earned, orphaned>>

\* The update conditional on the status read; ErrTaskChanged otherwise.
WriteStatus(w) ==
    /\ At(w, {"status"}, "write")
    /\ \/ /\ StatusEQ(w)
          /\ status' = call[w].to
          /\ Goto(w, IF call[w].to \in {"accepted", "failed"}
                     THEN [call[w] EXCEPT !.at = "stamp"]
                     ELSE Idle)
       \/ /\ ~StatusEQ(w)
          /\ Goto(w, Idle)
          /\ UNCHANGED status
    /\ UNCHANGED <<rows, proof, via, earned, orphaned>>

\* Accepting stamps the assigned rows accepted, failing ends the active ones.
StampAssignments(w) ==
    /\ At(w, {"status"}, "stamp")
    /\ rows' = IF call[w].to = "accepted"
               THEN [i \in RowId |-> IF rows[i].status = "assigned"
                                     THEN [rows[i] EXCEPT !.status = "accepted"]
                                     ELSE rows[i]]
               ELSE CloseActive("failed")
    /\ Goto(w, Idle)
    /\ UNCHANGED <<status, proof, via, earned, orphaned>>

-----------------------------------------------------------------------------
(* Taking the task back and cancelling it *)

\* DeclineTask up to its check that the caller holds the task.
DeclineTask(w, m) ==
    /\ call[w] = Idle
    /\ MayBeAssignee(m)
    /\ Goto(w, Request("decline", m, "none"))
    /\ UNCHANGED <<status, rows, proof, via, earned, orphaned>>

\* releaseTask reads the task, for a decline, an unassign or a reassign: only a
\* job still at the outlet can be released.
ReleaseTask(w, op, m) ==
    /\ Loading(w, Request(op, m, "none"))
    /\ status \in PrePickupStatuses
    /\ Goto(w, [Request(op, m, "none") EXCEPT !.at = "write", !.seen = status])
    /\ UNCHANGED <<status, rows, proof, via, earned, orphaned>>

\* releaseTask's transaction. A reassign goes on to take the task.
WriteRelease(w) ==
    /\ At(w, ReleaseOps, "write")
    /\ \/ /\ StatusEQ(w)
          /\ status' = "pending"
          /\ rows' = CloseActive(IF call[w].op = "decline" THEN "declined" ELSE "unassigned")
          /\ Goto(w, IF call[w].op = "reassign"
                     THEN [call[w] EXCEPT !.at = "take", !.seen = "none"]
                     ELSE Idle)
       \/ /\ ~StatusEQ(w)
          /\ Goto(w, Idle)
          /\ UNCHANGED <<status, rows>>
    /\ UNCHANGED <<proof, via, earned, orphaned>>

\* CancelTask reads the task.
CancelTask(w) ==
    /\ call[w] = Idle
    /\ status \notin TerminalStatuses
    /\ Goto(w, [Idle EXCEPT !.op = "cancel", !.at = "write", !.seen = status])
    /\ UNCHANGED <<status, rows, proof, via, earned, orphaned>>

\* CancelTask's transaction.
WriteCancel(w) ==
    /\ At(w, {"cancel"}, "write")
    /\ \/ /\ StatusEQ(w)
          /\ status' = "cancelled"
          /\ rows' = CloseActive("cancelled")
       \/ /\ ~StatusEQ(w)
          /\ UNCHANGED <<status, rows>>
    /\ Goto(w, Idle)
    /\ UNCHANGED <<proof, via, earned, orphaned>>

-----------------------------------------------------------------------------
(* Delivering *)

\* callerMayWorkTask on the SubmitPoD route, for the rider holding the task.
RiderSubmitsPoD(w, m) ==
    /\ call[w] = Idle
    /\ MayBeAssignee(m)
    /\ Goto(w, Request("code", m, "none"))
    /\ UNCHANGED <<status, rows, proof, via, earned, orphaned>>

\* SubmitPoD and OverrideDelivery load the task: a code, entered by the rider or
\* by a dispatcher, delivers a collected order, an override any job in progress.
LoadForDelivery(w, op, m) ==
    /\ Loading(w, Request(op, m, "none"))
    /\ \/ op = "code" /\ status \in PodAllowedFrom
       \/ op = "override" /\ m = NoRider /\ status \in InProgressStatuses
    /\ Goto(w, [Request(op, NoRider, "none") EXCEPT !.at = "assignee", !.seen = status])
    /\ UNCHANGED <<status, rows, proof, via, earned, orphaned>>

\* completeDelivery asks who holds the task before its transaction begins.
ReadAssignee(w) ==
    /\ At(w, DeliveryOps, "assignee")
    /\ \/ \E i \in Active :
             Goto(w, [call[w] EXCEPT !.at = "write", !.who = rows[i].member])
       \/ Active = {} /\ Goto(w, Idle)
    /\ UNCHANGED <<status, rows, proof, via, earned, orphaned>>

\* completeDelivery's transaction: the proof (one per task), the status if it
\* is still the one read, and the end of the rider's assignment.
CompleteDelivery(w) ==
    /\ At(w, DeliveryOps, "write")
    /\ \/ /\ NoProofYet
          /\ StatusEQ(w)
          /\ proof' = call[w].who
          /\ via' = call[w].op
          /\ status' = "delivered"
          /\ rows' = CloseActive("completed")
          /\ Goto(w, [call[w] EXCEPT !.at = "earn"])
       \/ /\ ~NoProofYet \/ ~StatusEQ(w)
          /\ Goto(w, Idle)
          /\ UNCHANGED <<status, rows, proof, via>>
    /\ UNCHANGED <<earned, orphaned>>

\* recordDeliveryEarning, after the commit and in the background.
RecordEarning(w) ==
    /\ At(w, DeliveryOps, "earn")
    /\ earned' = IF call[w].who \in PaidPerTask
                 THEN [earned EXCEPT ![call[w].who] = @ + 1]
                 ELSE earned
    /\ Goto(w, Idle)
    /\ UNCHANGED <<status, rows, proof, via, orphaned>>

\* A request refused when its task is loaded changes nothing.
Refuse(w) ==
    /\ call[w].at = "read"
    /\ ~ CASE call[w].op = "status" ->
               StatusChangeAllowed(status, call[w].to, call[w].who # NoRider)
            [] call[w].op \in ReleaseOps -> status \in PrePickupStatuses
            [] OTHER -> status \in PodAllowedFrom
    /\ Goto(w, Idle)
    /\ UNCHANGED <<status, rows, proof, via, earned, orphaned>>

\* The process stops, or the request context is cancelled: every later
\* statement of the handler, the give-back included, fails.
Abandon(w) ==
    /\ "abandon" \in Faults
    /\ call[w] # Idle
    /\ orphaned' = (orphaned \/ call[w].at \in {"insert", "giveback"})
    /\ Goto(w, Idle)
    /\ UNCHANGED <<status, rows, proof, via, earned>>

-----------------------------------------------------------------------------
Next ==
    \E w \in Workers :
        \/ \E m \in Riders :
              \/ ClaimTask(w, m)
              \/ \E reassign \in BOOLEAN : AssignTask(w, m, reassign)
              \/ \E to \in LegStatuses : RiderAsksStatus(w, m, to)
              \/ DeclineTask(w, m)
              \/ RiderSubmitsPoD(w, m)
        \/ \E m \in Riders \cup {NoRider} :
              \/ \E to \in LegStatuses : UpdateStatusAs(w, m, to)
              \/ \E op \in ReleaseOps : ReleaseTask(w, op, m)
              \/ \E op \in DeliveryOps : LoadForDelivery(w, op, m)
        \/ TakeOpenTask(w)
        \/ InsertAssignment(w)
        \/ InsertFails(w)
        \/ GiveBack(w)
        \/ WriteStatus(w)
        \/ StampAssignments(w)
        \/ WriteRelease(w)
        \/ CancelTask(w)
        \/ WriteCancel(w)
        \/ ReadAssignee(w)
        \/ CompleteDelivery(w)
        \/ RecordEarning(w)
        \/ Refuse(w)
        \/ Abandon(w)

Spec == Init /\ [][Next]_vars

-----------------------------------------------------------------------------
(* Properties *)

\* A task in progress always has a rider, or one whose row is about to be
\* written: no interleaving of claim, assign, decline, unassign, reassign,
\* status and delivery handlers leaves a job "assigned" to nobody. The one
\* exception is an assignment abandoned between its two statements.
NeverWithoutRider ==
    status \in InProgressStatuses /\ ~orphaned => Active # {} \/ Inserting # {}

\* A delivery confirmed with the customer's code is recorded against a rider
\* who held the order when the transaction ran: that rider's own assignment
\* row is the one completed, although the rider was read before it.
CodeDeliveryByHolder ==
    via = "code" => \E i \in RowId : rows[i] = [member |-> proof, status |-> "completed"]

\* However many submissions and overrides race, and whatever fails around them,
\* the delivery earns at most once, and only for the rider named on the proof.
EarnedOnce ==
    \A r \in Riders : earned[r] > 0 => earned[r] = 1 /\ r = proof

\* The contract of one delivery, seen through the assignment rows.
Contract ==
    INSTANCE DeliveryContract WITH
        holders <- {m \in Riders : \E i \in RowId : rows[i].member = m}

\* The handlers together implement the atomic contract: the status follows the
\* delivery legs, only uncollected jobs return to the pool, a closed task
\* never changes, and there is one proof exactly when it was delivered.
ImplementsContract == Contract!Spec

\* Once recorded, a proof of delivery is never replaced or removed, whatever
\* fails around it.
ProofIsFinal == [][proof # NoRider => proof' = proof /\ via' = via]_vars

\* "TerminalStatuses are statuses a task never leaves" (statuses.go:8). Giving
\* a job back after a failed assignment insert does not look at the status.
TerminalIsFinal == [][(status \in TerminalStatuses) => status' = status]_vars

\* Closing or releasing a task frees its rider ("The rider is freed",
\* lifecycle.go:302): with no handler under way, a rider holds the task only
\* while it is in progress.
HoldOnlyInProgress ==
    (\A w \in Workers : call[w] = Idle) /\ status \notin InProgressStatuses
        => Active = {}

-----------------------------------------------------------------------------
(* The inductive strengthening behind the proofs *)

\* What a handler in flight has checked before it got to its step.
CallOK(c) ==
    /\ c.op \in {"claim", "assign", "reassign", "decline"} => c.who \in Riders
    /\ c.at = "giveback" => "insert" \in Faults
    /\ c.op = "status" => c.to \in LegStatuses
    /\ c.op = "status" /\ c.at = "write" => StatusChangeAllowed(c.seen, c.to, FALSE)
    /\ c.op \in ReleaseOps /\ c.at = "write" => c.seen \in PrePickupStatuses
    /\ c.op = "cancel" => c.seen \notin TerminalStatuses
    /\ c.op = "code" /\ c.at \in {"assignee", "write"} => c.seen \in PodAllowedFrom
    /\ c.op = "override" /\ c.at \in {"assignee", "write"} => c.seen \in InProgressStatuses
    /\ c.op \in DeliveryOps /\ c.at \in {"write", "earn"} => c.who \in Riders

RowOK(r) == r = NoRow \/ (r.member \in Riders /\ r.status # "none")

StateOK ==
    /\ TypeOK
    /\ \A i \in RowId : RowOK(rows[i])
    /\ \A w \in Workers : CallOK(call[w])

\* A delivery about to be written names a rider an assignment was written for.
DeliveryOfHolder ==
    \A w \in Workers :
        At(w, DeliveryOps, "write") => \E i \in RowId : rows[i].member = call[w].who

\* A task is delivered exactly when it has a proof of delivery.
ProofIffDelivered == proof # NoRider <=> status = "delivered"

\* Assignments end as "failed" only once the task is closed.
FailedStampAfterClose ==
    \A w \in Workers :
        At(w, {"status"}, "stamp") /\ call[w].to # "accepted" => status \in TerminalStatuses

\* A delivery by code saw a collected order: since then the task can only have
\* advanced or closed, and until it closed the rider read still holds it.
CodeDeliveryInFlight ==
    \A w \in Workers :
        At(w, {"code"}, "assignee") \/ At(w, {"code"}, "write") =>
            /\ status \in PostPickupStatuses \cup TerminalStatuses
            /\ At(w, {"code"}, "write") /\ status \in PostPickupStatuses =>
                  \E i \in Active : rows[i].member = call[w].who

\* The background earning is recorded once, by the handler that wrote the proof.
EarningInFlight ==
    /\ \A w \in Workers :
          call[w].at = "earn" =>
              call[w].who = proof /\ \A r \in Riders : earned[r] = 0
    /\ \A v, w \in Workers : call[v].at = "earn" /\ call[w].at = "earn" => v = w
    /\ proof = NoRider =>
          /\ \A w \in Workers : call[w].at # "earn"
          /\ \A r \in Riders : earned[r] = 0
=============================================================================
