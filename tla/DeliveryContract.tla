-------------------------- MODULE DeliveryContract --------------------------
(***************************************************************************)
(* What the task service promises about one delivery, with every operation *)
(* atomic: the status follows the delivery legs, only a job still at the   *)
(* outlet goes back to the pool, and the job ends once, either delivered   *)
(* with one proof naming a rider who was given the job, or without proof.  *)
(***************************************************************************)
EXTENDS TaskStatus

CONSTANTS
    Riders,     \* fleet members of the tenant
    NoRider     \* no fleet member (uuid.Nil)

VARIABLES
    status,     \* tasks.status
    holders,    \* riders an assignment row was ever written for
    proof       \* the rider on the proof of delivery, or NoRider

contractVars == <<status, holders, proof>>

Init ==
    /\ status = "pending"
    /\ holders = {}
    /\ proof = NoRider

\* An open job is taken: claim, dispatcher, auto-dispatch or batch.
HandOut ==
    /\ status = "pending"
    /\ status' = "assigned"
    /\ UNCHANGED <<holders, proof>>

\* The assignment row of a rider is written.
RecordHolder(r) ==
    /\ holders' = holders \cup {r}
    /\ UNCHANGED <<status, proof>>

\* Decline, unassign or reassign: only while the order is at the outlet.
Return ==
    /\ status \in PrePickupStatuses
    /\ status' = "pending"
    /\ UNCHANGED <<holders, proof>>

\* A leg is reported, or the delivery is reported failed.
Advance(to) ==
    /\ StatusChangeAllowed(status, to, FALSE)
    /\ status' = to
    /\ UNCHANGED <<holders, proof>>

Cancel ==
    /\ status \notin TerminalStatuses
    /\ status' = "cancelled"
    /\ UNCHANGED <<holders, proof>>

\* Code, recipient or admin override: the proof names a rider given the job.
Deliver(r) ==
    /\ status \in InProgressStatuses
    /\ r \in holders
    /\ proof = NoRider
    /\ status' = "delivered"
    /\ proof' = r
    /\ UNCHANGED holders

Next ==
    \/ HandOut
    \/ Return
    \/ Cancel
    \/ \E to \in TaskStatuses \ {"cancelled"} : Advance(to)
    \/ \E r \in Riders : RecordHolder(r) \/ Deliver(r)

Spec == Init /\ [][Next]_contractVars
=============================================================================
