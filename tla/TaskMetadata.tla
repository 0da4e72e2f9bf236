---------------------------- MODULE TaskMetadata ----------------------------
(***************************************************************************)
(* The metadata of one delivery task: what its closing stamps on it, the    *)
(* wrong codes entered, and the outcome of the per diem that HR payroll was *)
(* asked for (internal/modules/tasks/service.go, delivery.go, lifecycle.go, *)
(* internal/modules/perdiem/service.go). Every writer sets all of it, from  *)
(* the row it had read.                                                     *)
(*                                                                         *)
(* The task has a customer code and a rider on payroll. Who holds it, and a *)
(* failed assignment that gives a closed task back, are TaskLifecycle's.    *)
(***************************************************************************)
EXTENDS Naturals, TaskStatus

CONSTANTS
    Handlers,           \* requests that can be in flight together
    MaxCodeAttempts     \* wrong codes that lock the code

VARIABLES
    status,     \* the task
    meta,       \* its metadata
    held,       \* it has an assignment row, open or ended
    claim,      \* HR has the claim for the trip (external)
    edit,       \* what each handler has read and will write
    overwritten \* ghost: a per diem outcome was saved over newer stamps

vars == <<status, meta, held, claim, edit, overwritten>>

-----------------------------------------------------------------------------
(* State *)

\* A stamp is named for the status that sets it.
Stamp == {"picked_up", "delivered", "override", "failed", "cancelled"}

Outcome == {"none", "raised", "skipped", "failed"}

Meta == [stamps : SUBSET Stamp, attempts : 0 .. MaxCodeAttempts, perDiem : Outcome]

\* The status and metadata to write, and the status the task was read in. keeps: the
\* metadata stays as it is.
Edit == [at : {"idle", "write", "claim", "record"}, seen : TaskStatuses, to : TaskStatuses,
         meta : Meta, keeps : BOOLEAN]

NoMeta == [stamps |-> {}, attempts |-> 0, perDiem |-> "none"]

Idle == [at |-> "idle", seen |-> "pending", to |-> "pending", meta |-> NoMeta, keeps |-> FALSE]

TypeOK ==
    /\ status \in TaskStatuses
    /\ meta \in Meta
    /\ held \in BOOLEAN
    /\ claim \in BOOLEAN
    /\ edit \in [Handlers -> Edit]
    /\ overwritten \in BOOLEAN

Init ==
    /\ status = "pending"
    /\ meta = NoMeta
    /\ held = FALSE
    /\ claim = FALSE
    /\ edit = [h \in Handlers |-> Idle]
    /\ overwritten = FALSE

-----------------------------------------------------------------------------
(* Changes of the status *)

\* A claim or an assignment, and a job handed back before pickup. Both are
\* conditional and leave the metadata alone.
Assign ==
    /\ status = "pending"
    /\ status' = "assigned"
    /\ held' = TRUE
    /\ UNCHANGED <<meta, claim, edit, overwritten>>

Release ==
    /\ status \in PrePickupStatuses
    /\ status' = "pending"
    /\ UNCHANGED <<meta, held, claim, edit, overwritten>>

\* The handler has read the row and will write to and m, or only to.
Plan(h, to, m, keeps) ==
    /\ edit[h] = Idle
    /\ edit' = [edit EXCEPT ![h] =
          [at |-> "write", seen |-> status, to |-> to, meta |-> m, keeps |-> keeps]]
    /\ UNCHANGED <<status, meta, held, claim, overwritten>>

\* reasonMetadata
ReasonStamps(to) == {to} \cap {"failed", "cancelled", "picked_up"}

WithStamps(stamps) == [meta EXCEPT !.stamps = @ \cup stamps]

\* UpdateStatusAs and CancelTask
ChangeStatus(h, to) ==
    /\ \/ StatusChangeAllowed(status, to, FALSE)
       \/ to = "cancelled" /\ status \notin TerminalStatuses
    /\ Plan(h, to, WithStamps(ReasonStamps(to)), ReasonStamps(to) = {})

CodeOpen == status \in PostPickupStatuses /\ meta.attempts < MaxCodeAttempts

\* SubmitPoD with the code, OverrideDelivery without it.
Deliver(h, override) ==
    /\ IF override THEN status \in InProgressStatuses ELSE CodeOpen
    /\ LET stamps == {"delivered"} \cup IF override THEN {"override"} ELSE {}
       IN  Plan(h, "delivered", WithStamps(stamps), FALSE)

\* SubmitPoD with a wrong code.
WrongCode(h) ==
    /\ CodeOpen
    /\ Plan(h, status, [meta EXCEPT !.attempts = @ + 1], FALSE)

\* Fault: the update names the task only.
StatusNotCompared(h) == TRUE

\* WHERE status = <the status read>
StatusEQ(h) == status = edit[h].seen

Write(h) ==
    /\ edit[h].at = "write"
    /\ StatusEQ(h)
    /\ status' = edit[h].to
    /\ meta' = IF edit[h].keeps THEN meta ELSE edit[h].meta
    /\ edit' = [edit EXCEPT ![h] = Idle]
    /\ UNCHANGED <<held, claim, overwritten>>

-----------------------------------------------------------------------------
(* The per diem *)

\* RaiseForTask for a rider of the task, after a delivery or because a dispatcher or
\* the rider asks: it does not look at the status.
RaiseForTask(h) ==
    /\ edit[h] = Idle
    /\ held
    /\ edit' = [edit EXCEPT ![h] = [Idle EXCEPT !.at = "claim", !.meta = meta]]
    /\ UNCHANGED <<status, meta, held, claim, overwritten>>

\* HR returns the claim there is, makes one, or declines; the answer may get lost.
RaiseClaim(h, outcome) ==
    /\ edit[h].at = "claim"
    /\ claim' \in CASE outcome = "raised"  -> {TRUE}
                    [] outcome = "skipped" -> {claim} \cap {FALSE}
                    [] outcome = "failed"  -> {claim, TRUE}
    /\ edit' = [edit EXCEPT ![h].at = "record", ![h].meta.perDiem = outcome]
    /\ UNCHANGED <<status, meta, held, overwritten>>

\* record, by primary key.
Record(h) ==
    /\ edit[h].at = "record"
    /\ meta' = edit[h].meta
    /\ overwritten' = (overwritten \/ ~(meta.stamps \subseteq edit[h].meta.stamps))
    /\ edit' = [edit EXCEPT ![h] = Idle]
    /\ UNCHANGED <<status, held, claim>>

-----------------------------------------------------------------------------
(* Specification *)

\* The row changed meanwhile, an error, or the process stops.
Abandon(h) ==
    /\ edit[h] # Idle
    /\ edit' = [edit EXCEPT ![h] = Idle]
    /\ UNCHANGED <<status, meta, held, claim, overwritten>>

Next ==
    \/ Assign
    \/ Release
    \/ \E h \in Handlers :
          \/ \E to \in TaskStatuses : ChangeStatus(h, to)
          \/ \E override \in BOOLEAN : Deliver(h, override)
          \/ WrongCode(h)
          \/ Write(h)
          \/ RaiseForTask(h)
          \/ \E outcome \in {"raised", "skipped", "failed"} : RaiseClaim(h, outcome)
          \/ Record(h)
          \/ Abandon(h)

Spec == Init /\ [][Next]_vars

-----------------------------------------------------------------------------
(* Properties *)

\* Though every writer sets all of the metadata from a row read before, a closed task
\* says how it was closed, and one that was collected when: no count of wrong codes
\* and no second handler takes a stamp away (completeDelivery, wrongCode: "WHERE
\* status = what was read"). Only an outcome of a per diem that was asked for before
\* the stamp does.
StampsFitStatus ==
    ~overwritten =>
        /\ status \in TerminalStatuses => status \in meta.stamps
        /\ status \in PostPickupStatuses => "picked_up" \in meta.stamps

=============================================================================
