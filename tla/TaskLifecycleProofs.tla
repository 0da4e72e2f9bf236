------------------------ MODULE TaskLifecycleProofs ------------------------
(***************************************************************************)
(* Proofs about TaskLifecycle for every number of riders, handlers and     *)
(* assignment rows: types first, then what is earned and proved once, the  *)
(* rider of a task in progress, and the contract of one delivery.          *)
(***************************************************************************)
EXTENDS TaskLifecycle, TLAPS

-----------------------------------------------------------------------------
(* The status vocabulary *)

\* Every status the handlers write belongs to the vocabulary.
LEMMA Vocabulary ==
    /\ "none" \notin TaskStatuses
    /\ {"pending", "assigned", "cancelled", "delivered"} \subseteq TaskStatuses
    /\ LegStatuses \subseteq TaskStatuses
    /\ PrePickupStatuses \subseteq InProgressStatuses
    /\ PostPickupStatuses \subseteq InProgressStatuses
    /\ PodAllowedFrom = PostPickupStatuses
    /\ InProgressStatuses \subseteq TaskStatuses
    /\ TerminalStatuses \subseteq TaskStatuses
    /\ InProgressStatuses \cap TerminalStatuses = {}
    /\ PrePickupStatuses \cap PostPickupStatuses = {}
    /\ "pending" \notin InProgressStatuses \cup TerminalStatuses
    /\ "assigned" \in PrePickupStatuses
    /\ {"cancelled", "delivered", "failed"} \subseteq TerminalStatuses
  BY DEF TaskStatuses, LegStatuses, PrePickupStatuses, PostPickupStatuses, PodAllowedFrom,
         InProgressStatuses, TerminalStatuses

\* A status change through UpdateStatusAs starts from a job in progress, ends
\* in progress or failed, and never takes a collected order back to the outlet.
LEMMA LegChange ==
    ASSUME NEW from, NEW to \in LegStatuses, NEW byRider \in BOOLEAN,
           StatusChangeAllowed(from, to, byRider)
    PROVE  /\ StatusChangeAllowed(from, to, FALSE)
           /\ from \in InProgressStatuses
           /\ to = "failed" \/ to \in InProgressStatuses
           /\ from \in PostPickupStatuses => to = "failed" \/ to \in PostPickupStatuses
           /\ to # "delivered"
  BY DEF StatusChangeAllowed, ValidTransition, validTransitions, LegStatuses,
         InProgressStatuses, PostPickupStatuses, TerminalStatuses

-----------------------------------------------------------------------------
(* Types *)

LEMMA StateOKInit == Init => StateOK
  <1> SUFFICES ASSUME Init PROVE StateOK
    OBVIOUS
  <1> USE LifecycleAssumption, Vocabulary DEF Init, Idle
  <1>1. TypeOK
    <2>1. Idle \in Call
      BY DEF Call, Ops, Steps
    <2>2. NoRow \in Row
      BY DEF Row, NoRow
    <2>3. orphaned \in BOOLEAN
      OBVIOUS
    <2> QED
      BY <2>1, <2>2, <2>3 DEF TypeOK
  <1>2. \A i \in RowId : RowOK(rows[i])
    BY DEF RowOK
  <1>3. \A w \in Workers : CallOK(call[w])
    BY DEF CallOK, ReleaseOps, DeliveryOps
  <1> QED
    BY <1>1, <1>2, <1>3 DEF StateOK

\* A handler that moves to a well-formed step keeps every handler well formed.
LEMMA GotoOK ==
    ASSUME StateOK, NEW w \in Workers, NEW c \in Call, CallOK(c), Goto(w, c)
    PROVE  call' \in [Workers -> Call] /\ \A v \in Workers : CallOK(call'[v])
  BY DEF StateOK, TypeOK, Goto

LEMMA IdleOK == Idle \in Call /\ CallOK(Idle)
  BY LifecycleAssumption DEF Idle, Call, Ops, Steps, CallOK, ReleaseOps, DeliveryOps

\* closeActiveAssignments and the completion keep the rows well formed.
LEMMA CloseActiveOK ==
    ASSUME StateOK, NEW st \in AssignmentStatuses, rows' = CloseActive(st)
    PROVE  rows' \in [RowId -> Row] /\ \A i \in RowId : RowOK(rows'[i])
  <1>1. \A i \in RowId : i \in Active => rows[i] # NoRow
    BY DEF Active, NoRow, ActiveAssignmentStatuses
  <1>2. "none" \notin AssignmentStatuses
    BY DEF AssignmentStatuses, ActiveAssignmentStatuses
  <1>3. ASSUME NEW i \in RowId PROVE rows'[i] \in Row /\ RowOK(rows'[i])
    <2>1. rows[i] \in Row /\ RowOK(rows[i])
      BY DEF StateOK, TypeOK
    <2>2. CASE i \in Active
      <3>1. rows'[i] = [rows[i] EXCEPT !.status = st]
        BY <2>2 DEF CloseActive
      <3>2. rows[i].member \in Riders
        BY <1>1, <2>1, <2>2 DEF RowOK
      <3> QED
        BY <1>2, <2>1, <3>1, <3>2 DEF Row, RowOK
    <2>3. CASE i \notin Active
      BY <2>1, <2>3 DEF CloseActive
    <2> QED
      BY <2>2, <2>3
  <1> QED
    BY <1>3 DEF CloseActive

\* An active row names a rider.
LEMMA ActiveMember ==
    ASSUME StateOK, NEW i \in Active
    PROVE  i \in RowId /\ rows[i].member \in Riders
  BY DEF StateOK, RowOK, Active, NoRow, ActiveAssignmentStatuses

\* Every step keeps the state well formed, one step of the proof per action.
LEMMA StateOKStep == StateOK /\ [Next]_vars => StateOK'
  <1> SUFFICES ASSUME StateOK, [Next]_vars PROVE StateOK'
    OBVIOUS
  <1> USE LifecycleAssumption, Vocabulary, IdleOK
  <1> DEFINE Facts == /\ status' \in TaskStatuses
                      /\ rows' \in [RowId -> Row] /\ (\A i \in RowId : RowOK(rows'[i]))
                      /\ proof' \in Riders \cup {NoRider}
                      /\ via' \in {"none", "code", "override"}
                      /\ earned' \in [Riders -> Nat]
                      /\ orphaned' \in BOOLEAN
                      /\ call' \in [Workers -> Call] /\ (\A v \in Workers : CallOK(call'[v]))
  <1>0. Facts => StateOK'
    BY DEF StateOK, TypeOK
  <1>T. /\ status \in TaskStatuses
        /\ rows \in [RowId -> Row] /\ (\A i \in RowId : RowOK(rows[i]))
        /\ proof \in Riders \cup {NoRider}
        /\ via \in {"none", "code", "override"}
        /\ earned \in [Riders -> Nat]
        /\ orphaned \in BOOLEAN
        /\ call \in [Workers -> Call] /\ (\A v \in Workers : CallOK(call[v]))
    BY DEF StateOK, TypeOK
  <1>1. CASE UNCHANGED vars
    BY <1>0, <1>1, <1>T DEF vars
  <1>2. ASSUME NEW w \in Workers, NEW m \in Riders, ClaimTask(w, m) PROVE StateOK'
    <2> DEFINE c == [Idle EXCEPT !.op = "claim", !.at = "insert", !.who = m]
    <2>1. c \in Call /\ CallOK(c)
      BY DEF Idle, Call, Ops, Steps, CallOK, ReleaseOps, DeliveryOps
    <2>2. call' \in [Workers -> Call] /\ \A v \in Workers : CallOK(call'[v])
      BY <2>1, <1>2, GotoOK DEF ClaimTask
    <2> QED
      BY <1>0, <1>T, <1>2, <2>2 DEF ClaimTask
  <1>3. ASSUME NEW w \in Workers, NEW m \in Riders, NEW b \in BOOLEAN, AssignTask(w, m, b)
        PROVE StateOK'
    <2> DEFINE c == [Idle EXCEPT !.op = "assign", !.at = "take", !.who = m]
               d == Request("reassign", m, "none")
    <2>1. c \in Call /\ CallOK(c)
      BY DEF Idle, Call, Ops, Steps, CallOK, ReleaseOps, DeliveryOps
    <2>2. d \in Call /\ CallOK(d)
      BY DEF Idle, Call, Ops, Steps, CallOK, ReleaseOps, DeliveryOps, Request
    <2>3. call' \in [Workers -> Call] /\ \A v \in Workers : CallOK(call'[v])
      <3>1. CASE Goto(w, c)
        BY <3>1, <2>1, GotoOK
      <3>2. CASE Goto(w, d)
        BY <3>2, <2>2, GotoOK
      <3> QED
        BY <1>3, <3>1, <3>2 DEF AssignTask
    <2> QED
      BY <1>0, <1>T, <1>3, <2>3 DEF AssignTask
  <1>4. ASSUME NEW w \in Workers, NEW m \in Riders, NEW to \in LegStatuses,
               RiderAsksStatus(w, m, to)
        PROVE StateOK'
    <2> DEFINE c == Request("status", m, to)
    <2>1. c \in Call /\ CallOK(c)
      BY DEF Idle, Call, Ops, Steps, CallOK, ReleaseOps, DeliveryOps, Request
    <2>2. call' \in [Workers -> Call] /\ \A v \in Workers : CallOK(call'[v])
      BY <2>1, <1>4, GotoOK DEF RiderAsksStatus
    <2> QED
      BY <1>0, <1>T, <1>4, <2>2 DEF RiderAsksStatus
  <1>5. ASSUME NEW w \in Workers, NEW m \in Riders, DeclineTask(w, m) PROVE StateOK'
    <2> DEFINE c == Request("decline", m, "none")
    <2>1. c \in Call /\ CallOK(c)
      BY DEF Idle, Call, Ops, Steps, CallOK, ReleaseOps, DeliveryOps, Request
    <2>2. call' \in [Workers -> Call] /\ \A v \in Workers : CallOK(call'[v])
      BY <2>1, <1>5, GotoOK DEF DeclineTask
    <2> QED
      BY <1>0, <1>T, <1>5, <2>2 DEF DeclineTask
  <1>6. ASSUME NEW w \in Workers, NEW m \in Riders, RiderSubmitsPoD(w, m) PROVE StateOK'
    <2> DEFINE c == Request("code", m, "none")
    <2>1. c \in Call /\ CallOK(c)
      BY DEF Idle, Call, Ops, Steps, CallOK, ReleaseOps, DeliveryOps, Request
    <2>2. call' \in [Workers -> Call] /\ \A v \in Workers : CallOK(call'[v])
      BY <2>1, <1>6, GotoOK DEF RiderSubmitsPoD
    <2> QED
      BY <1>0, <1>T, <1>6, <2>2 DEF RiderSubmitsPoD
  <1>7. ASSUME NEW w \in Workers, NEW m \in Riders \cup {NoRider}, NEW to \in LegStatuses,
               UpdateStatusAs(w, m, to)
        PROVE StateOK'
    <2> DEFINE c == [Request("status", m, to) EXCEPT !.at = "write", !.seen = status]
    <2>1. StatusChangeAllowed(status, to, FALSE)
      BY <1>7, LegChange DEF UpdateStatusAs
    <2>2. c \in Call /\ CallOK(c)
      BY <1>T, <2>1 DEF Idle, Call, Ops, Steps, CallOK, ReleaseOps, DeliveryOps, Request
    <2>3. call' \in [Workers -> Call] /\ \A v \in Workers : CallOK(call'[v])
      BY <2>2, <1>7, GotoOK DEF UpdateStatusAs
    <2> QED
      BY <1>0, <1>T, <1>7, <2>3 DEF UpdateStatusAs
  <1>8. ASSUME NEW w \in Workers, NEW m \in Riders \cup {NoRider}, NEW op \in ReleaseOps,
               ReleaseTask(w, op, m)
        PROVE StateOK'
    <2> DEFINE c == [Request(op, m, "none") EXCEPT !.at = "write", !.seen = status]
    <2>1. op # "unassign" => m \in Riders
      BY <1>8, <1>T DEF ReleaseTask, Loading, Request, Idle, ReleaseOps, DispatcherOps, CallOK
    <2>2. c \in Call /\ CallOK(c)
      BY <1>8, <1>T, <2>1 DEF ReleaseTask, Idle, Call, Ops, Steps, CallOK, ReleaseOps, DeliveryOps, Request
    <2>3. call' \in [Workers -> Call] /\ \A v \in Workers : CallOK(call'[v])
      BY <2>2, <1>8, GotoOK DEF ReleaseTask
    <2> QED
      BY <1>0, <1>T, <1>8, <2>3 DEF ReleaseTask
  <1>9. ASSUME NEW w \in Workers, NEW m \in Riders \cup {NoRider}, NEW op \in DeliveryOps,
               LoadForDelivery(w, op, m)
        PROVE StateOK'
    <2> DEFINE c == [Request(op, NoRider, "none") EXCEPT !.at = "assignee", !.seen = status]
    <2>1. c \in Call /\ CallOK(c)
      BY <1>9, <1>T DEF LoadForDelivery, Idle, Call, Ops, Steps, CallOK, ReleaseOps, DeliveryOps, Request
    <2>2. call' \in [Workers -> Call] /\ \A v \in Workers : CallOK(call'[v])
      BY <2>1, <1>9, GotoOK DEF LoadForDelivery
    <2> QED
      BY <1>0, <1>T, <1>9, <2>2 DEF LoadForDelivery
  <1>10. ASSUME NEW w \in Workers, TakeOpenTask(w) PROVE StateOK'
    <2> DEFINE c == [call[w] EXCEPT !.op = "assign", !.at = "insert"]
    <2>1. c \in Call /\ CallOK(c)
      BY <1>10, <1>T DEF TakeOpenTask, At, Call, Ops, Steps, CallOK, ReleaseOps, DeliveryOps
    <2>2. call' \in [Workers -> Call] /\ \A v \in Workers : CallOK(call'[v])
      BY <2>1, <1>10, GotoOK DEF TakeOpenTask
    <2> QED
      BY <1>0, <1>T, <1>10, <2>2 DEF TakeOpenTask
  <1>11. ASSUME NEW w \in Workers, InsertAssignment(w) PROVE StateOK'
    <2> DEFINE c == Request("status", NoRider, "accepted")
               r == [member |-> call[w].who, status |-> "assigned"]
    <2>1. c \in Call /\ CallOK(c)
      BY DEF Idle, Call, Ops, Steps, CallOK, ReleaseOps, DeliveryOps, Request, LegStatuses
    <2>2. call' \in [Workers -> Call] /\ \A v \in Workers : CallOK(call'[v])
      BY <2>1, <1>11, GotoOK DEF InsertAssignment
    <2>3. r \in Row /\ RowOK(r)
      BY <1>11, <1>T DEF InsertAssignment, At, CallOK, Row, RowOK, AssignmentStatuses,
                         ActiveAssignmentStatuses
    <2>4. rows' \in [RowId -> Row] /\ \A i \in RowId : RowOK(rows'[i])
      BY <1>11, <1>T, <2>3 DEF InsertAssignment
    <2> QED
      BY <1>0, <1>T, <1>11, <2>2, <2>4 DEF InsertAssignment
  <1>12. ASSUME NEW w \in Workers, InsertFails(w) PROVE StateOK'
    <2> DEFINE c == [call[w] EXCEPT !.at = "giveback"]
    <2>1. c \in Call /\ CallOK(c)
      BY <1>12, <1>T DEF InsertFails, At, Idle, Call, Ops, Steps, CallOK, ReleaseOps, DeliveryOps
    <2>2. call' \in [Workers -> Call] /\ \A v \in Workers : CallOK(call'[v])
      BY <2>1, <1>12, GotoOK DEF InsertFails
    <2> QED
      BY <1>0, <1>T, <1>12, <2>2 DEF InsertFails
  <1>13. ASSUME NEW w \in Workers, GiveBack(w) PROVE StateOK'
    <2>1. call' \in [Workers -> Call] /\ \A v \in Workers : CallOK(call'[v])
      BY <1>13, GotoOK DEF GiveBack
    <2> QED
      BY <1>0, <1>T, <1>13, <2>1 DEF GiveBack
  <1>14. ASSUME NEW w \in Workers, WriteStatus(w) PROVE StateOK'
    <2> DEFINE c == [call[w] EXCEPT !.at = "stamp"]
    <2>1. c \in Call /\ CallOK(c) /\ call[w].to \in TaskStatuses
      BY <1>14, <1>T DEF WriteStatus, At, Call, Ops, Steps, CallOK, ReleaseOps, DeliveryOps
    <2>2. call' \in [Workers -> Call] /\ \A v \in Workers : CallOK(call'[v])
      BY <2>1, <1>14, GotoOK DEF WriteStatus
    <2> QED
      BY <1>0, <1>T, <1>14, <2>1, <2>2 DEF WriteStatus
  <1>15. ASSUME NEW w \in Workers, StampAssignments(w) PROVE StateOK'
    <2>1. call' \in [Workers -> Call] /\ \A v \in Workers : CallOK(call'[v])
      BY <1>15, GotoOK DEF StampAssignments
    <2>2. CASE call[w].to = "accepted"
      <3>1. ASSUME NEW i \in RowId PROVE rows'[i] \in Row /\ RowOK(rows'[i])
        BY <1>15, <1>T, <2>2 DEF StampAssignments, Row, RowOK, NoRow, AssignmentStatuses,
                                 ActiveAssignmentStatuses
      <3>2. rows' \in [RowId -> Row] /\ \A i \in RowId : RowOK(rows'[i])
        BY <1>15, <2>2, <3>1 DEF StampAssignments
      <3> QED
        BY <1>0, <1>T, <1>15, <2>1, <3>2 DEF StampAssignments
    <2>3. CASE call[w].to # "accepted"
      <3>1. rows' = CloseActive("failed")
        BY <1>15, <2>3 DEF StampAssignments
      <3>2. "failed" \in AssignmentStatuses
        BY DEF AssignmentStatuses
      <3> QED
        BY <1>0, <1>T, <1>15, <2>1, <3>1, <3>2, CloseActiveOK DEF StampAssignments
    <2> QED
      BY <2>2, <2>3
  <1>16. ASSUME NEW w \in Workers, WriteRelease(w) PROVE StateOK'
    <2> DEFINE c == [call[w] EXCEPT !.at = "take", !.seen = "none"]
    <2>1. call[w].op = "reassign" => c \in Call /\ CallOK(c)
      BY <1>16, <1>T DEF WriteRelease, At, Call, Ops, Steps, CallOK, ReleaseOps, DeliveryOps
    <2>2. call' \in [Workers -> Call] /\ \A v \in Workers : CallOK(call'[v])
      BY <2>1, <1>16, GotoOK DEF WriteRelease
    <2>3. {"declined", "unassigned"} \subseteq AssignmentStatuses
      BY DEF AssignmentStatuses
    <2>4. rows' \in [RowId -> Row] /\ \A i \in RowId : RowOK(rows'[i])
      BY <1>16, <1>T, <2>3, CloseActiveOK DEF WriteRelease
    <2> QED
      BY <1>0, <1>T, <1>16, <2>2, <2>4 DEF WriteRelease
  <1>17. ASSUME NEW w \in Workers, CancelTask(w) PROVE StateOK'
    <2> DEFINE c == [Idle EXCEPT !.op = "cancel", !.at = "write", !.seen = status]
    <2>1. c \in Call /\ CallOK(c)
      BY <1>17, <1>T DEF CancelTask, Idle, Call, Ops, Steps, CallOK, ReleaseOps, DeliveryOps
    <2>2. call' \in [Workers -> Call] /\ \A v \in Workers : CallOK(call'[v])
      BY <2>1, <1>17, GotoOK DEF CancelTask
    <2> QED
      BY <1>0, <1>T, <1>17, <2>2 DEF CancelTask
  <1>18. ASSUME NEW w \in Workers, WriteCancel(w) PROVE StateOK'
    <2>1. call' \in [Workers -> Call] /\ \A v \in Workers : CallOK(call'[v])
      BY <1>18, GotoOK DEF WriteCancel
    <2>2. "cancelled" \in AssignmentStatuses
      BY DEF AssignmentStatuses
    <2>3. rows' \in [RowId -> Row] /\ \A i \in RowId : RowOK(rows'[i])
      BY <1>18, <1>T, <2>2, CloseActiveOK DEF WriteCancel
    <2> QED
      BY <1>0, <1>T, <1>18, <2>1, <2>3 DEF WriteCancel
  <1>19. ASSUME NEW w \in Workers, ReadAssignee(w) PROVE StateOK'
    <2>1. ASSUME NEW i \in Active
          PROVE  LET c == [call[w] EXCEPT !.at = "write", !.who = rows[i].member]
                 IN  c \in Call /\ CallOK(c)
      <3>1. rows[i].member \in Riders
        BY ActiveMember
      <3> QED
        BY <1>19, <1>T, <3>1 DEF ReadAssignee, At, Call, Ops, Steps, CallOK, ReleaseOps, DeliveryOps
    <2>2. call' \in [Workers -> Call] /\ \A v \in Workers : CallOK(call'[v])
      BY <2>1, <1>19, GotoOK DEF ReadAssignee
    <2> QED
      BY <1>0, <1>T, <1>19, <2>2 DEF ReadAssignee
  <1>20. ASSUME NEW w \in Workers, CompleteDelivery(w) PROVE StateOK'
    <2> DEFINE c == [call[w] EXCEPT !.at = "earn"]
    <2>1. c \in Call /\ CallOK(c) /\ call[w].who \in Riders /\ call[w].op \in {"code", "override"}
      BY <1>20, <1>T DEF CompleteDelivery, At, Call, Ops, Steps, CallOK, ReleaseOps, DeliveryOps
    <2>2. call' \in [Workers -> Call] /\ \A v \in Workers : CallOK(call'[v])
      BY <2>1, <1>20, GotoOK DEF CompleteDelivery
    <2>3. "completed" \in AssignmentStatuses
      BY DEF AssignmentStatuses
    <2>4. rows' \in [RowId -> Row] /\ \A i \in RowId : RowOK(rows'[i])
      BY <1>20, <1>T, <2>3, CloseActiveOK DEF CompleteDelivery
    <2> QED
      BY <1>0, <1>T, <1>20, <2>1, <2>2, <2>4 DEF CompleteDelivery
  <1>21. ASSUME NEW w \in Workers, RecordEarning(w) PROVE StateOK'
    <2>1. call' \in [Workers -> Call] /\ \A v \in Workers : CallOK(call'[v])
      BY <1>21, GotoOK DEF RecordEarning
    <2>2. earned' \in [Riders -> Nat]
      BY <1>21, <1>T DEF RecordEarning
    <2> QED
      BY <1>0, <1>T, <1>21, <2>1, <2>2 DEF RecordEarning
  <1>22. ASSUME NEW w \in Workers, Refuse(w) PROVE StateOK'
    <2>1. call' \in [Workers -> Call] /\ \A v \in Workers : CallOK(call'[v])
      BY <1>22, GotoOK DEF Refuse
    <2> QED
      BY <1>0, <1>T, <1>22, <2>1 DEF Refuse
  <1>23. ASSUME NEW w \in Workers, Abandon(w) PROVE StateOK'
    <2>1. call' \in [Workers -> Call] /\ \A v \in Workers : CallOK(call'[v])
      BY <1>23, GotoOK DEF Abandon
    <2>2. orphaned' \in BOOLEAN
      BY <1>23 DEF Abandon
    <2> QED
      BY <1>0, <1>T, <1>23, <2>1, <2>2 DEF Abandon
  <1> QED
    BY <1>1, <1>2, <1>3, <1>4, <1>5, <1>6, <1>7, <1>8, <1>9, <1>10, <1>11, <1>12, <1>13,
       <1>14, <1>15, <1>16, <1>17, <1>18, <1>19, <1>20, <1>21, <1>22, <1>23
    DEF Next

\* Every step of every handler keeps the task, its assignment rows, its proof
\* and the handlers in flight well formed.
THEOREM TypeCorrect == Spec => []TypeOK
  <1>1. Spec => []StateOK
    BY StateOKInit, StateOKStep, PTL DEF Spec
  <1>2. StateOK => TypeOK
    BY DEF StateOK
  <1> QED
    BY <1>1, <1>2, PTL

-----------------------------------------------------------------------------
(* What a step can be *)

\* A step that only moves a handler: a check, a read, a refusal, a lost
\* condition or an abandoned call.
QuietStep(w) ==
    /\ UNCHANGED <<status, rows, proof, via, earned>>
    /\ orphaned' = TRUE \/ (orphaned' = orphaned /\ call[w].at # "insert")
    /\ \E c \in Call :
          /\ Goto(w, c)
          /\ c.at \in {"idle", "take", "read", "assignee", "write"}
          /\ c.op = "code" /\ c.at = "assignee" => status \in PostPickupStatuses
          /\ c.op \in DeliveryOps /\ c.at = "write" =>
                /\ call[w].op = c.op
                /\ call[w].at = "assignee"
                /\ \E i \in Active : rows[i].member = c.who

\* An open task is taken, by claim or by assignment.
HandOutStep(w) ==
    /\ Open
    /\ status' = "assigned"
    /\ UNCHANGED <<rows, proof, via, earned, orphaned>>
    /\ \E c \in Call : Goto(w, c) /\ c.at = "insert"

\* The steps that change the task, its rows, its proof or the earnings.
LoudStep(w) ==
    \/ HandOutStep(w)
    \/ InsertAssignment(w)
    \/ InsertFails(w)
    \/ GiveBack(w)
    \/ WriteStatus(w) /\ StatusEQ(w)
    \/ StampAssignments(w)
    \/ WriteRelease(w) /\ StatusEQ(w)
    \/ WriteCancel(w) /\ StatusEQ(w)
    \/ CompleteDelivery(w) /\ NoProofYet /\ StatusEQ(w)
    \/ RecordEarning(w)

\* A handler about to load its task is not about to write an assignment row.
LEMMA LoadingNotInserting ==
    ASSUME NEW w, NEW op, NEW m, NEW to, Loading(w, Request(op, m, to))
    PROVE  call[w].at # "insert"
  <1>1. Request(op, m, to).at = "read" /\ Idle.at = "idle"
    BY DEF Request, Idle
  <1>2. call[w] = Request(op, m, to) \/ call[w] = Idle
    BY DEF Loading
  <1> QED
    BY <1>1, <1>2

\* Every step is quiet or one of the ten loud ones.
LEMMA StepKinds ==
    ASSUME StateOK, Next
    PROVE  \E w \in Workers : QuietStep(w) \/ LoudStep(w)
  <1> USE LifecycleAssumption, Vocabulary, IdleOK
  <1>T. status \in TaskStatuses /\ (\A v \in Workers : call[v] \in Call /\ CallOK(call[v]))
    BY DEF StateOK, TypeOK
  <1>1. ASSUME NEW w \in Workers, NEW m \in Riders, ClaimTask(w, m)
        PROVE HandOutStep(w)
    <2> DEFINE c == [Idle EXCEPT !.op = "claim", !.at = "insert", !.who = m]
    <2>1. c \in Call /\ c.at = "insert"
      BY DEF Idle, Call, Ops, Steps
    <2> QED
      BY <1>1, <2>1 DEF ClaimTask, HandOutStep
  <1>2. ASSUME NEW w \in Workers, NEW m \in Riders, NEW b \in BOOLEAN, AssignTask(w, m, b)
        PROVE QuietStep(w)
    <2> DEFINE c == [Idle EXCEPT !.op = "assign", !.at = "take", !.who = m]
               d == Request("reassign", m, "none")
    <2>1. c \in Call /\ c.at = "take" /\ d \in Call /\ d.at = "read"
      BY DEF Idle, Call, Ops, Steps, Request
    <2>2. Goto(w, c) \/ Goto(w, d)
      BY <1>2 DEF AssignTask
    <2>3. call[w].at # "insert"
      BY <1>2 DEF AssignTask, Idle
    <2> QED
      BY <1>2, <2>1, <2>2, <2>3 DEF AssignTask, QuietStep
  <1>3. ASSUME NEW w \in Workers, NEW m \in Riders, NEW to \in LegStatuses,
               RiderAsksStatus(w, m, to)
        PROVE QuietStep(w)
    <2> DEFINE c == Request("status", m, to)
    <2>1. c \in Call /\ c.at = "read"
      BY DEF Idle, Call, Ops, Steps, Request
    <2> QED
      BY <1>3, <2>1 DEF RiderAsksStatus, QuietStep, Idle
  <1>4. ASSUME NEW w \in Workers, NEW m \in Riders, DeclineTask(w, m)
        PROVE QuietStep(w)
    <2> DEFINE c == Request("decline", m, "none")
    <2>1. c \in Call /\ c.at = "read"
      BY DEF Idle, Call, Ops, Steps, Request
    <2> QED
      BY <1>4, <2>1 DEF DeclineTask, QuietStep, Idle
  <1>5. ASSUME NEW w \in Workers, NEW m \in Riders, RiderSubmitsPoD(w, m)
        PROVE QuietStep(w)
    <2> DEFINE c == Request("code", m, "none")
    <2>1. c \in Call /\ c.at = "read"
      BY DEF Idle, Call, Ops, Steps, Request
    <2> QED
      BY <1>5, <2>1 DEF RiderSubmitsPoD, QuietStep, Idle
  <1>6. ASSUME NEW w \in Workers, NEW m \in Riders \cup {NoRider}, NEW to \in LegStatuses,
               UpdateStatusAs(w, m, to)
        PROVE QuietStep(w)
    <2> DEFINE c == [Request("status", m, to) EXCEPT !.at = "write", !.seen = status]
    <2>1. c \in Call /\ c.at = "write" /\ c.op = "status"
      BY <1>T DEF Idle, Call, Ops, Steps, Request
    <2>2. call[w].at # "insert"
      BY <1>6, LoadingNotInserting DEF UpdateStatusAs
    <2>3. Goto(w, c) /\ UNCHANGED <<status, rows, proof, via, earned, orphaned>>
      BY <1>6 DEF UpdateStatusAs
    <2> HIDE DEF c
    <2> QED
      BY <2>1, <2>2, <2>3 DEF QuietStep, DeliveryOps
  <1>7. ASSUME NEW w \in Workers, NEW m \in Riders \cup {NoRider}, NEW op \in ReleaseOps,
               ReleaseTask(w, op, m)
        PROVE QuietStep(w)
    <2> DEFINE c == [Request(op, m, "none") EXCEPT !.at = "write", !.seen = status]
    <2>1. c \in Call /\ c.at = "write" /\ c.op \notin DeliveryOps
      BY <1>T DEF Idle, Call, Ops, Steps, Request, ReleaseOps, DeliveryOps
    <2>2. call[w].at # "insert"
      BY <1>7, LoadingNotInserting DEF ReleaseTask
    <2>3. Goto(w, c) /\ UNCHANGED <<status, rows, proof, via, earned, orphaned>>
      BY <1>7 DEF ReleaseTask
    <2> HIDE DEF c
    <2> QED
      BY <2>1, <2>2, <2>3 DEF QuietStep, DeliveryOps
  <1>8. ASSUME NEW w \in Workers, NEW m \in Riders \cup {NoRider}, NEW op \in DeliveryOps,
               LoadForDelivery(w, op, m)
        PROVE QuietStep(w)
    <2> DEFINE c == [Request(op, NoRider, "none") EXCEPT !.at = "assignee", !.seen = status]
    <2>1. c \in Call /\ c.at = "assignee" /\ c.op = op
      BY <1>T DEF Idle, Call, Ops, Steps, Request, DeliveryOps
    <2>2. call[w].at # "insert"
      BY <1>8, LoadingNotInserting DEF LoadForDelivery
    <2>3. Goto(w, c) /\ UNCHANGED <<status, rows, proof, via, earned, orphaned>>
      BY <1>8 DEF LoadForDelivery
    <2>4. c.op = "code" => status \in PostPickupStatuses
      BY <1>8, <2>1 DEF LoadForDelivery
    <2> HIDE DEF c
    <2> QED
      BY <2>1, <2>2, <2>3, <2>4 DEF QuietStep
  <1>9. ASSUME NEW w \in Workers, TakeOpenTask(w)
        PROVE QuietStep(w) \/ HandOutStep(w)
    <2> DEFINE c == [call[w] EXCEPT !.op = "assign", !.at = "insert"]
    <2>1. c \in Call /\ c.at = "insert"
      BY <1>T DEF Call, Ops, Steps
    <2> QED
      BY <1>9, <2>1 DEF TakeOpenTask, QuietStep, HandOutStep, Idle, At
  <1>10. ASSUME NEW w \in Workers, WriteStatus(w)
         PROVE QuietStep(w) \/ StatusEQ(w)
    BY <1>10 DEF WriteStatus, QuietStep, Idle, At
  <1>11. ASSUME NEW w \in Workers, WriteRelease(w)
         PROVE QuietStep(w) \/ StatusEQ(w)
    BY <1>11 DEF WriteRelease, QuietStep, Idle, At
  <1>12. ASSUME NEW w \in Workers, CancelTask(w)
         PROVE QuietStep(w)
    <2> DEFINE c == [Idle EXCEPT !.op = "cancel", !.at = "write", !.seen = status]
    <2>1. c \in Call /\ c.at = "write" /\ c.op = "cancel"
      BY <1>T DEF Idle, Call, Ops, Steps
    <2>2. call[w].at # "insert"
      BY <1>12 DEF CancelTask, Idle
    <2>3. Goto(w, c) /\ UNCHANGED <<status, rows, proof, via, earned, orphaned>>
      BY <1>12 DEF CancelTask
    <2> HIDE DEF c
    <2> QED
      BY <2>1, <2>2, <2>3 DEF QuietStep, DeliveryOps
  <1>13. ASSUME NEW w \in Workers, WriteCancel(w)
         PROVE QuietStep(w) \/ StatusEQ(w)
    BY <1>13 DEF WriteCancel, QuietStep, Idle, At
  <1>14. ASSUME NEW w \in Workers, ReadAssignee(w)
         PROVE QuietStep(w)
    <2>1. CASE Goto(w, Idle)
      BY <1>14, <2>1 DEF ReadAssignee, QuietStep, Idle, At
    <2>2. ASSUME NEW i \in Active,
                 Goto(w, [call[w] EXCEPT !.at = "write", !.who = rows[i].member])
          PROVE QuietStep(w)
      <3> DEFINE c == [call[w] EXCEPT !.at = "write", !.who = rows[i].member]
      <3>1. rows[i].member \in Riders
        BY ActiveMember
      <3>2. c \in Call /\ c.at = "write" /\ c.op = call[w].op /\ c.who = rows[i].member
        BY <1>T, <3>1 DEF Call, Steps
      <3> QED
        BY <1>14, <2>2, <3>2 DEF ReadAssignee, QuietStep, At
    <2> QED
      BY <1>14, <2>1, <2>2 DEF ReadAssignee
  <1>15. ASSUME NEW w \in Workers, CompleteDelivery(w)
         PROVE QuietStep(w) \/ (NoProofYet /\ StatusEQ(w))
    BY <1>15 DEF CompleteDelivery, QuietStep, Idle, At
  <1>16. ASSUME NEW w \in Workers, Refuse(w)
         PROVE QuietStep(w)
    BY <1>16 DEF Refuse, QuietStep, Idle
  <1>17. ASSUME NEW w \in Workers, Abandon(w)
         PROVE QuietStep(w)
    BY <1>17 DEF Abandon, QuietStep, Idle, StateOK, TypeOK
  <1> QED
    BY <1>1, <1>2, <1>3, <1>4, <1>5, <1>6, <1>7, <1>8, <1>9, <1>10, <1>11, <1>12, <1>13,
       <1>14, <1>15, <1>16, <1>17
    DEF Next, LoudStep

-----------------------------------------------------------------------------
(* What the steps that change something do to the handlers and the rows *)

\* A loud step moves one handler, and never to a step before a write.
LEMMA LoudCalls ==
    ASSUME StateOK, NEW w \in Workers, LoudStep(w)
    PROVE  /\ \A v \in Workers : v # w => call'[v] = call[v]
           /\ call'[w].at \notin {"assignee", "write"}
           /\ call'[w].at = "earn" => CompleteDelivery(w) /\ NoProofYet /\ StatusEQ(w)
           /\ call'[w].at = "stamp" =>
                 WriteStatus(w) /\ StatusEQ(w) /\ status' = call'[w].to
           /\ call[w].at = "insert" => call'[w].at = "giveback" \/ InsertAssignment(w)
                                          \/ HandOutStep(w)
  <1> USE DEF Goto
  <1>T. call \in [Workers -> Call]
    BY DEF StateOK, TypeOK
  <1>1. CASE HandOutStep(w)
    BY <1>T, <1>1 DEF HandOutStep
  <1>2. CASE InsertAssignment(w)
    BY <1>T, <1>2 DEF InsertAssignment, Request, Idle
  <1>3. CASE InsertFails(w)
    BY <1>T, <1>3 DEF InsertFails, Call
  <1>4. CASE GiveBack(w)
    BY <1>T, <1>4 DEF GiveBack, Idle, At
  <1>5. CASE WriteStatus(w) /\ StatusEQ(w)
    BY <1>T, <1>5 DEF WriteStatus, Idle, At, Call
  <1>6. CASE StampAssignments(w)
    BY <1>T, <1>6 DEF StampAssignments, Idle, At
  <1>7. CASE WriteRelease(w) /\ StatusEQ(w)
    <2> DEFINE c == [call[w] EXCEPT !.at = "take", !.seen = "none"]
    <2>1. c.at = "take" /\ Idle.at = "idle"
      BY <1>T DEF Call, Idle
    <2>2. Goto(w, c) \/ Goto(w, Idle)
      BY <1>7 DEF WriteRelease
    <2>3. call[w].at = "write"
      BY <1>7 DEF WriteRelease, At
    <2> HIDE DEF c
    <2> QED
      BY <1>T, <2>1, <2>2, <2>3
  <1>8. CASE WriteCancel(w) /\ StatusEQ(w)
    BY <1>T, <1>8 DEF WriteCancel, Idle, At
  <1>9. CASE CompleteDelivery(w) /\ NoProofYet /\ StatusEQ(w)
    <2>1. Goto(w, [call[w] EXCEPT !.at = "earn"])
      BY <1>9 DEF CompleteDelivery
    <2>2. call[w].at = "write"
      BY <1>9 DEF CompleteDelivery, At
    <2> QED
      BY <1>T, <1>9, <2>1, <2>2 DEF Call
  <1>10. CASE RecordEarning(w)
    BY <1>T, <1>10 DEF RecordEarning, Idle, At
  <1> QED
    BY <1>1, <1>2, <1>3, <1>4, <1>5, <1>6, <1>7, <1>8, <1>9, <1>10 DEF LoudStep

\* Only the delivery transaction writes the proof.
LEMMA LoudProof ==
    ASSUME NEW w \in Workers, LoudStep(w),
           ~(CompleteDelivery(w) /\ NoProofYet /\ StatusEQ(w))
    PROVE  proof' = proof /\ via' = via
  BY DEF LoudStep, HandOutStep, InsertAssignment, InsertFails, GiveBack, WriteStatus,
         StampAssignments, WriteRelease, WriteCancel, RecordEarning

\* Ending assignments keeps who each row is for, and touches no ended row.
LEMMA CloseActiveKeeps ==
    ASSUME StateOK, NEW st, rows' = CloseActive(st), NEW i \in RowId
    PROVE  /\ rows'[i].member = rows[i].member
           /\ i \notin Active => rows'[i] = rows[i]
           /\ i \in Active => rows'[i] = [member |-> rows[i].member, status |-> st]
  <1>1. rows[i] \in Row
    BY DEF StateOK, TypeOK
  <1> QED
    BY <1>1 DEF CloseActive, Row

\* A row, once written, stays with its rider, and an ended row stays as it is.
LEMMA RowsKept ==
    ASSUME StateOK, NEW w \in Workers, QuietStep(w) \/ LoudStep(w), NEW i \in RowId
    PROVE  /\ rows[i].member \in Riders => rows'[i].member = rows[i].member
           /\ rows[i].status = "completed" => rows'[i] = rows[i]
  <1> USE LifecycleAssumption
  <1>T. rows \in [RowId -> Row]
    BY DEF StateOK, TypeOK
  <1>1. CASE UNCHANGED rows
    BY <1>1
  <1>2. CASE \E st : rows' = CloseActive(st)
    BY <1>2, CloseActiveKeeps DEF Active, ActiveAssignmentStatuses
  <1>3. CASE InsertAssignment(w)
    <2>1. PICK j \in RowId : /\ rows[j] = NoRow
                             /\ rows' = [rows EXCEPT ![j] = [member |-> call[w].who,
                                                             status |-> "assigned"]]
      BY <1>3 DEF InsertAssignment
    <2>2. i = j => rows[i].member \notin Riders /\ rows[i].status # "completed"
      BY <2>1 DEF NoRow
    <2> QED
      BY <1>T, <2>1, <2>2
  <1>4. CASE StampAssignments(w) /\ call[w].to = "accepted"
    BY <1>T, <1>4 DEF StampAssignments, Row
  <1>5. QuietStep(w) => UNCHANGED rows
    BY DEF QuietStep
  <1>6. LoudStep(w) => \/ UNCHANGED rows
                       \/ \E st : rows' = CloseActive(st)
                       \/ InsertAssignment(w)
                       \/ StampAssignments(w) /\ call[w].to = "accepted"
    BY DEF LoudStep, HandOutStep, InsertFails, GiveBack, WriteStatus,
           StampAssignments, WriteRelease, WriteCancel, CompleteDelivery, RecordEarning
  <1> QED
    BY <1>1, <1>2, <1>3, <1>4, <1>5, <1>6

-----------------------------------------------------------------------------
(* Whatever fails *)

\* The rider on a proof of delivery, and how it was confirmed, never change.
THEOREM ProofNeverReplaced == Spec => ProofIsFinal
  <1>1. StateOK /\ [Next]_vars => [proof # NoRider => proof' = proof /\ via' = via]_vars
    <2> SUFFICES ASSUME StateOK, Next, proof # NoRider
                 PROVE  proof' = proof /\ via' = via
      BY DEF vars
    <2>1. PICK w \in Workers : QuietStep(w) \/ LoudStep(w)
      BY StepKinds
    <2>2. CASE QuietStep(w)
      BY <2>2 DEF QuietStep
    <2>3. CASE LoudStep(w)
      BY <2>3, LoudProof DEF NoProofYet
    <2> QED
      BY <2>1, <2>2, <2>3
  <1> QED
    BY <1>1, StateOKInit, StateOKStep, PTL DEF Spec, ProofIsFinal

EarningInv == StateOK /\ EarningInFlight /\ EarnedOnce

\* The delivery earns at most once and only for the rider on the proof. The
\* proof's unique index makes the handler that wrote it the only one that ever
\* reaches the background earning.
THEOREM EarnedAtMostOnce == Spec => []EarnedOnce
  <1> USE LifecycleAssumption
  <1>1. Init => EarningInv
    <2> SUFFICES ASSUME Init PROVE EarningInFlight /\ EarnedOnce
      BY StateOKInit DEF EarningInv
    <2> QED
      BY DEF Init, Idle, EarningInFlight, EarnedOnce
  <1>2. EarningInv /\ [Next]_vars => EarningInv'
    <2> SUFFICES ASSUME EarningInv, [Next]_vars PROVE EarningInFlight' /\ EarnedOnce'
      BY StateOKStep DEF EarningInv
    <2>T. StateOK /\ EarningInFlight /\ EarnedOnce /\ call \in [Workers -> Call]
          /\ earned \in [Riders -> Nat]
      BY DEF EarningInv, StateOK, TypeOK
    <2>1. CASE UNCHANGED vars
      BY <2>1, <2>T DEF vars, EarningInFlight, EarnedOnce
    <2>2. ASSUME NEW w \in Workers, UNCHANGED <<proof, earned>>, call'[w].at # "earn",
                 \A v \in Workers : v # w => call'[v] = call[v]
          PROVE EarningInFlight' /\ EarnedOnce'
      <3>1. \A v \in Workers : call'[v].at = "earn" => call[v].at = "earn" /\ call'[v] = call[v]
        BY <2>2
      <3> QED
        BY <2>T, <2>2, <3>1 DEF EarningInFlight, EarnedOnce
    <2>3. ASSUME NEW w \in Workers, QuietStep(w) PROVE EarningInFlight' /\ EarnedOnce'
      <3>1. call'[w].at # "earn" /\ \A v \in Workers : v # w => call'[v] = call[v]
        BY <2>T, <2>3 DEF QuietStep, Goto
      <3> QED
        BY <2>2, <2>3, <3>1 DEF QuietStep
    <2>4. ASSUME NEW w \in Workers, CompleteDelivery(w), NoProofYet, StatusEQ(w)
          PROVE EarningInFlight' /\ EarnedOnce'
      <3>1. call[w].who \in Riders /\ proof' = call[w].who /\ earned' = earned
        BY <2>T, <2>4 DEF CompleteDelivery, At, StateOK, CallOK
      <3>2. call' = [call EXCEPT ![w] = [call[w] EXCEPT !.at = "earn"]]
        BY <2>4 DEF CompleteDelivery, Goto
      <3>3. call'[w].who = proof'
        BY <2>T, <3>1, <3>2 DEF Call
      <3>4. \A v \in Workers : v # w => call'[v] = call[v] /\ call[v].at # "earn"
        BY <2>T, <2>4, <3>2 DEF EarningInFlight, NoProofYet
      <3>5. \A r \in Riders : earned'[r] = 0
        BY <2>T, <2>4, <3>1 DEF EarningInFlight, NoProofYet
      <3> QED
        BY <3>1, <3>3, <3>4, <3>5 DEF EarningInFlight, EarnedOnce
    <2>5. ASSUME NEW w \in Workers, RecordEarning(w) PROVE EarningInFlight' /\ EarnedOnce'
      <3>1. call[w].who = proof /\ call[w].at = "earn" /\ \A r \in Riders : earned[r] = 0
        BY <2>T, <2>5 DEF RecordEarning, At, EarningInFlight
      <3>2. proof # NoRider
        BY <2>T, <3>1 DEF EarningInFlight
      <3>3. proof' = proof /\ call' = [call EXCEPT ![w] = Idle]
        BY <2>5 DEF RecordEarning, Goto
      <3>4. \A v \in Workers : call'[v].at # "earn"
        BY <2>T, <3>1, <3>3 DEF EarningInFlight, Idle
      <3>5. \A r \in Riders : earned'[r] > 0 => earned'[r] = 1 /\ r = proof
        BY <2>T, <2>5, <3>1 DEF RecordEarning
      <3> QED
        BY <3>2, <3>3, <3>4, <3>5 DEF EarningInFlight, EarnedOnce
    <2>6. ASSUME NEW w \in Workers, LoudStep(w) PROVE EarningInFlight' /\ EarnedOnce'
      <3>1. RecordEarning(w) \/ earned' = earned
        BY <2>6 DEF LoudStep, HandOutStep, InsertAssignment, InsertFails, GiveBack,
                    WriteStatus, StampAssignments, WriteRelease, WriteCancel, CompleteDelivery
      <3> QED
        BY <2>T, <2>2, <2>4, <2>5, <2>6, <3>1, LoudCalls, LoudProof
    <2> QED
      BY <2>T, <2>1, <2>3, <2>6, StepKinds
  <1> QED
    BY <1>1, <1>2, PTL DEF Spec, EarningInv

-----------------------------------------------------------------------------
(* As long as assignment rows can be written *)

\* Without a failed insert nothing is given back, and a status changes only by
\* being handed out, along a leg, back to the pool from the outlet, or closed.
LEMMA StatusSteps ==
    ASSUME StateOK, "insert" \notin Faults, NEW w \in Workers, LoudStep(w)
    PROVE  \/ UNCHANGED <<status, proof>>
           \/ HandOutStep(w)
           \/ /\ WriteStatus(w)
              /\ call[w].to \in LegStatuses
              /\ StatusChangeAllowed(status, call[w].to, FALSE)
              /\ status' = call[w].to
           \/ status \in PrePickupStatuses /\ status' = "pending" /\ WriteRelease(w)
           \/ status \notin TerminalStatuses /\ status' = "cancelled" /\ WriteCancel(w)
           \/ /\ CompleteDelivery(w) /\ NoProofYet /\ StatusEQ(w)
              /\ status \in InProgressStatuses /\ status' = "delivered"
  <1> USE Vocabulary
  <1>T. CallOK(call[w])
    BY DEF StateOK
  <1>1. CASE GiveBack(w)
    BY <1>1, <1>T DEF GiveBack, At, CallOK
  <1>2. CASE WriteStatus(w) /\ StatusEQ(w)
    BY <1>2, <1>T DEF WriteStatus, StatusEQ, At, CallOK
  <1>3. CASE WriteRelease(w) /\ StatusEQ(w)
    BY <1>3, <1>T DEF WriteRelease, StatusEQ, At, CallOK
  <1>4. CASE WriteCancel(w) /\ StatusEQ(w)
    BY <1>4, <1>T DEF WriteCancel, StatusEQ, At, CallOK
  <1>5. CASE CompleteDelivery(w) /\ NoProofYet /\ StatusEQ(w)
    BY <1>5, <1>T DEF CompleteDelivery, StatusEQ, At, CallOK, DeliveryOps
  <1>6. CASE InsertAssignment(w) \/ InsertFails(w) \/ StampAssignments(w) \/ RecordEarning(w)
    BY <1>6 DEF InsertAssignment, InsertFails, StampAssignments, RecordEarning
  <1> QED
    BY <1>1, <1>2, <1>3, <1>4, <1>5, <1>6 DEF LoudStep

\* A closed task stays closed, and a collected order never returns to the outlet.
LEMMA StatusOrder ==
    ASSUME StateOK, "insert" \notin Faults, NEW w \in Workers, QuietStep(w) \/ LoudStep(w)
    PROVE  /\ status \in TerminalStatuses => status' = status
           /\ status \in PostPickupStatuses =>
                 status' \in PostPickupStatuses \cup TerminalStatuses
  <1> USE Vocabulary
  <1>1. CASE QuietStep(w)
    BY <1>1 DEF QuietStep
  <1>2. CASE LoudStep(w)
    <2>1. CASE status' = status \/ HandOutStep(w)
      BY <2>1 DEF HandOutStep, Open
    <2>2. ASSUME call[w].to \in LegStatuses,
                 StatusChangeAllowed(status, call[w].to, FALSE),
                 status' = call[w].to
          PROVE  /\ status \notin TerminalStatuses
                 /\ status \in PostPickupStatuses =>
                       status' \in PostPickupStatuses \cup TerminalStatuses
      BY <2>2, LegChange
    <2> QED
      BY <1>2, <2>1, <2>2, StatusSteps
  <1> QED
    BY <1>1, <1>2

\* Until the task closes or returns to the pool, a rider who holds it keeps it.
LEMMA HoldKept ==
    ASSUME StateOK, FailedStampAfterClose, "insert" \notin Faults,
           NEW w \in Workers, QuietStep(w) \/ LoudStep(w),
           status' \in InProgressStatuses, NEW i \in Active
    PROVE  i \in Active' /\ rows'[i].member = rows[i].member
  <1> USE Vocabulary
  <1>T. rows \in [RowId -> Row] /\ i \in RowId /\ rows[i].member \in Riders
    BY ActiveMember DEF StateOK, TypeOK
  <1>1. rows'[i].member = rows[i].member
    BY <1>T, RowsKept
  <1>2. CASE UNCHANGED rows
    BY <1>1, <1>2 DEF Active
  <1>3. CASE InsertAssignment(w)
    BY <1>T, <1>1, <1>3 DEF InsertAssignment, Active, ActiveAssignmentStatuses
  <1>4. CASE StampAssignments(w)
    <2>1. status' = status
      BY <1>4 DEF StampAssignments
    <2>2. call[w].to = "accepted"
      BY <1>4, <2>1 DEF StampAssignments, FailedStampAfterClose
    <2> QED
      BY <1>T, <1>1, <1>4, <2>2 DEF StampAssignments, Active, ActiveAssignmentStatuses, Row
  <1>5. QuietStep(w) => UNCHANGED rows
    BY DEF QuietStep
  <1>6. LoudStep(w) => UNCHANGED rows \/ InsertAssignment(w) \/ StampAssignments(w)
    BY DEF LoudStep, HandOutStep, InsertFails, GiveBack, WriteStatus,
           StampAssignments, WriteRelease, WriteCancel, CompleteDelivery, RecordEarning, StatusEQ
  <1> QED
    BY <1>1, <1>2, <1>3, <1>4, <1>5, <1>6

SafetyInv ==
    /\ StateOK
    /\ DeliveryOfHolder
    /\ ProofIffDelivered
    /\ FailedStampAfterClose
    /\ CodeDeliveryInFlight
    /\ NeverWithoutRider
    /\ CodeDeliveryByHolder

LEMMA SafetyInit == Init => SafetyInv
  <1> SUFFICES ASSUME Init PROVE SafetyInv
    OBVIOUS
  <1>1. \A w \in Workers : call[w].at = "idle"
    BY DEF Init, Idle
  <1>2. DeliveryOfHolder /\ FailedStampAfterClose /\ CodeDeliveryInFlight
    BY <1>1 DEF DeliveryOfHolder, FailedStampAfterClose, CodeDeliveryInFlight, At
  <1>3. ProofIffDelivered /\ NeverWithoutRider /\ CodeDeliveryByHolder
    BY Vocabulary DEF Init, ProofIffDelivered, NeverWithoutRider, CodeDeliveryByHolder
  <1> QED
    BY <1>2, <1>3, StateOKInit DEF SafetyInv

\* Every step keeps the safety invariant, one step of the proof per conjunct.
LEMMA SafetyStep ==
    ASSUME SafetyInv, "insert" \notin Faults, NEW w \in Workers, QuietStep(w) \/ LoudStep(w)
    PROVE  /\ DeliveryOfHolder'
           /\ ProofIffDelivered'
           /\ FailedStampAfterClose'
           /\ CodeDeliveryInFlight'
           /\ NeverWithoutRider'
           /\ CodeDeliveryByHolder'
  <1> USE Vocabulary, LifecycleAssumption
  <1>T. /\ StateOK /\ DeliveryOfHolder /\ ProofIffDelivered /\ FailedStampAfterClose
        /\ CodeDeliveryInFlight /\ NeverWithoutRider /\ CodeDeliveryByHolder
        /\ call \in [Workers -> Call] /\ rows \in [RowId -> Row]
        /\ \A v \in Workers : CallOK(call[v])
    BY DEF SafetyInv, StateOK, TypeOK
  <1>F. \A v \in Workers : v # w => call'[v] = call[v]
    BY <1>T, LoudCalls DEF QuietStep, Goto
  <1>Q. QuietStep(w) =>
          /\ call'[w].at \in {"idle", "take", "read", "assignee", "write"}
          /\ call'[w].op = "code" /\ call'[w].at = "assignee" => status \in PostPickupStatuses
          /\ call'[w].op \in DeliveryOps /\ call'[w].at = "write" =>
                /\ call[w].op = call'[w].op
                /\ call[w].at = "assignee"
                /\ \E i \in Active : rows[i].member = call'[w].who
    BY <1>T DEF QuietStep, Goto
  <1>1. DeliveryOfHolder'
    <2> SUFFICES ASSUME NEW v \in Workers, call'[v].op \in DeliveryOps, call'[v].at = "write"
                 PROVE  \E i \in RowId : rows'[i].member = call'[v].who
      BY DEF DeliveryOfHolder, At
    <2>1. \E i \in RowId : rows[i].member = call'[v].who
      BY <1>T, <1>F, <1>Q, LoudCalls DEF DeliveryOfHolder, At, Active
    <2>2. call'[v].who \in Riders
      BY <1>T, <1>F, <1>Q, LoudCalls, ActiveMember DEF CallOK
    <2> QED
      BY <1>T, <2>1, <2>2, RowsKept
  <1>2. ProofIffDelivered'
    <2>1. CASE QuietStep(w)
      BY <1>T, <2>1 DEF QuietStep, ProofIffDelivered
    <2>2. CASE CompleteDelivery(w) /\ NoProofYet /\ StatusEQ(w)
      BY <1>T, <2>2 DEF CompleteDelivery, At, CallOK, ProofIffDelivered
    <2>3. CASE LoudStep(w) /\ ~(CompleteDelivery(w) /\ NoProofYet /\ StatusEQ(w))
      <3>1. proof' = proof
        BY <2>3, LoudProof
      <3>2. status = "delivered" => status' = "delivered"
        BY <1>T, StatusOrder
      <3>3. status' = "delivered" => status = "delivered"
        BY <1>T, <2>3, StatusSteps, LegChange DEF HandOutStep
      <3> QED
        BY <1>T, <3>1, <3>2, <3>3 DEF ProofIffDelivered
    <2> QED
      BY <2>1, <2>2, <2>3
  <1>3. FailedStampAfterClose'
    <2> SUFFICES ASSUME NEW v \in Workers, call'[v].op = "status", call'[v].at = "stamp",
                        call'[v].to # "accepted"
                 PROVE  status' \in TerminalStatuses
      BY DEF FailedStampAfterClose, At
    <2>1. CASE v # w
      BY <1>T, <1>F, <2>1, StatusOrder DEF FailedStampAfterClose, At
    <2>2. CASE v = w
      <3>1. WriteStatus(w) /\ StatusEQ(w) /\ status' = call'[w].to
        BY <1>T, <1>Q, <2>2, LoudCalls
      <3>2. call'[w].to = "failed"
        BY <1>T, <2>2, <3>1 DEF WriteStatus, Goto, Idle, Call
      <3> QED
        BY <3>1, <3>2
    <2> QED
      BY <2>1, <2>2
  <1>4. CodeDeliveryInFlight'
    <2> SUFFICES ASSUME NEW v \in Workers, call'[v].op = "code",
                        call'[v].at \in {"assignee", "write"}
                 PROVE  /\ status' \in PostPickupStatuses \cup TerminalStatuses
                        /\ call'[v].at = "write" /\ status' \in PostPickupStatuses =>
                              \E i \in Active' : rows'[i].member = call'[v].who
      BY DEF CodeDeliveryInFlight, At
    <2>1. status \in PostPickupStatuses \cup TerminalStatuses
      BY <1>T, <1>F, <1>Q, LoudCalls DEF CodeDeliveryInFlight, At, DeliveryOps
    <2>2. status' \in PostPickupStatuses \cup TerminalStatuses
      BY <1>T, <2>1, StatusOrder
    <2>3. ASSUME call'[v].at = "write", status' \in PostPickupStatuses
          PROVE  \E i \in Active' : rows'[i].member = call'[v].who
      <3>1. status \in PostPickupStatuses
        BY <1>T, <2>1, <2>3, StatusOrder
      <3>2. \E i \in Active : rows[i].member = call'[v].who
        BY <1>T, <1>F, <1>Q, <2>3, <3>1, LoudCalls DEF CodeDeliveryInFlight, At, DeliveryOps
      <3> QED
        BY <1>T, <2>3, <3>2, HoldKept
    <2> QED
      BY <2>2, <2>3
  <1>5. NeverWithoutRider'
    <2> SUFFICES ASSUME status' \in InProgressStatuses, ~orphaned'
                 PROVE  Active' # {} \/ Inserting' # {}
      BY DEF NeverWithoutRider
    <2>1. CASE HandOutStep(w)
      BY <1>T, <2>1 DEF HandOutStep, Inserting, Goto
    <2>2. CASE InsertAssignment(w)
      BY <1>T, <2>2 DEF InsertAssignment, Active, ActiveAssignmentStatuses
    <2>3. CASE ~HandOutStep(w) /\ ~InsertAssignment(w)
      <3>1. status \in InProgressStatuses
        <4>1. CASE QuietStep(w)
          BY <4>1 DEF QuietStep
        <4>2. CASE LoudStep(w)
          <5>1. ASSUME call[w].to \in LegStatuses, StatusChangeAllowed(status, call[w].to, FALSE)
                PROVE  status \in InProgressStatuses
            BY <5>1, LegChange
          <5> QED
            BY <1>T, <2>3, <4>2, <5>1, StatusSteps
        <4> QED
          BY <4>1, <4>2
      <3>2. ~orphaned
        BY <1>T, <2>3, StatusSteps DEF QuietStep, LoudStep, InsertFails, GiveBack, WriteStatus,
           StampAssignments, WriteRelease, WriteCancel, CompleteDelivery, RecordEarning
      <3>3. call[w].at # "insert"
        BY <1>T, <2>3, <3>2 DEF QuietStep, LoudStep, InsertFails, GiveBack, WriteStatus, At,
           StampAssignments, WriteRelease, WriteCancel, CompleteDelivery, RecordEarning
      <3>4. Inserting \subseteq Inserting'
        BY <1>F, <3>3 DEF Inserting
      <3>5. Active # {} \/ Inserting # {}
        BY <1>T, <3>1, <3>2 DEF NeverWithoutRider
      <3> QED
        BY <1>T, <3>4, <3>5, HoldKept
    <2> QED
      BY <2>1, <2>2, <2>3
  <1>6. CodeDeliveryByHolder'
    <2> SUFFICES ASSUME via' = "code"
                 PROVE  \E i \in RowId : rows'[i] = [member |-> proof', status |-> "completed"]
      BY DEF CodeDeliveryByHolder
    <2>1. CASE CompleteDelivery(w) /\ NoProofYet /\ StatusEQ(w)
      <3>1. /\ call[w].op = "code" /\ call[w].at = "write" /\ proof' = call[w].who
            /\ rows' = CloseActive("completed")
        BY <2>1 DEF CompleteDelivery, At
      <3>2. status \in PostPickupStatuses
        BY <1>T, <2>1, <3>1 DEF CallOK, StatusEQ
      <3>3. PICK i \in Active : rows[i].member = call[w].who
        BY <1>T, <3>1, <3>2 DEF CodeDeliveryInFlight, At
      <3>4. i \in RowId
        BY DEF Active
      <3> QED
        BY <1>T, <3>1, <3>3, <3>4, CloseActiveKeeps
    <2>2. CASE proof' = proof /\ via' = via
      <3>1. PICK i \in RowId : rows[i] = [member |-> proof, status |-> "completed"]
        BY <1>T, <2>2 DEF CodeDeliveryByHolder
      <3> QED
        BY <1>T, <2>2, <3>1, RowsKept
    <2> QED
      BY <2>1, <2>2, LoudProof DEF QuietStep
  <1> QED
    BY <1>1, <1>2, <1>3, <1>4, <1>5, <1>6

LEMMA SafetyInductive == ASSUME "insert" \notin Faults PROVE SafetyInv /\ [Next]_vars => SafetyInv'
  <1> SUFFICES ASSUME SafetyInv, [Next]_vars PROVE SafetyInv'
    OBVIOUS
  <1>1. StateOK /\ StateOK'
    BY StateOKStep DEF SafetyInv
  <1>2. CASE UNCHANGED vars
    BY <1>1, <1>2 DEF vars, SafetyInv, DeliveryOfHolder, ProofIffDelivered, FailedStampAfterClose,
       CodeDeliveryInFlight, NeverWithoutRider, CodeDeliveryByHolder, At, Active, Inserting
  <1>3. CASE Next
    <2>1. PICK w \in Workers : QuietStep(w) \/ LoudStep(w)
      BY <1>1, <1>3, StepKinds
    <2> QED
      BY <1>1, <2>1, SafetyStep DEF SafetyInv
  <1> QED
    BY <1>2, <1>3

\* As long as assignment rows can be written, no interleaving of handlers
\* leaves a job in progress with no rider and none about to be recorded, unless
\* a handler was abandoned between the status and the row.
THEOREM AlwaysARider == ASSUME "insert" \notin Faults PROVE Spec => []NeverWithoutRider
  <1>1. SafetyInv => NeverWithoutRider
    BY DEF SafetyInv
  <1> QED
    BY <1>1, SafetyInit, SafetyInductive, PTL DEF Spec

\* As long as assignment rows can be written, a delivery confirmed by code is
\* recorded against a rider whose own assignment that transaction completed,
\* although the rider was read before the transaction.
THEOREM CodeNamesHolder == ASSUME "insert" \notin Faults PROVE Spec => []CodeDeliveryByHolder
  <1>1. SafetyInv => CodeDeliveryByHolder
    BY DEF SafetyInv
  <1> QED
    BY <1>1, SafetyInit, SafetyInductive, PTL DEF Spec

\* "TerminalStatuses are statuses a task never leaves" holds as long as
\* assignment rows can be written: the give-back is the only way out.
THEOREM ClosedStaysClosed == ASSUME "insert" \notin Faults PROVE Spec => TerminalIsFinal
  <1>1. StateOK /\ [Next]_vars => [(status \in TerminalStatuses) => status' = status]_vars
    <2> SUFFICES ASSUME StateOK, Next, status \in TerminalStatuses
                 PROVE  status' = status
      BY DEF vars
    <2> QED
      BY StepKinds, StatusOrder
  <1> QED
    BY <1>1, StateOKInit, StateOKStep, PTL DEF Spec, TerminalIsFinal

-----------------------------------------------------------------------------
(* The contract *)

\* The riders an assignment row was ever written for.
Holders == {m \in Riders : \E i \in RowId : rows[i].member = m}

\* Rows keep their riders, so without a new row the holders are the same.
LEMMA HoldersKept ==
    ASSUME StateOK, NEW w \in Workers, QuietStep(w) \/ LoudStep(w), ~InsertAssignment(w)
    PROVE  Holders' = Holders
  <1>T. rows \in [RowId -> Row]
    BY DEF StateOK, TypeOK
  <1>1. ASSUME NEW i \in RowId PROVE rows'[i].member = rows[i].member
    <2>1. CASE UNCHANGED rows
      BY <2>1
    <2>2. CASE \E st : rows' = CloseActive(st)
      BY <2>2, CloseActiveKeeps
    <2>3. CASE StampAssignments(w) /\ call[w].to = "accepted"
      BY <1>T, <2>3 DEF StampAssignments, Row
    <2> QED
      BY <2>1, <2>2, <2>3 DEF QuietStep, LoudStep, HandOutStep, InsertFails, GiveBack,
         WriteStatus, StampAssignments, WriteRelease, WriteCancel, CompleteDelivery, RecordEarning
  <1> QED
    BY <1>1 DEF Holders

\* The contract speaks the same status vocabulary.
LEMMA SameVocabulary ==
    /\ Contract!TerminalStatuses = TerminalStatuses
    /\ Contract!PrePickupStatuses = PrePickupStatuses
    /\ Contract!InProgressStatuses = InProgressStatuses
    /\ Contract!TaskStatuses = TaskStatuses
    /\ \A from, to : StatusChangeAllowed(from, to, FALSE) =>
                        Contract!StatusChangeAllowed(from, to, FALSE)
  <1>1. Contract!TerminalStatuses = TerminalStatuses
    BY DEF Contract!TerminalStatuses, TerminalStatuses
  <1>2. Contract!PrePickupStatuses = PrePickupStatuses
    BY DEF Contract!PrePickupStatuses, PrePickupStatuses
  <1>3. Contract!InProgressStatuses = InProgressStatuses
    BY DEF Contract!InProgressStatuses, InProgressStatuses
  <1>4. Contract!TaskStatuses = TaskStatuses
    BY <1>1, <1>3 DEF Contract!TaskStatuses, TaskStatuses
  <1>5. Contract!validTransitions = validTransitions
    BY DEF Contract!validTransitions, validTransitions
  <1>6. \A from, to : StatusChangeAllowed(from, to, FALSE) =>
                         Contract!StatusChangeAllowed(from, to, FALSE)
    BY <1>1, <1>5 DEF Contract!StatusChangeAllowed, StatusChangeAllowed,
       Contract!ValidTransition, ValidTransition
  <1> QED
    BY <1>1, <1>2, <1>3, <1>4, <1>6

\* Every step of a handler is a step of the contract or leaves it alone.
LEMMA ContractStep ==
    ASSUME SafetyInv, "insert" \notin Faults, [Next]_vars
    PROVE  [Contract!Next]_(Contract!contractVars)
  <1> USE Vocabulary, LifecycleAssumption, SameVocabulary
  <1>T. StateOK /\ DeliveryOfHolder /\ (\A v \in Workers : CallOK(call[v]))
    BY DEF SafetyInv, StateOK
  <1>1. CASE UNCHANGED vars
    BY <1>1 DEF vars, Contract!contractVars
  <1>2. ASSUME NEW w \in Workers, QuietStep(w) \/ LoudStep(w)
        PROVE  [Contract!Next]_(Contract!contractVars)
    <2>1. ASSUME UNCHANGED <<status, proof>>, ~InsertAssignment(w)
          PROVE  UNCHANGED Contract!contractVars
      BY <1>T, <1>2, <2>1, HoldersKept DEF Contract!contractVars, Holders
    <2>2. CASE InsertAssignment(w)
      <3>1. call[w].who \in Riders /\ UNCHANGED <<status, proof>>
        BY <1>T, <2>2 DEF InsertAssignment, At, CallOK
      <3>2. PICK j \in RowId : /\ rows[j] = NoRow
                               /\ rows' = [rows EXCEPT ![j] = [member |-> call[w].who,
                                                               status |-> "assigned"]]
        BY <2>2 DEF InsertAssignment
      <3>3. rows[j].member \notin Riders /\ rows \in [RowId -> Row]
        BY <1>T, <3>2 DEF NoRow, StateOK, TypeOK
      <3>4. Holders' = Holders \cup {call[w].who}
        BY <3>1, <3>2, <3>3 DEF Holders
      <3> QED
        <4>1. \E r \in Riders : Holders' = Holders \cup {r} /\ UNCHANGED <<status, proof>>
          BY <3>1, <3>4
        <4>2. \E r \in Riders : Contract!RecordHolder(r)
          BY <4>1 DEF Contract!RecordHolder, Holders
        <4> QED
          BY <4>2 DEF Contract!Next
    <2>3. CASE HandOutStep(w) /\ ~InsertAssignment(w)
      <3>1. Contract!HandOut
        BY <1>T, <1>2, <2>3, HoldersKept DEF HandOutStep, Open, Contract!HandOut, Holders
      <3> QED
        BY <3>1 DEF Contract!Next
    <2>4. ASSUME call[w].to \in LegStatuses, StatusChangeAllowed(status, call[w].to, FALSE),
                 status' = call[w].to, WriteStatus(w)
          PROVE  Contract!Next
      <3>1. Holders' = Holders /\ proof' = proof
        BY <2>4 DEF WriteStatus, Holders
      <3>2. Contract!Advance(call[w].to)
        BY <2>4, <3>1 DEF Contract!Advance, Holders
      <3>3. call[w].to # "cancelled"
        BY <2>4 DEF LegStatuses
      <3> QED
        BY <2>4, <3>2, <3>3 DEF Contract!Next
    <2>5. CASE status \in PrePickupStatuses /\ status' = "pending" /\ WriteRelease(w)
      <3>1. proof' = proof /\ ~InsertAssignment(w)
        BY <2>5 DEF WriteRelease, InsertAssignment, At
      <3>2. Contract!Return
        BY <1>T, <1>2, <2>5, <3>1, HoldersKept DEF Contract!Return, Holders
      <3> QED
        BY <3>2 DEF Contract!Next
    <2>6. CASE status \notin TerminalStatuses /\ status' = "cancelled" /\ WriteCancel(w)
      <3>1. proof' = proof /\ ~InsertAssignment(w)
        BY <2>6 DEF WriteCancel, InsertAssignment, At
      <3>2. Contract!Cancel
        BY <1>T, <1>2, <2>6, <3>1, HoldersKept DEF Contract!Cancel, Holders
      <3> QED
        BY <3>2 DEF Contract!Next
    <2>7. CASE /\ CompleteDelivery(w) /\ NoProofYet /\ StatusEQ(w)
               /\ status \in InProgressStatuses /\ status' = "delivered"
      <3>1. /\ proof' = call[w].who /\ ~InsertAssignment(w) /\ proof = NoRider
            /\ call[w].who \in Riders /\ call[w].who \in Holders
        BY <1>T, <2>7 DEF CompleteDelivery, InsertAssignment, At, CallOK, NoProofYet, Holders,
           DeliveryOfHolder
      <3>2. Contract!Deliver(call[w].who)
        BY <1>T, <1>2, <2>7, <3>1, HoldersKept DEF Contract!Deliver, Holders
      <3> QED
        BY <3>1, <3>2 DEF Contract!Next
    <2>8. CASE QuietStep(w)
      BY <2>1, <2>2, <2>8 DEF QuietStep
    <2>9. CASE LoudStep(w)
      <3>1. CASE UNCHANGED <<status, proof>>
        BY <2>1, <2>2, <3>1
      <3> QED
        BY <1>T, <2>2, <2>3, <2>4, <2>5, <2>6, <2>7, <2>9, <3>1, StatusSteps
    <2> QED
      BY <1>2, <2>8, <2>9
  <1> QED
    BY <1>T, <1>1, <1>2, StepKinds

\* As long as assignment rows can be written, the handlers of the task service,
\* interleaved in any way and abandoned anywhere, implement the atomic contract
\* of one delivery.
THEOREM HandlersImplementContract ==
    ASSUME "insert" \notin Faults PROVE Spec => ImplementsContract
  <1>1. Init => Contract!Init
    BY LifecycleAssumption DEF Init, Contract!Init, NoRow
  <1>2. SafetyInv /\ [Next]_vars => [Contract!Next]_(Contract!contractVars)
    BY ContractStep
  <1> QED
    BY <1>1, <1>2, SafetyInit, SafetyInductive, PTL DEF Spec, ImplementsContract, Contract!Spec
=============================================================================
