-------------------------- MODULE TaskIntakeProofs --------------------------
(***************************************************************************)
(* TaskIntake, for any number of handlers and messages and any crash: the  *)
(* lease and the lookup together leave a reference one open task.          *)
(***************************************************************************)
EXTENDS TaskIntake, FiniteSetTheorems, TLAPS

Message == [state : {"unsent", "queued", "settled"}, left : 0 .. MaxDeliver, wait : Nat]

Handler == [at : Steps, msg : Msgs \cup {NoMsg}, task : 0 .. MaxTasks,
            seen : TaskState \cup {"none"}, age : 0 .. MaxRun]

LEMMA IntakeConstants ==
    /\ MaxDeliver \in Nat /\ AckWait \in Nat /\ Lease \in Nat /\ NakDelay \in Nat
    /\ MaxRun \in Nat /\ MaxTasks \in Nat /\ MaxMoves \in Nat /\ MaxFaults \in Nat
    /\ MaxRun < Lease
    /\ NoWorker \notin Workers /\ NoMsg \notin Msgs
    /\ Stopped \in Handler
    /\ Free \in [owner : Workers \cup {NoWorker}, left : 0 .. Lease]
BY IntakeAssumption DEF Stopped, Handler, Steps, Free

-----------------------------------------------------------------------------
(* What a change of one message or one handler keeps *)

LEMMA MessageSteps ==
    ASSUME NEW m \in Message
    PROVE  /\ [m EXCEPT !.wait = CountDown(@)] \in Message
           /\ m.left > 0 => [m EXCEPT !.left = @ - 1, !.wait = AckWait] \in Message
<1> USE IntakeConstants DEF Message
<1>1. CountDown(m.wait) \in Nat
    BY DEF CountDown
<1>2. m.left > 0 => m.left - 1 \in 0 .. MaxDeliver
    OBVIOUS
<1> QED
    BY <1>1, <1>2

LEMMA HandlerSteps ==
    ASSUME NEW h \in Handler, h.age < MaxRun
    PROVE  LET older == [h EXCEPT !.age = @ + 1]
           IN  /\ older \in Handler
               /\ older.at = h.at /\ older.msg = h.msg /\ older.task = h.task
<1>1. h.age + 1 \in 0 .. MaxRun
    BY IntakeConstants DEF Handler
<1> QED
    BY <1>1 DEF Handler

LEMMA AckKeeps ==
    ASSUME msg \in [Msgs -> Message], NEW x \in Msgs, Ack(x)
    PROVE  msg' \in [Msgs -> Message]
BY IntakeConstants DEF Ack, Message

LEMMA NakKeeps ==
    ASSUME msg \in [Msgs -> Message], NEW x \in Msgs, NEW d \in Nat, Nak(x, d)
    PROVE  msg' \in [Msgs -> Message]
BY DEF Nak, Message

LEMMA GotoKeeps ==
    ASSUME run \in [Workers -> Handler], NEW w \in Workers, NEW s \in Steps, Goto(w, s)
    PROVE  /\ run' \in [Workers -> Handler]
           /\ run'[w].at = s /\ run'[w].msg = run[w].msg
           /\ run'[w].task = run[w].task /\ run'[w].age = run[w].age
           /\ \A v \in Workers \ {w} : run'[v] = run[v]
BY DEF Goto, Handler

LEMMA StopKeeps ==
    ASSUME run \in [Workers -> Handler], NEW w \in Workers, Stop(w)
    PROVE  /\ run' \in [Workers -> Handler]
           /\ run'[w].at = "idle"
           /\ \A v \in Workers \ {w} : run'[v] = run[v]
BY IntakeConstants DEF Stop, Stopped, Handler

LEMMA FailKeeps ==
    ASSUME faults \in 0 .. MaxFaults, Fail PROVE faults' \in 0 .. MaxFaults
BY IntakeConstants DEF Fail, MayFail

LEMMA ReleaseKeeps ==
    ASSUME NEW w \in Workers, lock \in [owner : Workers \cup {NoWorker}, left : 0 .. Lease]
    PROVE  Release(w) \in [owner : Workers \cup {NoWorker}, left : 0 .. Lease]
BY IntakeConstants DEF Release

\* Writing one task leaves as many; the others keep their status.
LEMMA WriteKeeps ==
    ASSUME tasks \in Seq(TaskState), NEW i \in DOMAIN tasks, NEW st \in TaskState,
           tasks' = [tasks EXCEPT ![i] = st]
    PROVE  /\ tasks' \in Seq(TaskState)
           /\ Len(tasks') = Len(tasks)
           /\ DOMAIN tasks' = DOMAIN tasks
           /\ tasks'[i] = st
           /\ \A j \in DOMAIN tasks : j # i => tasks'[j] = tasks[j]
OBVIOUS

LEMMA AppendKeeps ==
    ASSUME tasks \in Seq(TaskState), tasks' = Append(tasks, "pending")
    PROVE  /\ tasks' \in Seq(TaskState)
           /\ Len(tasks') = Len(tasks) + 1
           /\ \A j \in DOMAIN tasks' : j # Len(tasks') => j \in DOMAIN tasks /\ tasks'[j] = tasks[j]
           /\ DOMAIN tasks \subseteq DOMAIN tasks'
BY DEF TaskState

LEMMA TypedParts ==
    IntakeTyped <=>
        /\ dispatching \in BOOLEAN /\ blind \in BOOLEAN
        /\ msg \in [Msgs -> Message] /\ run \in [Workers -> Handler]
        /\ lock \in [owner : Workers \cup {NoWorker}, left : 0 .. Lease]
        /\ tasks \in Seq(TaskState) /\ Len(tasks) <= MaxTasks
        /\ moves \in 0 .. MaxMoves /\ faults \in 0 .. MaxFaults
        /\ \A w \in Workers : HandlerOK(w)
BY DEF IntakeTyped, TypeOK, Message, Handler

-----------------------------------------------------------------------------
(* Types *)

LEMMA TypedInit == Init => IntakeTyped
<1> SUFFICES ASSUME Init PROVE IntakeTyped
    OBVIOUS
<1>0. 0 \in 0 .. MaxMoves /\ 0 \in 0 .. MaxFaults
    BY IntakeConstants
<1>m. [state |-> "unsent", left |-> MaxDeliver, wait |-> 0] \in Message
    BY IntakeConstants DEF Message
<1>1. msg \in [Msgs -> Message] /\ run \in [Workers -> Handler]
    BY <1>m, IntakeConstants DEF Init
<1>2. tasks \in Seq(TaskState) /\ Len(tasks) <= MaxTasks
    BY IntakeConstants DEF Init
<1>3. \A w \in Workers : HandlerOK(w)
    BY DEF Init, HandlerOK, Stopped
<1> QED
    BY <1>0, <1>1, <1>2, <1>3, IntakeConstants, TypedParts DEF Init

\* The streams, time and crashes.
LEMMA StreamsTyped ==
    ASSUME IntakeTyped,
           \/ Tick
           \/ \E x \in Msgs : Publish(x)
           \/ \E w \in Workers : Crash(w) \/ \E x \in Msgs : Deliver(w, x)
    PROVE  IntakeTyped'
<1> USE TypedParts, IntakeConstants
<1>1. CASE Tick
  <2>1. msg' \in [Msgs -> Message]
      BY <1>1, MessageSteps DEF Tick
  <2>2. /\ run' \in [Workers -> Handler]
        /\ \A w \in Workers : /\ run'[w].at = run[w].at /\ run'[w].msg = run[w].msg
                             /\ run'[w].task = run[w].task
      BY <1>1, HandlerSteps DEF Tick, At
  <2>3. lock' \in [owner : Workers \cup {NoWorker}, left : 0 .. Lease]
      BY <1>1 DEF Tick
  <2>4. \A w \in Workers : HandlerOK(w)'
      BY <1>1, <2>2 DEF Tick, HandlerOK
  <2> QED
      BY <1>1, <2>1, <2>2, <2>3, <2>4 DEF Tick, IntakeTyped, TypeOK, Message, Handler
<1>2. ASSUME NEW x \in Msgs, Publish(x) PROVE IntakeTyped'
  <2>1. msg' \in [Msgs -> Message]
      BY <1>2 DEF Publish, Message
  <2> QED
      BY <1>2, <2>1 DEF Publish, IntakeTyped, TypeOK, HandlerOK, Message, Handler
<1>3. ASSUME NEW w \in Workers, Crash(w) PROVE IntakeTyped'
  <2>1. \A v \in Workers : HandlerOK(v)'
      BY <1>3, StopKeeps DEF Crash, HandlerOK
  <2> QED
      BY <1>3, <2>1, StopKeeps, FailKeeps
      DEF Crash, IntakeTyped, TypeOK, Message, Handler
<1>4. ASSUME NEW w \in Workers, NEW x \in Msgs, Deliver(w, x) PROVE IntakeTyped'
  <2>1. msg' \in [Msgs -> Message]
    <3>1. msg' = [msg EXCEPT ![x] = [msg[x] EXCEPT !.left = @ - 1, !.wait = AckWait]]
        BY <1>4 DEF Deliver
    <3>2. [msg[x] EXCEPT !.left = @ - 1, !.wait = AckWait] \in Message
        BY <1>4, MessageSteps DEF Deliver
    <3> QED
        BY <3>1, <3>2
  <2>2. /\ run' \in [Workers -> Handler]
        /\ run'[w].at \in {"find", "gate"} /\ run'[w].msg = x
        /\ \A v \in Workers \ {w} : run'[v] = run[v]
      BY <1>4 DEF Deliver, Handler, Stopped, Steps
  <2>3. \A v \in Workers : HandlerOK(v)'
      BY <1>4, <2>2 DEF Deliver, HandlerOK
  <2> QED
      BY <1>4, <2>1, <2>2, <2>3 DEF Deliver, IntakeTyped, TypeOK, Message, Handler
<1> QED
    BY <1>1, <1>2, <1>3, <1>4

\* A handler that creates a task.
LEMMA CreatorTyped ==
    ASSUME IntakeTyped, NEW w \in Workers,
           \/ IntakeAllowed(w) \/ LockIntake(w) \/ Lookup(w) \/ CreateTask(w)
           \/ Unlock(w) \/ Acknowledge(w)
    PROVE  IntakeTyped'
<1> USE TypedParts, IntakeConstants
<1>m. run[w].at # "idle" => run[w].msg \in Msgs
    BY DEF HandlerOK
<1>h. ASSUME Stop(w), tasks' = tasks PROVE \A v \in Workers : HandlerOK(v)'
    BY <1>h, StopKeeps DEF HandlerOK
<1>g. ASSUME NEW s \in Steps, Goto(w, s), s \notin {"idle", "load", "write"},
             run[w].at # "idle", DOMAIN tasks \subseteq DOMAIN tasks'
      PROVE  \A v \in Workers : HandlerOK(v)'
    BY <1>g, <1>m, GotoKeeps DEF HandlerOK
<1> USE DEF At, Steps
<1>1. CASE IntakeAllowed(w)
  <2>1. CASE Goto(w, "lock") /\ UNCHANGED msg
      BY <1>1, <2>1, <1>g, GotoKeeps
      DEF IntakeAllowed, IntakeTyped, TypeOK, Message, Handler
  <2>2. CASE Ack(run[w].msg) /\ Stop(w)
      BY <1>1, <2>2, <1>m, <1>h, StopKeeps, AckKeeps
      DEF IntakeAllowed, IntakeTyped, TypeOK, Message, Handler
  <2> QED
      BY <1>1, <2>1, <2>2 DEF IntakeAllowed
<1>2. CASE LockIntake(w)
  <2>0. /\ run[w].at # "idle" /\ tasks' = tasks /\ dispatching' = dispatching
        /\ moves' = moves
      BY <1>2 DEF LockIntake
  <2>1. ASSUME lock' = [owner |-> w, left |-> Lease], Goto(w, "lookup"),
               UNCHANGED <<msg, blind, faults>>
        PROVE  IntakeTyped'
    <3>1. lock' \in [owner : Workers \cup {NoWorker}, left : 0 .. Lease]
        BY <2>1
    <3> QED
        BY <2>0, <2>1, <3>1, <1>g, GotoKeeps DEF IntakeTyped, TypeOK, Message, Handler
  <2>2. ASSUME Nak(run[w].msg, BusyDelay(run[w].msg)), Stop(w),
               UNCHANGED <<lock, blind, faults>>
        PROVE  IntakeTyped'
    <3>1. BusyDelay(run[w].msg) \in Nat
        BY DEF BusyDelay
    <3>2. msg' \in [Msgs -> Message]
        BY <2>0, <2>2, <3>1, <1>m, NakKeeps
    <3> QED
        BY <2>0, <2>2, <3>2, <1>h, StopKeeps DEF IntakeTyped, TypeOK, Message, Handler
  <2>3. ASSUME Fail, blind' = TRUE, Goto(w, "lookup"), UNCHANGED <<lock, msg>>
        PROVE  IntakeTyped'
      BY <2>0, <2>3, <1>g, GotoKeeps, FailKeeps
      DEF IntakeTyped, TypeOK, Message, Handler
  <2> QED
      BY <1>2, <2>1, <2>2, <2>3 DEF LockIntake
<1>3. CASE Lookup(w)
  <2>1. /\ blind' \in BOOLEAN /\ faults' \in 0 .. MaxFaults
        /\ Goto(w, "unlock") \/ Goto(w, "insert")
      BY <1>3, FailKeeps DEF Lookup
  <2> QED
      BY <1>3, <2>1, <1>g, GotoKeeps
      DEF Lookup, IntakeTyped, TypeOK, Message, Handler
<1>4. CASE CreateTask(w)
  <2>0. /\ run[w].at # "idle" /\ dispatching' = dispatching
        /\ moves' = moves /\ blind' = blind
      BY <1>4 DEF CreateTask
  <2>1. ASSUME Len(tasks) < MaxTasks, tasks' = Append(tasks, "pending"),
               Goto(w, "unlock"), UNCHANGED <<msg, lock, faults>>
        PROVE  IntakeTyped'
    <3>1. /\ tasks' \in Seq(TaskState) /\ Len(tasks') <= MaxTasks
          /\ DOMAIN tasks \subseteq DOMAIN tasks'
        BY <2>1, AppendKeeps
    <3> QED
        BY <2>0, <2>1, <3>1, <1>g, GotoKeeps DEF IntakeTyped, TypeOK, Message, Handler
  <2>2. ASSUME Fail, Nak(run[w].msg, 0), lock' = Release(w), Stop(w), tasks' = tasks
        PROVE  IntakeTyped'
    <3>1. msg' \in [Msgs -> Message]
        BY <2>0, <2>2, <1>m, NakKeeps
    <3> QED
        BY <2>0, <2>2, <3>1, <1>h, StopKeeps, FailKeeps, ReleaseKeeps
        DEF IntakeTyped, TypeOK, Message, Handler
  <2> QED
      BY <1>4, <2>1, <2>2 DEF CreateTask
<1>5. CASE Unlock(w)
    BY <1>5, <1>g, GotoKeeps, ReleaseKeeps
    DEF Unlock, IntakeTyped, TypeOK, Message, Handler
<1>6. CASE Acknowledge(w)
    BY <1>6, <1>m, <1>h, StopKeeps, AckKeeps
    DEF Acknowledge, IntakeTyped, TypeOK, Message, Handler
<1> QED
    BY <1>1, <1>2, <1>3, <1>4, <1>5, <1>6
\* A handler that cancels, and the other changes of a task.
LEMMA CancellerTyped ==
    ASSUME IntakeTyped,
           \/ \E w \in Workers : FindTask(w) \/ LoadForCancel(w) \/ WriteCancel(w)
           \/ \E i \in DOMAIN tasks, st \in TaskState : MoveTask(i, st)
    PROVE  IntakeTyped'
<1> USE TypedParts, IntakeConstants
<1>1. ASSUME NEW w \in Workers, FindTask(w) PROVE IntakeTyped'
  <2>m. run[w].msg \in Msgs
      BY <1>1 DEF FindTask, At, HandlerOK
  <2>0. UNCHANGED <<dispatching, lock, tasks, blind, moves>>
      BY <1>1 DEF FindTask
  <2>1. ASSUME Goto(w, "ack"), UNCHANGED <<msg, faults>> PROVE IntakeTyped'
    <3>1. \A v \in Workers : HandlerOK(v)'
        BY <2>0, <2>1, <2>m, GotoKeeps DEF HandlerOK, Steps
    <3> QED
        BY <2>0, <2>1, <3>1, GotoKeeps DEF IntakeTyped, TypeOK, Message, Handler, Steps
  <2>2. ASSUME HasOpenTask, UNCHANGED <<msg, faults>>,
               run' = [run EXCEPT ![w].at = "load", ![w].task = Len(tasks)]
        PROVE  IntakeTyped'
    <3>1. Len(tasks) \in 0 .. MaxTasks /\ Len(tasks) \in DOMAIN tasks
        BY <2>2 DEF HasOpenTask
    <3>2. /\ run' \in [Workers -> Handler]
          /\ run'[w].task = Len(tasks) /\ run'[w].msg = run[w].msg
          /\ \A v \in Workers \ {w} : run'[v] = run[v]
        BY <2>2, <3>1 DEF Handler, Steps
    <3>3. \A v \in Workers : HandlerOK(v)'
        BY <2>0, <2>m, <3>1, <3>2 DEF HandlerOK
    <3> QED
        BY <2>0, <2>2, <3>2, <3>3 DEF IntakeTyped, TypeOK, Message, Handler
  <2>3. ASSUME Fail, Nak(run[w].msg, 0), Stop(w) PROVE IntakeTyped'
    <3>1. \A v \in Workers : HandlerOK(v)'
        BY <2>0, <2>3, StopKeeps DEF HandlerOK
    <3>2. msg' \in [Msgs -> Message]
        BY <2>m, <2>3, NakKeeps
    <3> QED
        BY <2>0, <2>3, <3>1, <3>2, StopKeeps, FailKeeps
        DEF IntakeTyped, TypeOK, Message, Handler
  <2> QED
      BY <1>1, <2>1, <2>2, <2>3 DEF FindTask
<1>2. ASSUME NEW w \in Workers, LoadForCancel(w) PROVE IntakeTyped'
  <2>m. run[w].msg \in Msgs /\ run[w].task \in DOMAIN tasks
      BY <1>2 DEF LoadForCancel, At, HandlerOK
  <2>s. tasks[run[w].task] \in TaskState
      BY <2>m
  <2>0. UNCHANGED <<dispatching, msg, lock, tasks, blind, moves, faults>>
      BY <1>2 DEF LoadForCancel
  <2>1. /\ run' \in [Workers -> Handler]
        /\ run'[w].task = run[w].task /\ run'[w].msg = run[w].msg
        /\ \A v \in Workers \ {w} : run'[v] = run[v]
    <3>1. CASE Goto(w, "ack")
        BY <3>1, GotoKeeps DEF Steps
    <3>2. CASE run' = [run EXCEPT ![w].at = "write", ![w].seen = tasks[run[w].task]]
        BY <2>s, <3>2 DEF Handler, Steps
    <3> QED
        BY <1>2, <3>1, <3>2 DEF LoadForCancel
  <2>2. \A v \in Workers : HandlerOK(v)'
      BY <2>0, <2>1, <2>m DEF HandlerOK
  <2> QED
      BY <2>0, <2>1, <2>2 DEF IntakeTyped, TypeOK, Message, Handler
<1>3. ASSUME NEW w \in Workers, WriteCancel(w) PROVE IntakeTyped'
  <2>m. run[w].msg \in Msgs /\ run[w].task \in DOMAIN tasks
      BY <1>3 DEF WriteCancel, At, HandlerOK
  <2>0. UNCHANGED <<dispatching, lock, blind, moves, faults>>
      BY <1>3 DEF WriteCancel
  <2>1. ASSUME tasks' = [tasks EXCEPT ![run[w].task] = "closed"], Goto(w, "ack"), msg' = msg
        PROVE  IntakeTyped'
    <3>1. /\ tasks' \in Seq(TaskState) /\ Len(tasks') = Len(tasks)
          /\ DOMAIN tasks' = DOMAIN tasks
        BY <2>1, <2>m, WriteKeeps DEF TaskState
    <3>2. \A v \in Workers : HandlerOK(v)'
        BY <2>1, <2>m, <3>1, GotoKeeps DEF HandlerOK, Steps
    <3> QED
        BY <2>0, <2>1, <3>1, <3>2, GotoKeeps
        DEF IntakeTyped, TypeOK, Message, Handler, Steps
  <2>2. ASSUME Nak(run[w].msg, 0), Stop(w), tasks' = tasks PROVE IntakeTyped'
    <3>1. \A v \in Workers : HandlerOK(v)'
        BY <2>2, StopKeeps DEF HandlerOK
    <3>2. msg' \in [Msgs -> Message]
        BY <2>m, <2>2, NakKeeps
    <3> QED
        BY <2>0, <2>2, <3>1, <3>2, StopKeeps DEF IntakeTyped, TypeOK, Message, Handler
  <2> QED
      BY <1>3, <2>1, <2>2 DEF WriteCancel, OnTaskChanged
<1>4. ASSUME NEW i \in DOMAIN tasks, NEW st \in TaskState, MoveTask(i, st)
      PROVE  IntakeTyped'
  <2>0. /\ UNCHANGED <<dispatching, msg, lock, run, blind, faults>>
        /\ tasks' = [tasks EXCEPT ![i] = st] /\ moves' \in 0 .. MaxMoves
      BY <1>4 DEF MoveTask
  <2>1. /\ tasks' \in Seq(TaskState) /\ Len(tasks') = Len(tasks)
        /\ DOMAIN tasks' = DOMAIN tasks
      BY <2>0, WriteKeeps
  <2>2. \A v \in Workers : HandlerOK(v)'
      BY <2>0, <2>1 DEF HandlerOK
  <2> QED
      BY <2>0, <2>1, <2>2 DEF IntakeTyped, TypeOK, Message, Handler
<1> QED
    BY <1>1, <1>2, <1>3, <1>4

LEMMA TypedStep == IntakeTyped /\ [Next]_vars => IntakeTyped'
<1> SUFFICES ASSUME IntakeTyped, [Next]_vars PROVE IntakeTyped'
    OBVIOUS
<1>1. CASE UNCHANGED vars
    BY <1>1 DEF vars, IntakeTyped, TypeOK, HandlerOK
<1>2. CASE Next
    BY <1>2, StreamsTyped, CreatorTyped, CancellerTyped DEF Next, Progress
<1> QED
    BY <1>1, <1>2
\* The type invariant, with the bound on tasks.
THEOREM TypeCorrect == Spec => []TypeOK
<1>1. IntakeTyped => TypeOK
    BY DEF IntakeTyped
<1> QED
    BY <1>1, TypedInit, TypedStep, PTL DEF Spec

-----------------------------------------------------------------------------
(* One open task *)

LEMMA OneIntakeInit == Init => OneIntake
BY DEF Init, OneIntake, Holding, At, Stopped, OldOnesClosed

\* Nothing of what OneIntake says of a handler that does not hold the lease.
LEMMA OnlyOneHolds ==
    ASSUME OneIntake, NEW v \in Workers, NEW w \in Workers, Holding(v), Holding(w)
    PROVE  v = w
BY DEF OneIntake, Leased

\* A step that changes neither the lease nor the tasks, and starts nobody
\* between the lease and the insert, keeps what OneIntake says.
LEMMA QuietStep ==
    ASSUME OneIntake, UNCHANGED <<lock, tasks>>,
           \A w \in Workers :
              \/ run'[w].at \notin {"lookup", "insert", "unlock"}
              \/ run'[w] = run[w]
    PROVE  OneIntake'
BY DEF OneIntake, Holding, Leased, At, OldOnesClosed, OpenTasks

\* With OldOnesClosed, an open task is the newest.
LEMMA OpenIsNewest ==
    ASSUME IntakeTyped, OldOnesClosed
    PROVE  /\ OpenTasks # {} => HasOpenTask
           /\ tasks = <<>> => OpenTasks = {}
BY TypedParts DEF OldOnesClosed, OpenTasks, HasOpenTask, Newest

\* The lease of a handler that has not reached its end outlasts the next tick.
LEMMA TickKeeps ==
    ASSUME IntakeTyped, OneIntake, Tick PROVE OneIntake'
<1>1. \A w \in Workers : run'[w].at = run[w].at
    BY TypedParts DEF Tick, Handler, At
<1>2. ASSUME NEW w \in Workers, Holding(w) PROVE Leased(w)'
  <2>1. /\ lock.owner = w /\ lock.left + run[w].age >= Lease /\ run[w].age < MaxRun
      BY <1>2 DEF OneIntake, Leased, Tick, Holding, At
  <2>2. lock.left \in Nat /\ run[w].age \in Nat
      BY TypedParts, IntakeConstants DEF Handler
  <2>3. lock.left > 1
      BY <2>1, <2>2, IntakeConstants
  <2>4. lock'.owner = w /\ lock'.left = lock.left - 1
      BY <2>1, <2>3, TypedParts DEF Tick
  <2>5. run'[w].age = run[w].age + 1
      BY <1>2, TypedParts DEF Tick, At, Holding, Handler
  <2> QED
      BY <2>1, <2>2, <2>4, <2>5, IntakeConstants DEF Leased
<1> QED
    BY <1>1, <1>2 DEF Tick, OneIntake, Holding, At, OldOnesClosed, OpenTasks

LEMMA CreatorKeeps ==
    ASSUME IntakeTyped, OneIntake, ~blind', NEW w \in Workers,
           \/ IntakeAllowed(w) \/ LockIntake(w) \/ Lookup(w) \/ CreateTask(w)
           \/ Unlock(w) \/ Acknowledge(w)
    PROVE  OneIntake'
<1> USE TypedParts
<1>s. ASSUME Stop(w), UNCHANGED <<lock, tasks>> PROVE OneIntake'
    BY <1>s, StopKeeps, QuietStep
<1>g. ASSUME NEW s \in {"lock", "ack"}, Goto(w, s), UNCHANGED <<lock, tasks>>
      PROVE  OneIntake'
    BY <1>g, GotoKeeps, QuietStep DEF Steps
<1>r. ASSUME \/ Stop(w) \/ Goto(w, "ack"), Holding(w), lock' = Release(w), tasks' = tasks
      PROVE  OneIntake'
  <2>1. run'[w].at \in {"idle", "ack"} /\ \A v \in Workers \ {w} : run'[v] = run[v]
      BY <1>r, StopKeeps, GotoKeeps DEF Steps
  <2>2. \A v \in Workers \ {w} : ~Holding(v)
      BY <1>r, OnlyOneHolds
  <2> QED
      BY <1>r, <2>1, <2>2 DEF OneIntake, Holding, At, OldOnesClosed, OpenTasks
<1>1. CASE IntakeAllowed(w)
    BY <1>1, <1>s, <1>g DEF IntakeAllowed
<1>2. CASE LockIntake(w)
  <2>1. ASSUME LeaseFree(w), lock' = [owner |-> w, left |-> Lease], Goto(w, "lookup")
        PROVE  OneIntake'
    <3>1. \A v \in Workers : ~Holding(v)
        BY <2>1, IntakeConstants DEF LeaseFree, Free, OneIntake, Leased
    <3>2. /\ run'[w].at = "lookup" /\ run'[w].age \in Nat
          /\ \A v \in Workers \ {w} : run'[v] = run[v]
        BY <2>1, GotoKeeps, IntakeConstants DEF Steps, Handler
    <3>3. Leased(w)'
        BY <2>1, <3>2, IntakeConstants DEF Leased
    <3>4. tasks' = tasks
        BY <1>2 DEF LockIntake
    <3> QED
        BY <3>1, <3>2, <3>3, <3>4 DEF OneIntake, Holding, At, OldOnesClosed, OpenTasks
  <2> QED
      BY <1>2, <2>1, <1>s DEF LockIntake
<1>3. CASE Lookup(w)
  <2>0. Holding(w) /\ UNCHANGED <<lock, tasks>>
      BY <1>3 DEF Lookup, Holding, At
  <2>1. /\ Goto(w, "unlock") \/ (Goto(w, "insert") /\ ~AlreadyThere(run[w].msg))
      BY <1>3 DEF Lookup
  <2>2. /\ run'[w].at \in {"unlock", "insert"} /\ run'[w].age = run[w].age
        /\ \A v \in Workers \ {w} : run'[v] = run[v]
      BY <2>1, GotoKeeps DEF Steps
  <2>3. Leased(w)'
      BY <2>0, <2>2 DEF OneIntake, Leased
  <2>4. run'[w].at = "insert" => OpenTasks = {}
      BY <2>1, GotoKeeps, OpenIsNewest DEF Steps, AlreadyThere, OneIntake, HasOpenTask
  <2> QED
      BY <2>0, <2>2, <2>3, <2>4 DEF OneIntake, Holding, Leased, At, OldOnesClosed, OpenTasks
<1>4. CASE CreateTask(w)
  <2>0. Holding(w) /\ OpenTasks = {}
      BY <1>4 DEF CreateTask, Holding, At, OneIntake
  <2>1. ASSUME tasks' = Append(tasks, "pending"), Goto(w, "unlock"), lock' = lock
        PROVE  OneIntake'
    <3>1. /\ run'[w].at = "unlock" /\ run'[w].age = run[w].age
          /\ \A v \in Workers \ {w} : run'[v] = run[v] /\ ~Holding(v)
        BY <2>0, <2>1, GotoKeeps, OnlyOneHolds DEF Steps
    <3>2. OldOnesClosed'
        BY <2>0, <2>1, AppendKeeps DEF OldOnesClosed, OpenTasks
    <3> QED
        BY <2>0, <2>1, <3>1, <3>2 DEF OneIntake, Holding, Leased, At
  <2> QED
      BY <1>4, <1>r, <2>0, <2>1 DEF CreateTask
<1>5. CASE Unlock(w)
    BY <1>5, <1>r DEF Unlock, Holding, At
<1>6. CASE Acknowledge(w)
    BY <1>6, <1>s DEF Acknowledge
<1> QED
    BY <1>1, <1>2, <1>3, <1>4, <1>5, <1>6

\* A task that was closed stays so, and no task is open while one is inserted.
LEMMA WriterKeeps ==
    ASSUME IntakeTyped, OneIntake, NEW i \in DOMAIN tasks, NEW st \in TaskState,
           tasks' = [tasks EXCEPT ![i] = st], st = "closed" \/ Open(tasks[i]),
           lock' = lock,
           \A w \in Workers :
              \/ run'[w].at \notin {"lookup", "insert", "unlock"}
              \/ run'[w] = run[w]
    PROVE  OneIntake'
<1>1. /\ DOMAIN tasks' = DOMAIN tasks /\ Len(tasks') = Len(tasks)
      /\ tasks'[i] = st /\ \A j \in DOMAIN tasks : j # i => tasks'[j] = tasks[j]
    BY TypedParts, WriteKeeps
<1>2. OpenTasks' \subseteq OpenTasks
    BY <1>1 DEF OpenTasks, Open
<1>3. OldOnesClosed'
    BY <1>1, <1>2 DEF OneIntake, OldOnesClosed, OpenTasks
<1> QED
    BY <1>2, <1>3 DEF OneIntake, Holding, Leased, At

LEMMA OneIntakeStep ==
    ASSUME IntakeTyped, OneIntake, [Next]_vars, ~blind' PROVE OneIntake'
<1> USE TypedParts
<1>1. CASE UNCHANGED vars
    BY <1>1 DEF vars, OneIntake, Holding, Leased, At, OldOnesClosed, OpenTasks
<1>2. CASE \E x \in Msgs : Publish(x)
    BY <1>2, QuietStep DEF Publish
<1>3. ASSUME NEW w \in Workers, Crash(w) PROVE OneIntake'
    BY <1>3, StopKeeps, QuietStep DEF Crash
<1>4. ASSUME NEW w \in Workers, NEW x \in Msgs, Deliver(w, x) PROVE OneIntake'
  <2>1. run'[w].at \in {"find", "gate"} /\ \A v \in Workers \ {w} : run'[v] = run[v]
      BY <1>4 DEF Deliver, Stopped
  <2> QED
      BY <1>4, <2>1, QuietStep DEF Deliver
<1>5. ASSUME NEW w \in Workers, FindTask(w) PROVE OneIntake'
  <2>1. run'[w].at \in {"ack", "load", "idle"} /\ \A v \in Workers \ {w} : run'[v] = run[v]
    <3>1. CASE run' = [run EXCEPT ![w].at = "load", ![w].task = Len(tasks)]
        BY <3>1 DEF Handler
    <3> QED
        BY <1>5, <3>1, GotoKeeps, StopKeeps DEF FindTask, Steps
  <2> QED
      BY <1>5, <2>1, QuietStep DEF FindTask
<1>6. ASSUME NEW w \in Workers, LoadForCancel(w) PROVE OneIntake'
  <2>1. run'[w].at \in {"ack", "write"} /\ \A v \in Workers \ {w} : run'[v] = run[v]
    <3>1. CASE run' = [run EXCEPT ![w].at = "write", ![w].seen = tasks[run[w].task]]
        BY <3>1 DEF Handler
    <3> QED
        BY <1>6, <3>1, GotoKeeps DEF LoadForCancel, Steps
  <2> QED
      BY <1>6, <2>1, QuietStep DEF LoadForCancel
<1>7. ASSUME NEW w \in Workers, WriteCancel(w) PROVE OneIntake'
  <2>1. /\ run'[w].at \in {"ack", "idle"} /\ \A v \in Workers \ {w} : run'[v] = run[v]
        /\ lock' = lock
      BY <1>7, GotoKeeps, StopKeeps DEF WriteCancel, Steps
  <2>2. run[w].task \in DOMAIN tasks
      BY <1>7 DEF WriteCancel, At, HandlerOK
  <2>3. CASE tasks' = tasks
      BY <2>1, <2>3, QuietStep
  <2>4. CASE tasks' = [tasks EXCEPT ![run[w].task] = "closed"]
      BY <2>1, <2>2, <2>4, WriterKeeps DEF TaskState
  <2> QED
      BY <1>7, <2>3, <2>4 DEF WriteCancel
<1>8. ASSUME NEW i \in DOMAIN tasks, NEW st \in TaskState, MoveTask(i, st) PROVE OneIntake'
    BY <1>8, WriterKeeps DEF MoveTask
<1> QED
    BY <1>1, <1>2, <1>3, <1>4, <1>5, <1>6, <1>7, <1>8, TickKeeps, CreatorKeeps
    DEF Next, Progress

\* Without a failure of Redis or of the lookup, a step keeps the invariant.
LEMMA IntakeInvStep == IntakeInv /\ [Next]_vars => IntakeInv'
<1>1. ASSUME [Next]_vars, ~blind' PROVE blind' = blind \/ ~blind
    BY <1>1 DEF Next, Progress, vars, Tick, Publish, Crash, Deliver, IntakeAllowed,
        LockIntake, Lookup, CreateTask, Unlock, Acknowledge, FindTask, LoadForCancel,
        WriteCancel, MoveTask
<1> QED
    BY <1>1, TypedStep, OneIntakeStep DEF IntakeInv

\* OneOpenTask: redelivered, retried, crashed or doubled, the messages of a
\* reference leave it at most one open task, unless Redis or the lookup failed.
THEOREM OneTaskPerReference == Spec => []OneOpenTask
<1>1. IntakeInv => OneOpenTask
  <2> SUFFICES ASSUME IntakeInv, ~blind PROVE Cardinality(OpenTasks) <= 1
      BY DEF OneOpenTask
  <2>1. OpenTasks \subseteq {Len(tasks)}
      BY DEF IntakeInv, OneIntake, OldOnesClosed, OpenTasks
  <2>2. IsFiniteSet({Len(tasks)}) /\ Cardinality({Len(tasks)}) = 1
      BY FS_Singleton
  <2> QED
      BY <2>1, <2>2, FS_Subset
<1>2. Init => IntakeInv
    BY TypedInit, OneIntakeInit DEF IntakeInv
<1> QED
    BY <1>1, <1>2, IntakeInvStep, PTL DEF Spec
=============================================================================
