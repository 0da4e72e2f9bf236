----------------------------- MODULE TaskIntake -----------------------------
(***************************************************************************)
(* How an upstream reference (an order, a transfer) becomes a task, once:  *)
(* the order-ready, transfer and order-cancelled consumers on JetStream,   *)
(* the intake lease in Redis, and the lookup and insert in the database.   *)
(*                                                                         *)
(* Messages are delivered at least once: a message that is not acknowledged*)
(* comes back after AckWait, a refused one after its delay, MaxDeliver     *)
(* times in all. Time is counted in steps of the consumer's retry delay;   *)
(* timers count down. References share no state, so one is modelled, and a *)
(* task is pending, working (a rider has it) or closed (terminal).         *)
(***************************************************************************)
EXTENDS Naturals, Sequences, FiniteSets

CONSTANTS
    Workers,        \* consumer handlers that can run together, on any replica
    NoWorker,
    Ready,          \* ordering.order.ready messages for the reference
    Create,         \* CreateTask requests: inventory.transfer.created messages,
                    \* or another service's calls, which it retries
    Cancel,         \* ordering.order.cancelled messages
    NoMsg,
    Crashing,       \* messages whose handlers may be stopped half way
    MaxDeliver,     \* nats.MaxDeliver
    AckWait,        \* nats.AckWait
    Lease,          \* the expiry of the intake lease
    NakDelay,       \* NakWithDelay when the lease is taken
    MaxRun,         \* bound: how long a handler runs
    MaxTasks,       \* bound: tasks created for the reference
    MaxMoves,       \* bound: changes of a task by other handlers
    MaxFaults       \* bound: failures and crashes

Msgs == Ready \cup Create \cup Cancel

ASSUME IntakeAssumption ==
    /\ {MaxDeliver, AckWait, Lease, NakDelay, MaxRun, MaxTasks, MaxMoves, MaxFaults} \subseteq Nat
    /\ NoWorker \notin Workers
    /\ NoMsg \notin Msgs
    /\ Crashing \subseteq Msgs
    /\ MaxRun < Lease
    /\ MaxRun < AckWait

VARIABLES
    dispatching,    \* the plan includes logistics and the tenant has riders
    msg,            \* the messages in their streams
    lock,           \* the intake lease of the reference
    tasks,          \* statuses of the reference's tasks, oldest first
    run,            \* the handler each worker is running
    blind,          \* a handler went on without the lease or the lookup
    moves, faults   \* how much of the bounds is used

vars == <<dispatching, msg, lock, tasks, run, blind, moves, faults>>

-----------------------------------------------------------------------------
(* State *)

TaskState == {"pending", "working", "closed"}

Steps == {"idle", "gate", "lock", "lookup", "insert", "unlock", "find", "load",
          "write", "ack"}

\* at: the handler's next step; msg: its message; task, seen: the task it is
\* cancelling and the status it read; age: how long it has run.
Stopped == [at |-> "idle", msg |-> NoMsg, task |-> 0, seen |-> "none", age |-> 0]

Free == [owner |-> NoWorker, left |-> 0]

TypeOK ==
    /\ dispatching \in BOOLEAN
    /\ msg \in [Msgs -> [state : {"unsent", "queued", "settled"},
                         left : 0 .. MaxDeliver, wait : Nat]]
    /\ lock \in [owner : Workers \cup {NoWorker}, left : 0 .. Lease]
    /\ tasks \in Seq(TaskState)
    /\ run \in [Workers -> [at : Steps, msg : Msgs \cup {NoMsg}, task : 0 .. MaxTasks,
                            seen : TaskState \cup {"none"}, age : 0 .. MaxRun]]
    /\ blind \in BOOLEAN
    /\ moves \in 0 .. MaxMoves
    /\ faults \in 0 .. MaxFaults

Init ==
    /\ dispatching \in BOOLEAN
    /\ msg = [x \in Msgs |-> [state |-> "unsent", left |-> MaxDeliver, wait |-> 0]]
    /\ lock = Free
    /\ tasks = <<>>
    /\ run = [w \in Workers |-> Stopped]
    /\ blind = FALSE
    /\ moves = 0
    /\ faults = 0

Open(st) == st # "closed"

OpenTasks == {i \in DOMAIN tasks : Open(tasks[i])}

\* FindTaskByReference: the newest task.
Newest == tasks[Len(tasks)]

\* The newest task exists and is not terminal.
HasOpenTask == tasks # <<>> /\ Open(Newest)

At(w, step) == run[w].at = step

Goto(w, step) == run' = [run EXCEPT ![w].at = step]

Stop(w) == run' = [run EXCEPT ![w] = Stopped]

MayFail == faults < MaxFaults

Fail == MayFail /\ faults' = faults + 1

Ack(x) == msg' = [msg EXCEPT ![x] = [state |-> "settled", left |-> 0, wait |-> 0]]

\* Nak comes back at once, NakWithDelay after a delay, if deliveries are left.
Nak(x, delay) == msg' = [msg EXCEPT ![x].wait = delay]

\* lock.Release compares the token: only the owner's lease is released.
Release(w) == IF lock.owner = w THEN Free ELSE lock

-----------------------------------------------------------------------------
(* The streams *)

\* An upstream service publishes. Ordering cancels an order it announced.
Publish(x) ==
    /\ msg[x].state = "unsent"
    /\ x \in Cancel => \E r \in Ready : msg[r].state # "unsent"
    /\ msg' = [msg EXCEPT ![x].state = "queued"]
    /\ UNCHANGED <<dispatching, lock, tasks, run, blind, moves, faults>>

\* JetStream hands a message to a handler, again if it was not acknowledged.
Deliver(w, x) ==
    /\ At(w, "idle")
    /\ msg[x].state = "queued"
    /\ msg[x].wait = 0
    /\ msg[x].left > 0
    /\ msg' = [msg EXCEPT ![x].left = @ - 1, ![x].wait = AckWait]
    /\ run' = [run EXCEPT ![w] = [Stopped EXCEPT
                  !.at = IF x \in Cancel THEN "find" ELSE "gate", !.msg = x]]
    /\ UNCHANGED <<dispatching, lock, tasks, blind, moves, faults>>

CountDown(n) == IF n > 0 THEN n - 1 ELSE 0

\* Time passes for every timer. A handler ends within MaxRun.
Tick ==
    /\ \/ lock.left > 0
       \/ \E x \in Msgs : msg[x].state = "queued" /\ msg[x].wait > 0
    /\ \A w \in Workers : ~At(w, "idle") => run[w].age < MaxRun
    /\ lock' = IF lock.left <= 1 THEN Free ELSE [lock EXCEPT !.left = @ - 1]
    /\ msg' = [x \in Msgs |-> [msg[x] EXCEPT !.wait = CountDown(@)]]
    /\ run' = [w \in Workers |-> IF At(w, "idle") THEN run[w] ELSE [run[w] EXCEPT !.age = @ + 1]]
    /\ UNCHANGED <<dispatching, tasks, blind, moves, faults>>

\* The process stops. The lease stays until it expires.
Crash(w) ==
    /\ run[w].msg \in Crashing
    /\ Fail
    /\ Stop(w)
    /\ UNCHANGED <<dispatching, msg, lock, tasks, blind, moves>>

-----------------------------------------------------------------------------
(* Creating the task *)

\* intakeAllowed: no logistics in the plan or no riders is acknowledged.
IntakeAllowed(w) ==
    /\ At(w, "gate")
    /\ \/ dispatching /\ Goto(w, "lock") /\ UNCHANGED msg
       \/ ~dispatching /\ Ack(run[w].msg) /\ Stop(w)
    /\ UNCHANGED <<dispatching, lock, tasks, blind, moves, faults>>

\* A variant that takes the lease without looking whether it is taken.
LeaseAlways(w) == TRUE

\* TryLock succeeds: nobody holds the lease.
LeaseFree(w) == lock = Free

\* A variant that sends every busy message back at once.
NoBusyDelay(x) == 0

\* A busy order-ready message comes back after a delay, a transfer at once.
BusyDelay(x) == IF x \in Ready THEN NakDelay ELSE 0

\* lockIntake: the lease, ErrIntakeBusy, or no lock when Redis fails.
LockIntake(w) ==
    /\ At(w, "lock")
    /\ \/ /\ LeaseFree(w)
          /\ lock' = [owner |-> w, left |-> Lease]
          /\ Goto(w, "lookup")
          /\ UNCHANGED <<msg, blind, faults>>
       \/ /\ ~LeaseFree(w)
          /\ Nak(run[w].msg, BusyDelay(run[w].msg))
          /\ Stop(w)
          /\ UNCHANGED <<lock, blind, faults>>
       \/ /\ Fail
          /\ blind' = TRUE
          /\ Goto(w, "lookup")
          /\ UNCHANGED <<lock, msg>>
    /\ UNCHANGED <<dispatching, tasks, moves>>

\* The lookup ends the intake: an order with any task at all, a CreateTask
\* request whose newest task is open.
AlreadyThere(x) ==
    /\ tasks # <<>>
    /\ x \in Ready \/ HasOpenTask

\* The lookup. Its error is ignored: the handler goes on to create.
Lookup(w) ==
    /\ At(w, "lookup")
    /\ \/ /\ AlreadyThere(run[w].msg)
          /\ Goto(w, "unlock")
          /\ UNCHANGED <<blind, faults>>
       \/ /\ ~AlreadyThere(run[w].msg)
          /\ Goto(w, "insert")
          /\ UNCHANGED <<blind, faults>>
       \/ /\ Fail
          /\ blind' = TRUE
          /\ Goto(w, "insert")
    /\ UNCHANGED <<dispatching, msg, lock, tasks, moves>>

\* createTask: the new task, or an error that sends the message back.
CreateTask(w) ==
    /\ At(w, "insert")
    /\ \/ /\ Len(tasks) < MaxTasks
          /\ tasks' = Append(tasks, "pending")
          /\ Goto(w, "unlock")
          /\ UNCHANGED <<msg, lock, faults>>
       \/ /\ Fail
          /\ Nak(run[w].msg, 0)
          /\ lock' = Release(w)
          /\ Stop(w)
          /\ UNCHANGED tasks
    /\ UNCHANGED <<dispatching, blind, moves>>

\* The deferred unlock, then the acknowledgement.
Unlock(w) ==
    /\ At(w, "unlock")
    /\ lock' = Release(w)
    /\ Goto(w, "ack")
    /\ UNCHANGED <<dispatching, msg, tasks, blind, moves, faults>>

Acknowledge(w) ==
    /\ At(w, "ack")
    /\ Ack(run[w].msg)
    /\ Stop(w)
    /\ UNCHANGED <<dispatching, lock, tasks, blind, moves, faults>>

-----------------------------------------------------------------------------
(* Cancelling with the order *)

\* The cancel consumer looks for the task: none, or a closed one, is settled.
FindTask(w) ==
    /\ At(w, "find")
    /\ \/ /\ ~HasOpenTask
          /\ Goto(w, "ack")
          /\ UNCHANGED <<msg, faults>>
       \/ /\ HasOpenTask
          /\ run' = [run EXCEPT ![w].at = "load", ![w].task = Len(tasks)]
          /\ UNCHANGED <<msg, faults>>
       \/ /\ Fail
          /\ Nak(run[w].msg, 0)
          /\ Stop(w)
    /\ UNCHANGED <<dispatching, lock, tasks, blind, moves>>

\* CancelTask reads the task found; ErrTaskClosed is settled.
LoadForCancel(w) ==
    /\ At(w, "load")
    /\ LET st == tasks[run[w].task]
       IN  \/ Open(st) /\ run' = [run EXCEPT ![w].at = "write", ![w].seen = st]
           \/ ~Open(st) /\ Goto(w, "ack")
    /\ UNCHANGED <<dispatching, msg, lock, tasks, blind, moves, faults>>

\* task.StatusEQ(t.Status)
StatusEQ(w) == tasks[run[w].task] = run[w].seen

\* A variant that takes a lost race for a closed task.
SettleOnRace(x) == Ack(x)

\* ErrTaskChanged sends the message back.
OnTaskChanged(x) == Nak(x, 0)

\* CancelTask's conditional update.
WriteCancel(w) ==
    /\ At(w, "write")
    /\ \/ /\ StatusEQ(w)
          /\ tasks' = [tasks EXCEPT ![run[w].task] = "closed"]
          /\ Goto(w, "ack")
          /\ UNCHANGED msg
       \/ /\ ~StatusEQ(w)
          /\ OnTaskChanged(run[w].msg)
          /\ Stop(w)
          /\ UNCHANGED tasks
    /\ UNCHANGED <<dispatching, lock, blind, moves, faults>>

\* Riders and dispatchers work the task: TaskLifecycle, seen from here.
MoveTask(i, st) ==
    /\ moves < MaxMoves
    /\ Open(tasks[i])
    /\ st # tasks[i]
    /\ tasks' = [tasks EXCEPT ![i] = st]
    /\ moves' = moves + 1
    /\ UNCHANGED <<dispatching, msg, lock, run, blind, faults>>

-----------------------------------------------------------------------------
\* The steps that are sure to come: deliveries, time and running handlers.
Progress ==
    \/ Tick
    \/ \E w \in Workers :
          \/ \E x \in Msgs : Deliver(w, x)
          \/ IntakeAllowed(w)
          \/ LockIntake(w)
          \/ Lookup(w)
          \/ CreateTask(w)
          \/ Unlock(w)
          \/ Acknowledge(w)
          \/ FindTask(w)
          \/ LoadForCancel(w)
          \/ WriteCancel(w)

Next ==
    \/ Progress
    \/ \E x \in Msgs : Publish(x)
    \/ \E w \in Workers : Crash(w)
    \/ \E i \in DOMAIN tasks, st \in TaskState : MoveTask(i, st)

Spec == Init /\ [][Next]_vars /\ WF_vars(Progress)

-----------------------------------------------------------------------------
(* Properties *)

\* However often a reference arrives, at once or again after a crash or a
\* failed insert, it has at most one open task, unless Redis or the lookup
\* failed and the handler went on all the same.
OneOpenTask == ~blind => Cardinality(OpenTasks) <= 1

\* An order announced by ordering.order.ready gets its task: no order of lease,
\* redelivery and failure lets every message of it run out of deliveries first.
OrderDispatched ==
    \A x \in Ready : dispatching /\ msg[x].state = "queued" ~> tasks # <<>>

\* "event consumers redeliver later and then find the task" (service.go:326),
\* for a transfer. Its consumer sends a busy message back without a delay.
TransferDispatched ==
    \A x \in Create : dispatching /\ msg[x].state = "queued" ~> tasks # <<>>

\* A cancellation that is still to be looked at when the order has its task
\* closes that task, however the handlers race.
CancelClosesTask ==
    \A x \in Cancel :
        /\ msg[x].state = "queued"
        /\ tasks # <<>>
        /\ \A w \in Workers : run[w].msg # x
        ~> OpenTasks = {} \/ blind

-----------------------------------------------------------------------------
(* Why there is one open task *)

\* A handler about to look, to insert or to unlock; and what one knows that is
\* about to load or to write the task it found.
Holding(w) == run[w].at \in {"lookup", "insert", "unlock"}

HandlerOK(w) ==
    /\ run[w].at # "idle" => run[w].msg \in Msgs
    /\ run[w].at \in {"load", "write"} => run[w].task \in DOMAIN tasks

IntakeTyped ==
    /\ TypeOK
    /\ Len(tasks) <= MaxTasks
    /\ \A w \in Workers : HandlerOK(w)

\* The lease outlives the handler that took it, which saw every task closed before
\* it inserts, and so only the newest task may be open.
Leased(w) ==
    /\ lock.owner = w
    /\ lock.left + run[w].age >= Lease

OldOnesClosed == \A i \in DOMAIN tasks : Open(tasks[i]) => i = Len(tasks)

OneIntake ==
    /\ \A w \in Workers : Holding(w) => Leased(w)
    /\ \A w \in Workers : At(w, "insert") => OpenTasks = {}
    /\ OldOnesClosed

IntakeInv == IntakeTyped /\ (~blind => OneIntake)
=============================================================================
