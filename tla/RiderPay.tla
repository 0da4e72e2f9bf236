------------------------------ MODULE RiderPay ------------------------------
(***************************************************************************)
(* How a rider's deliveries become money: billing events, the earnings     *)
(* statement of a UTC day, written by the daily job on any replica or when *)
(* a manager asks for it, and its settlement through treasury.             *)
(*                                                                         *)
(* Riders share no rows, so one rider of one tenant is modelled. Every     *)
(* event pays one unit. ClaimPeriod and treasury are outside this          *)
(* repository and are modelled from how it uses them: a period is claimed  *)
(* once, and a disbursement is paid and answered, refused, or paid with    *)
(* the answer lost on the way.                                             *)
(***************************************************************************)
EXTENDS Integers, FiniteSets, Functions

CONSTANTS
    Replicas,       \* processes, each with its statement job
    Requests,       \* requests that can be in flight together
    MaxStmts,       \* bound: rows of earnings_statements
    MaxDay,         \* bound: the last UTC day
    MaxEarned,      \* bound: deliveries of the rider
    MaxByHand,      \* bound: statement runs a manager asks for
    Faults          \* "stop": a job run or a request stops half way,
                    \* "answer": treasury's answer may be lost,
                    \* "claims": Redis may lose the claims of finished runs

ASSUME PayAssumption ==
    /\ Replicas \cap Requests = {}
    /\ IsFiniteSet(Replicas) /\ IsFiniteSet(Requests)
    /\ MaxStmts \in Nat
    /\ MaxDay \in Nat \ {0}
    /\ MaxEarned \in Nat
    /\ MaxByHand \in Nat
    /\ Faults \subseteq {"stop", "answer", "claims"}

VARIABLES
    day,        \* the current UTC day
    earned,     \* billing events of each day
    period,     \* days whose job run was claimed
    stmts,      \* earnings_statements
    paid,       \* what treasury paid on each statement's reference
    answered,   \* statements of which no answer was lost
    byHand,     \* statement runs asked for so far
    odd,        \* days with an earning saved after midnight, a job run that
                \* stopped, or statements asked for before the day was over
    doubled,    \* days two runs worked on at the same time
    call        \* what each job and each request is doing

vars == <<day, earned, period, stmts, paid, answered, byHand, odd, doubled, call>>

-----------------------------------------------------------------------------
(* State *)

Days == 0 .. MaxDay

Workers == Replicas \cup Requests

\* Statements, in the order they are written.
StmtId == 1 .. MaxStmts

Statuses == {"draft", "processing"}

NoStmt == [day |-> 0, amount |-> 0, status |-> "none"]

Steps == {"idle", "earn", "sum", "exists", "insert", "claim", "disburse", "release",
          "record"}

\* day, amount: the day a run writes statements for, and the sum it read, or the
\* day of an earning; stmt: the statement a request settles.
Idle == [at |-> "idle", day |-> 0, amount |-> 0, stmt |-> {}]

TypeOK ==
    /\ day \in Days
    /\ earned \in [Days -> 0 .. MaxEarned]
    /\ period \subseteq Days
    /\ stmts \in [StmtId -> [day : Days, amount : 0 .. MaxEarned,
                             status : Statuses \cup {"none"}]]
    /\ paid \in [StmtId -> Nat]
    /\ answered \subseteq StmtId
    /\ byHand \in 0 .. MaxByHand
    /\ odd \subseteq Days
    /\ doubled \subseteq Days
    /\ call \in [Workers -> [at : Steps, day : Days, amount : 0 .. MaxEarned,
                             stmt : {{}} \cup {{s} : s \in StmtId}]]

\* Day 0 is the day before the first run.
Init ==
    /\ day = 0
    /\ earned = [d \in Days |-> 0]
    /\ period = {}
    /\ stmts = [s \in StmtId |-> NoStmt]
    /\ paid = [s \in StmtId |-> 0]
    /\ answered = StmtId
    /\ byHand = 0
    /\ odd = {}
    /\ doubled = {}
    /\ call = [w \in Workers |-> Idle]

Goto(w, c) == call' = [call EXCEPT ![w] = c]

At(w, step) == call[w].at = step

Sum(f) == FoldFunction(+, 0, f)

\* Earnings that are stamped and about to be saved.
Saving == {v \in Workers : At(v, "earn")}

JobSteps == {"sum", "exists", "insert"}

Stated(d) == \E s \in StmtId : stmts[s] # NoStmt /\ stmts[s].day = d

-----------------------------------------------------------------------------
(* Time and deliveries *)

\* The job looks every hour, so a replica has claimed the day before it ends.
NextDay ==
    /\ day < MaxDay
    /\ day \in period
    /\ day' = day + 1
    /\ UNCHANGED <<earned, period, stmts, paid, answered, byHand, odd, doubled, call>>

\* createEarningEvent stamps occurred_at, then saves.
RecordEarning(w) ==
    /\ call[w] = Idle
    /\ Sum(earned) + Cardinality(Saving) < MaxEarned
    /\ Goto(w, [Idle EXCEPT !.at = "earn", !.day = day])
    /\ UNCHANGED <<day, earned, period, stmts, paid, answered, byHand, odd, doubled>>

SaveEarning(w) ==
    /\ At(w, "earn")
    /\ earned' = [earned EXCEPT ![call[w].day] = @ + 1]
    /\ odd' = IF call[w].day = day THEN odd ELSE odd \cup {call[w].day}
    /\ Goto(w, Idle)
    /\ UNCHANGED <<day, period, stmts, paid, answered, byHand, doubled>>

-----------------------------------------------------------------------------
(* The statement job *)

\* A variant that writes statements for the day that is still running.
Today == day

\* A variant that goes back two days.
TwoDaysBack == day - 2

\* yesterday := time.Now().UTC().Add(-24 * time.Hour)
Yesterday == day - 1

\* A run that has taken up day d.
RunOf(d) == [Idle EXCEPT !.at = "sum", !.day = d]

Running(d) == \E v \in Workers : call[v].at \in JobSteps /\ call[v].day = d

StartRun(w, d) ==
    /\ Goto(w, RunOf(d))
    /\ doubled' = IF Running(d) THEN doubled \cup {d} ELSE doubled

\* A job run claims the day, on one replica, and takes up the day before.
ClaimPeriod(w) ==
    /\ call[w] = Idle
    /\ day \notin period
    /\ period' = period \cup {day}
    /\ \/ day = 0 /\ UNCHANGED <<call, doubled>>
       \/ day > 0 /\ StartRun(w, Yesterday)
    /\ UNCHANGED <<day, earned, stmts, paid, answered, byHand, odd>>

\* The statements/generate request: any date, and no claim.
GenerateByHand(w, d) ==
    /\ call[w] = Idle
    /\ byHand < MaxByHand
    /\ d <= day
    /\ StartRun(w, d)
    /\ byHand' = byHand + 1
    /\ odd' = IF d = day THEN odd \cup {d} ELSE odd
    /\ UNCHANGED <<day, earned, period, stmts, paid, answered>>

\* memberTotals: a rider without events has no row.
MemberTotals(w) ==
    /\ At(w, "sum")
    /\ LET sum == earned[call[w].day]
       IN  Goto(w, IF sum = 0 THEN Idle
                   ELSE [call[w] EXCEPT !.at = "exists", !.amount = sum])
    /\ UNCHANGED <<day, earned, period, stmts, paid, answered, byHand, odd, doubled>>

\* A variant that writes the statement again on every run.
NeverExists(d) == FALSE

\* A statement of the rider for the day is there.
Exists(d) == Stated(d)

CheckExists(w) ==
    /\ At(w, "exists")
    /\ Goto(w, IF Exists(call[w].day) THEN Idle ELSE [call[w] EXCEPT !.at = "insert"])
    /\ UNCHANGED <<day, earned, period, stmts, paid, answered, byHand, odd, doubled>>

CreateStatement(w, s) ==
    /\ At(w, "insert")
    /\ stmts[s] = NoStmt
    /\ \A t \in StmtId : t < s => stmts[t] # NoStmt
    /\ stmts' = [stmts EXCEPT ![s] = [day |-> call[w].day, amount |-> call[w].amount,
                                      status |-> "draft"]]
    /\ Goto(w, Idle)
    /\ UNCHANGED <<day, earned, period, paid, answered, byHand, odd, doubled>>

\* Redis loses its keys while no job run is under way: the day is claimed again.
LoseClaims ==
    /\ "claims" \in Faults
    /\ period # {}
    /\ \A w \in Replicas : call[w] = Idle
    /\ period' = {}
    /\ UNCHANGED <<day, earned, stmts, paid, answered, byHand, odd, doubled, call>>

-----------------------------------------------------------------------------
(* Settlement *)

\* A variant that claims the statement whatever its status has become.
ClaimAny(s) == TRUE

\* Where(Status("draft"))
IsDraft(s) == stmts[s].status = "draft"

SetStatus(s, st) == stmts' = [stmts EXCEPT ![s].status = st]

\* SettleEarningsStatement loads a draft statement of a rider who may be paid.
SettleStatement(w, s) ==
    /\ call[w] = Idle
    /\ stmts[s].status = "draft"
    /\ Goto(w, [Idle EXCEPT !.at = "claim", !.stmt = {s}])
    /\ UNCHANGED <<day, earned, period, stmts, paid, answered, byHand, odd, doubled>>

\* The conditional draft -> processing update; a conflict otherwise.
ClaimStatement(w, s) ==
    /\ At(w, "claim") /\ call[w].stmt = {s}
    /\ \/ /\ IsDraft(s)
          /\ SetStatus(s, "processing")
          /\ Goto(w, [call[w] EXCEPT !.at = "disburse"])
       \/ /\ ~IsDraft(s)
          /\ Goto(w, Idle)
          /\ UNCHANGED stmts
    /\ UNCHANGED <<day, earned, period, paid, answered, byHand, odd, doubled>>

\* DisbursePayout: paid and answered, refused, or paid and the answer lost.
DisbursePayout(w, s) ==
    /\ At(w, "disburse") /\ call[w].stmt = {s}
    /\ \/ /\ paid' = [paid EXCEPT ![s] = @ + 1]
          /\ Goto(w, [call[w] EXCEPT !.at = "record"])
          /\ UNCHANGED answered
       \/ /\ Goto(w, [call[w] EXCEPT !.at = "release"])
          /\ UNCHANGED <<paid, answered>>
       \/ /\ "answer" \in Faults
          /\ s \in answered
          /\ paid' = [paid EXCEPT ![s] = @ + 1]
          /\ answered' = answered \ {s}
          /\ Goto(w, [call[w] EXCEPT !.at = "release"])
    /\ UNCHANGED <<day, earned, period, stmts, byHand, odd, doubled>>

\* An error hands the statement back.
ReleaseStatement(w, s) ==
    /\ At(w, "release") /\ call[w].stmt = {s}
    /\ \/ stmts[s].status = "processing" /\ SetStatus(s, "draft")
       \/ stmts[s].status # "processing" /\ UNCHANGED stmts
    /\ Goto(w, Idle)
    /\ UNCHANGED <<day, earned, period, paid, answered, byHand, odd, doubled>>

\* The payout reference is recorded on the statement, whatever its status.
RecordPayout(w, s) ==
    /\ At(w, "record") /\ call[w].stmt = {s}
    /\ SetStatus(s, "processing")
    /\ Goto(w, Idle)
    /\ UNCHANGED <<day, earned, period, paid, answered, byHand, odd, doubled>>

-----------------------------------------------------------------------------
\* The process stops, a statement of the job fails, or a request loses its
\* context. A request cut off while treasury works leaves its payment unknown.
Stops(w) ==
    /\ "stop" \in Faults
    /\ call[w] # Idle
    /\ odd' = IF w \in Replicas THEN odd \cup {call[w].day} ELSE odd
    /\ \E pays \in IF At(w, "disburse") THEN SUBSET call[w].stmt ELSE {{}} :
          paid' = [s \in StmtId |-> IF s \in pays THEN paid[s] + 1 ELSE paid[s]]
    /\ Goto(w, Idle)
    /\ UNCHANGED <<day, earned, period, stmts, answered, byHand, doubled>>

\* The steps of a run, whoever started it.
Run(w) ==
    \/ MemberTotals(w)
    \/ CheckExists(w)
    \/ \E s \in StmtId : CreateStatement(w, s)

Job(w) == ClaimPeriod(w) \/ Run(w)

Request(w) ==
    \/ RecordEarning(w)
    \/ SaveEarning(w)
    \/ \E d \in Days : GenerateByHand(w, d)
    \/ Run(w)
    \/ \E s \in StmtId :
          \/ SettleStatement(w, s)
          \/ ClaimStatement(w, s)
          \/ DisbursePayout(w, s)
          \/ ReleaseStatement(w, s)
          \/ RecordPayout(w, s)

Next ==
    \/ NextDay
    \/ LoseClaims
    \/ \E w \in Replicas : Job(w)
    \/ \E w \in Requests : Request(w)
    \/ \E w \in Workers : Stops(w)

\* Time passes and the hourly checks come, whatever requests do.
Spec ==
    /\ Init
    /\ [][Next]_vars
    /\ SF_vars(NextDay)
    /\ WF_vars(\E w \in Replicas : Job(w))

-----------------------------------------------------------------------------
(* Properties *)

\* Two managers settling the same statement, double clicks, refused and
\* interrupted payouts never pay a statement twice, and a statement back in
\* draft is unpaid, as long as treasury's answers arrive: the claim on the
\* statement is the only thing that keeps payouts apart.
PaidOnce ==
    \A s \in answered :
        /\ paid[s] <= 1
        /\ stmts[s].status = "draft" => paid[s] = 0

\* The job, on any number of replicas and run again after its claim is lost,
\* and the runs managers ask for write at most one statement per day, unless
\* two of them work on the day at the same time.
OneStatementPerDay ==
    \A s, t \in StmtId :
        /\ stmts[s] # NoStmt /\ stmts[t] # NoStmt
        /\ stmts[s].day = stmts[t].day
        /\ stmts[s].day \notin doubled
        => s = t

\* A statement sums every earning of its day, although the rows are read long
\* after they were stamped, unless it was asked for before the day was over or
\* an earning was saved after midnight.
StatementIsWhole ==
    \A s \in StmtId :
        stmts[s] # NoStmt /\ stmts[s].day \notin odd => stmts[s].amount = earned[stmts[s].day]

\* A day with earnings gets its statement, whatever requests do and however
\* often claims are lost, unless the job's run for the day stopped: its claim
\* is not given back, and the next run takes up the next day.
EveryDayStated ==
    \A d \in 0 .. MaxDay - 1 : earned[d] > 0 ~> Stated(d) \/ d \in odd

-----------------------------------------------------------------------------
(* The inductive strengthenings behind the proofs *)

PayTyped ==
    /\ day \in Days
    /\ earned \in [Days -> Nat]
    /\ stmts \in [StmtId -> [day : Days, amount : Nat, status : Statuses \cup {"none"}]]
    /\ paid \in [StmtId -> Nat]
    /\ answered \subseteq StmtId
    /\ call \in [Workers -> [at : Steps, day : Days, amount : Nat,
                             stmt : {{}} \cup {{s} : s \in StmtId}]]

\* Worker w has claimed statement s and not yet recorded or released it.
PayingOut(w, s) ==
    call[w].at \in {"disburse", "release", "record"} /\ call[w].stmt = {s}

\* A claimed statement is one request's, and unpaid until that request pays it.
PayInv ==
    /\ PayTyped
    /\ \A w \in Workers, s \in StmtId :
          PayingOut(w, s) =>
              /\ stmts[s].status = "processing"
              /\ s \in answered /\ ~At(w, "record") => paid[s] = 0
    /\ \A v, w \in Workers, s \in StmtId : PayingOut(v, s) /\ PayingOut(w, s) => v = w
    /\ \A s \in answered :
          /\ paid[s] <= 1
          /\ stmts[s].status # "processing" => paid[s] = 0

RunsOn(w, d) == call[w].at \in JobSteps /\ call[w].day = d

\* A run about to write is the only one on its day, and the day has no statement.
RunInv ==
    /\ PayInv
    /\ \A v, w \in Workers, d \in Days \ doubled : RunsOn(v, d) /\ RunsOn(w, d) => v = w
    /\ \A w \in Workers : At(w, "insert") /\ Stated(call[w].day) => call[w].day \in doubled
    /\ OneStatementPerDay

\* What a run read is still what the day earned, because the day is over.
SumInv ==
    /\ PayInv
    /\ \A w \in Workers, d \in Days \ odd :
          RunsOn(w, d) => d < day /\ (~At(w, "sum") => call[w].amount = earned[d])
    /\ \A s \in StmtId :
          stmts[s] # NoStmt /\ stmts[s].day \notin odd =>
              /\ stmts[s].day < day
              /\ stmts[s].amount = earned[stmts[s].day]

\* The earnings saved and about to be saved.
PayBounded ==
    /\ period \subseteq Days
    /\ byHand \in 0 .. MaxByHand
    /\ odd \subseteq Days
    /\ doubled \subseteq Days
    /\ Sum(earned) + Cardinality(Saving) <= MaxEarned
    /\ \A w \in Workers : call[w].amount <= MaxEarned
    /\ \A s \in StmtId : stmts[s].amount <= MaxEarned
=============================================================================
