--------------------------- MODULE RiderPayProofs ---------------------------
(***************************************************************************)
(* RiderPay, for any number of replicas, requests, days and statements: a  *)
(* statement is paid once, a day has one statement unless two runs work on *)
(* it together, and a statement sums the whole of its day.                 *)
(***************************************************************************)
EXTENDS RiderPay, SumTheorems

PayCall == [at : Steps, day : Days, amount : Nat,
            stmt : {{}} \cup {{s} : s \in StmtId}]

\* The days, the reset call and a statement's row are well formed.
LEMMA PayConstants ==
    /\ MaxDay \in Nat /\ 0 \in Days
    /\ Idle \in PayCall
    /\ NoStmt \in [day : Days, amount : Nat, status : Statuses \cup {"none"}]
BY PayAssumption DEF Days, Idle, PayCall, Steps, NoStmt, Statuses

LEMMA PayTypedInit == Init => PayTyped
<1> SUFFICES ASSUME Init PROVE PayTyped
    OBVIOUS
<1>1. /\ day \in Days /\ earned \in [Days -> Nat]
      /\ paid \in [StmtId -> Nat] /\ answered \subseteq StmtId
    BY PayConstants DEF Init
<1>2. stmts \in [StmtId -> [day : Days, amount : Nat, status : Statuses \cup {"none"}]]
    BY PayConstants DEF Init
<1>3. call \in [Workers -> PayCall]
    BY PayConstants DEF Init
<1> QED
    BY <1>1, <1>2, <1>3 DEF PayTyped, PayCall

\* A day a run takes up is a day.
LEMMA YesterdayIsADay ==
    ASSUME day \in Days, day > 0 PROVE Yesterday \in Days /\ Yesterday < day
BY PayAssumption DEF Days, Yesterday

\* Every step keeps the state well formed.
LEMMA PayTypedStep == PayTyped /\ [Next]_vars => PayTyped'
<1> SUFFICES ASSUME PayTyped, [Next]_vars PROVE PayTyped'
    OBVIOUS
<1> USE DEF PayTyped
<1>c. call \in [Workers -> PayCall] /\ Idle \in PayCall
    BY PayConstants DEF PayCall
<1>g. ASSUME NEW w \in Workers, NEW c \in PayCall, Goto(w, c)
      PROVE  call' \in [Workers -> PayCall]
    BY <1>c, <1>g DEF Goto
<1>s. ASSUME NEW s \in StmtId, NEW st \in Statuses, SetStatus(s, st)
      PROVE  stmts' \in [StmtId -> [day : Days, amount : Nat, status : Statuses \cup {"none"}]]
    BY <1>s DEF SetStatus
<1>1. CASE NextDay
  <2>1. day' \in Days
      BY <1>1, PayAssumption DEF NextDay, Days
  <2> QED
      BY <1>1, <2>1 DEF NextDay
<1>2. CASE LoseClaims
    BY <1>2 DEF LoseClaims
<1>w. ASSUME NEW w \in Workers PROVE call[w] \in PayCall
    BY <1>c
<1>3. ASSUME NEW w \in Workers, RecordEarning(w) PROVE PayTyped'
  <2>1. [Idle EXCEPT !.at = "earn", !.day = day] \in PayCall
      BY PayConstants DEF PayCall, Idle, Steps
  <2> QED
      BY <1>3, <1>g, <2>1 DEF RecordEarning, PayCall
<1>4. ASSUME NEW w \in Workers, SaveEarning(w) PROVE PayTyped'
  <2>1. call[w].day \in Days
      BY <1>w DEF PayCall
  <2>2. earned' \in [Days -> Nat]
      BY <1>4, <2>1 DEF SaveEarning
  <2> QED
      BY <1>4, <1>g, <1>c, <2>2 DEF SaveEarning, PayCall
<1>5. ASSUME NEW w \in Workers, NEW d \in Days, StartRun(w, d)
      PROVE  call' \in [Workers -> PayCall]
  <2>1. RunOf(d) \in PayCall
      BY PayConstants DEF PayCall, Idle, Steps, RunOf
  <2> QED
      BY <1>5, <1>g, <2>1 DEF StartRun
<1>6. ASSUME NEW w \in Workers, ClaimPeriod(w) PROVE PayTyped'
    BY <1>6, <1>5, YesterdayIsADay DEF ClaimPeriod, PayCall
<1>7. ASSUME NEW w \in Workers, NEW d \in Days, GenerateByHand(w, d) PROVE PayTyped'
    BY <1>7, <1>5 DEF GenerateByHand, PayCall
<1>8. ASSUME NEW w \in Workers, MemberTotals(w) PROVE PayTyped'
  <2>1. earned[call[w].day] \in Nat
      BY <1>w DEF PayCall
  <2>2. [call[w] EXCEPT !.at = "exists", !.amount = earned[call[w].day]] \in PayCall
      BY <1>w, <2>1 DEF PayCall, Steps
  <2>3. call' \in [Workers -> PayCall]
      BY <1>8, <1>g, <1>c, <2>2 DEF MemberTotals
  <2> QED
      BY <1>8, <2>3 DEF MemberTotals, PayCall
<1>9. ASSUME NEW w \in Workers, CheckExists(w) PROVE PayTyped'
  <2>1. [call[w] EXCEPT !.at = "insert"] \in PayCall
      BY <1>w DEF PayCall, Steps
  <2>2. call' \in [Workers -> PayCall]
      BY <1>9, <1>g, <1>c, <2>1 DEF CheckExists
  <2> QED
      BY <1>9, <2>2 DEF CheckExists, PayCall
<1>10. ASSUME NEW w \in Workers, NEW s \in StmtId, CreateStatement(w, s) PROVE PayTyped'
  <2>1. [day |-> call[w].day, amount |-> call[w].amount, status |-> "draft"]
          \in [day : Days, amount : Nat, status : Statuses \cup {"none"}]
      BY <1>w DEF PayCall, Statuses
  <2>2. stmts' \in [StmtId -> [day : Days, amount : Nat, status : Statuses \cup {"none"}]]
      BY <1>10, <2>1 DEF CreateStatement
  <2> QED
      BY <1>10, <1>g, <1>c, <2>2 DEF CreateStatement, PayCall
<1>11. ASSUME NEW w \in Workers, NEW s \in StmtId, SettleStatement(w, s) PROVE PayTyped'
  <2>1. [Idle EXCEPT !.at = "claim", !.stmt = {s}] \in PayCall
      BY PayConstants DEF PayCall, Idle, Steps
  <2> QED
      BY <1>11, <1>g, <2>1 DEF SettleStatement, PayCall
<1>m. ASSUME NEW w \in Workers, NEW at \in Steps PROVE [call[w] EXCEPT !.at = at] \in PayCall
    BY <1>w DEF PayCall
<1>12. ASSUME NEW w \in Workers, NEW s \in StmtId, ClaimStatement(w, s) PROVE PayTyped'
  <2>1. call' \in [Workers -> PayCall]
      BY <1>12, <1>g, <1>c, <1>m DEF ClaimStatement, Steps
  <2>2. stmts' \in [StmtId -> [day : Days, amount : Nat, status : Statuses \cup {"none"}]]
      BY <1>12, <1>s DEF ClaimStatement, Statuses
  <2> QED
      BY <1>12, <2>1, <2>2 DEF ClaimStatement, PayCall
<1>13. ASSUME NEW w \in Workers, NEW s \in StmtId, DisbursePayout(w, s) PROVE PayTyped'
  <2>1. call' \in [Workers -> PayCall]
      BY <1>13, <1>g, <1>m DEF DisbursePayout, Steps
  <2>2. paid' \in [StmtId -> Nat]
      BY <1>13 DEF DisbursePayout
  <2> QED
      BY <1>13, <2>1, <2>2 DEF DisbursePayout, PayCall
<1>14. ASSUME NEW w \in Workers, NEW s \in StmtId, ReleaseStatement(w, s) PROVE PayTyped'
  <2>1. call' \in [Workers -> PayCall]
      BY <1>14, <1>g, <1>c DEF ReleaseStatement
  <2>2. stmts' \in [StmtId -> [day : Days, amount : Nat, status : Statuses \cup {"none"}]]
      BY <1>14, <1>s DEF ReleaseStatement, Statuses
  <2> QED
      BY <1>14, <2>1, <2>2 DEF ReleaseStatement, PayCall
<1>15. ASSUME NEW w \in Workers, NEW s \in StmtId, RecordPayout(w, s) PROVE PayTyped'
  <2>1. call' \in [Workers -> PayCall]
      BY <1>15, <1>g, <1>c DEF RecordPayout
  <2>2. stmts' \in [StmtId -> [day : Days, amount : Nat, status : Statuses \cup {"none"}]]
      BY <1>15, <1>s DEF RecordPayout, Statuses
  <2> QED
      BY <1>15, <2>1, <2>2 DEF RecordPayout, PayCall
<1>16. ASSUME NEW w \in Workers, Stops(w) PROVE PayTyped'
  <2>1. call' \in [Workers -> PayCall]
      BY <1>16, <1>g, <1>c DEF Stops
  <2>2. paid' \in [StmtId -> Nat]
      BY <1>16 DEF Stops
  <2> QED
      BY <1>16, <2>1, <2>2 DEF Stops, PayCall
<1>17. CASE UNCHANGED vars
    BY <1>17 DEF vars
<1> QED
    BY <1>1, <1>2, <1>3, <1>4, <1>6, <1>7, <1>8, <1>9, <1>10, <1>11, <1>12, <1>13, <1>14,
       <1>15, <1>16, <1>17
    DEF Next, Job, Request, Run, Workers

-----------------------------------------------------------------------------
(* A statement is paid once *)

\* What a move of one worker does to the others.
LEMMA GotoMoves ==
    ASSUME PayTyped, NEW w \in Workers, NEW c, Goto(w, c)
    PROVE  /\ call'[w] = c
           /\ \A v \in Workers \ {w} : call'[v] = call[v]
BY DEF PayTyped, Goto

\* A worker that goes where nothing is paid out takes part in no payout, and
\* the payouts of the others go on as they were.
LEMMA GotoQuiet ==
    ASSUME PayTyped, NEW w \in Workers, NEW c, Goto(w, c),
           c.at \notin {"disburse", "release", "record"}
    PROVE  \A v \in Workers, s \in StmtId :
               PayingOut(v, s)' => /\ PayingOut(v, s)
                                   /\ At(v, "record") => At(v, "record")'
<1> SUFFICES ASSUME NEW v \in Workers, NEW s \in StmtId, PayingOut(v, s)'
             PROVE  PayingOut(v, s) /\ (At(v, "record") => At(v, "record")')
    OBVIOUS
<1>1. v # w
    BY GotoMoves DEF PayingOut
<1> QED
    BY <1>1, GotoMoves DEF PayingOut, At

\* A step that pays nothing, claims nothing and hands nothing back keeps the
\* invariant.
LEMMA PayQuiet ==
    ASSUME PayInv, PayTyped', UNCHANGED <<paid, answered>>,
           \A s \in StmtId : stmts'[s].status = "processing" <=> stmts[s].status = "processing",
           \A v \in Workers, s \in StmtId :
               PayingOut(v, s)' => PayingOut(v, s) /\ (At(v, "record") => At(v, "record")')
    PROVE  PayInv'
<1>1. ASSUME NEW w \in Workers, NEW s \in StmtId, PayingOut(w, s)'
      PROVE  /\ stmts'[s].status = "processing"
             /\ s \in answered' /\ ~At(w, "record")' => paid'[s] = 0
    BY <1>1 DEF PayInv
<1>2. \A v, w \in Workers, s \in StmtId : PayingOut(v, s)' /\ PayingOut(w, s)' => v = w
    BY DEF PayInv
<1>3. \A s \in answered' :
          paid'[s] <= 1 /\ (stmts'[s].status # "processing" => paid'[s] = 0)
    BY DEF PayInv, PayTyped
<1> QED
    BY <1>1, <1>2, <1>3 DEF PayInv

\* A worker moves a statement out of draft, pays it, or hands it back, without
\* touching any other statement.
LEMMA PayOneStatement ==
    ASSUME PayInv, PayTyped', NEW w \in Workers, NEW s \in StmtId, NEW c, Goto(w, c),
           c.stmt = {s} \/ c = Idle,
           \A t \in StmtId \ {s} :
               /\ stmts'[t].status = stmts[t].status
               /\ paid'[t] = paid[t]
               /\ t \in answered' => t \in answered,
           PayingOut(w, s)' =>
               /\ stmts'[s].status = "processing"
               /\ s \in answered' /\ c.at # "record" => paid'[s] = 0,
           \A v \in Workers \ {w} : ~PayingOut(v, s),
           s \in answered' =>
               /\ paid'[s] <= 1
               /\ stmts'[s].status # "processing" => paid'[s] = 0
    PROVE  PayInv'
<1>0. PayTyped /\ answered' \subseteq StmtId
    BY DEF PayInv, PayTyped
<1>1. \A v \in Workers \ {w} : call'[v] = call[v]
    BY <1>0, GotoMoves
<1>2. call'[w] = c
    BY <1>0, GotoMoves
<1>3. \A t \in StmtId \ {s} : ~PayingOut(w, t)'
    BY <1>2 DEF PayingOut, Idle
<1>4. \A v \in Workers \ {w}, t \in StmtId : PayingOut(v, t)' => PayingOut(v, t) /\ t # s
    BY <1>1 DEF PayingOut
<1>5. ASSUME NEW v \in Workers, NEW t \in StmtId, PayingOut(v, t)'
      PROVE  /\ stmts'[t].status = "processing"
             /\ t \in answered' /\ ~At(v, "record")' => paid'[t] = 0
  <2>1. CASE v = w
      BY <1>2, <1>3, <1>5, <2>1 DEF At
  <2>2. CASE v # w
      BY <1>1, <1>4, <1>5, <2>2 DEF At, PayInv
  <2> QED
      BY <2>1, <2>2
<1>6. \A u, v \in Workers, t \in StmtId : PayingOut(u, t)' /\ PayingOut(v, t)' => u = v
    BY <1>3, <1>4 DEF PayInv
<1>7. \A t \in answered' :
          paid'[t] <= 1 /\ (stmts'[t].status # "processing" => paid'[t] = 0)
    BY <1>0 DEF PayInv
<1> QED
    BY <1>5, <1>6, <1>7 DEF PayInv

LEMMA PayInductive == PayInv /\ [Next]_vars => PayInv'
<1> SUFFICES ASSUME PayInv, [Next]_vars PROVE PayInv'
    OBVIOUS
<1>t. PayTyped /\ PayTyped'
    BY PayTypedStep DEF PayInv
<1>c. call \in [Workers -> PayCall]
    BY <1>t DEF PayTyped, PayCall
<1>q. ASSUME NEW w \in Workers, NEW c, Goto(w, c), UNCHANGED <<paid, answered>>,
             c.at \notin {"disburse", "release", "record"},
             \A s \in StmtId :
                 stmts'[s].status = "processing" <=> stmts[s].status = "processing"
      PROVE  PayInv'
    BY <1>t, <1>q, GotoQuiet, PayQuiet
<1>n. ASSUME UNCHANGED <<paid, answered, stmts, call>> PROVE PayInv'
    BY <1>t, <1>n, PayQuiet DEF PayingOut, At
<1>u. ASSUME NEW w \in Workers, NEW s \in StmtId, PayingOut(w, s)
      PROVE  /\ stmts[s].status = "processing"
             /\ \A v \in Workers \ {w} : ~PayingOut(v, s)
    BY <1>u DEF PayInv
<1>1. ASSUME NextDay \/ LoseClaims \/ UNCHANGED vars PROVE PayInv'
    BY <1>1, <1>n DEF NextDay, LoseClaims, vars
<1>2. ASSUME NEW w \in Workers, RecordEarning(w) \/ SaveEarning(w) PROVE PayInv'
  <2>1. [Idle EXCEPT !.at = "earn", !.day = day].at = "earn" /\ Idle.at = "idle"
      BY DEF Idle
  <2> QED
      BY <1>2, <1>q, <2>1 DEF RecordEarning, SaveEarning
<1>3. ASSUME NEW w \in Workers, NEW d \in Days, StartRun(w, d),
             UNCHANGED <<paid, answered, stmts>>
      PROVE  PayInv'
  <2>1. RunOf(d).at = "sum"
      BY DEF RunOf, Idle
  <2> QED
      BY <1>3, <1>q, <2>1 DEF StartRun
<1>4. ASSUME NEW w \in Workers, ClaimPeriod(w) PROVE PayInv'
    BY <1>4, <1>3, <1>n, <1>t, YesterdayIsADay DEF ClaimPeriod, PayTyped
<1>5. ASSUME NEW w \in Workers, NEW d \in Days, GenerateByHand(w, d) PROVE PayInv'
    BY <1>5, <1>3 DEF GenerateByHand
<1>m. ASSUME NEW w \in Workers, NEW at
      PROVE  /\ [call[w] EXCEPT !.at = at].at = at
             /\ [call[w] EXCEPT !.at = at].stmt = call[w].stmt
    BY <1>c DEF PayCall
<1>o. ASSUME NEW w \in Workers, NEW s \in StmtId, NEW at, call[w].stmt = {s},
             Goto(w, [call[w] EXCEPT !.at = at]),
             stmts'[s].status = "processing",
             s \in answered' /\ at # "record" => paid'[s] = 0,
             s \in answered' => paid'[s] <= 1,
             \A v \in Workers \ {w} : ~PayingOut(v, s),
             \A t \in StmtId \ {s} :
                 /\ stmts'[t].status = stmts[t].status
                 /\ paid'[t] = paid[t]
                 /\ t \in answered' => t \in answered
      PROVE  PayInv'
  <2> DEFINE c == [call[w] EXCEPT !.at = at]
  <2>1. c.at = at /\ c.stmt = {s} /\ Goto(w, c)
      BY <1>o, <1>m
  <2> HIDE DEF c
  <2> QED
      BY <1>o, <1>t, <2>1, PayOneStatement
<1>6. ASSUME NEW w \in Workers, MemberTotals(w) \/ CheckExists(w) PROVE PayInv'
  <2>1. PICK c : Goto(w, c) /\ c.at \in {"idle", "exists", "insert"}
    <3>1. Idle.at = "idle"
        BY DEF Idle
    <3>2. CASE MemberTotals(w)
      <4> DEFINE d == [call[w] EXCEPT !.at = "exists", !.amount = earned[call[w].day]]
      <4>1. d.at = "exists"
          BY <1>c DEF PayCall
      <4>2. Goto(w, Idle) \/ Goto(w, d)
          BY <3>2 DEF MemberTotals
      <4> QED
          BY <3>1, <4>1, <4>2
    <3>3. CASE CheckExists(w)
        BY <3>1, <3>3, <1>m DEF CheckExists
    <3> QED
        BY <1>6, <3>2, <3>3
  <2> QED
      BY <1>6, <1>q, <2>1 DEF MemberTotals, CheckExists
<1>7. ASSUME NEW w \in Workers, NEW s \in StmtId, CreateStatement(w, s) PROVE PayInv'
  <2>1. \A t \in StmtId :
            stmts'[t].status = "processing" <=> stmts[t].status = "processing"
      BY <1>7, <1>t DEF CreateStatement, NoStmt, PayTyped
  <2> QED
      BY <1>7, <1>q, <2>1 DEF CreateStatement, Idle
<1>8. ASSUME NEW w \in Workers, NEW s \in StmtId, SettleStatement(w, s) PROVE PayInv'
  <2>1. [Idle EXCEPT !.at = "claim", !.stmt = {s}].at = "claim"
      BY DEF Idle
  <2> QED
      BY <1>8, <1>q, <2>1 DEF SettleStatement
<1>9. ASSUME NEW w \in Workers, NEW s \in StmtId, ClaimStatement(w, s) PROVE PayInv'
  <2>1. CASE stmts' = stmts /\ Goto(w, Idle)
      BY <1>9, <2>1, <1>q DEF ClaimStatement, Idle
  <2>2. CASE IsDraft(s) /\ SetStatus(s, "processing")
             /\ Goto(w, [call[w] EXCEPT !.at = "disburse"])
    <3>1. \A v \in Workers : ~PayingOut(v, s)
        BY <2>2 DEF IsDraft, PayInv
    <3>2. s \in answered => paid[s] = 0
        BY <2>2 DEF IsDraft, PayInv
    <3>3. stmts'[s].status = "processing"
          /\ \A t \in StmtId \ {s} : stmts'[t].status = stmts[t].status
        BY <2>2, <1>t DEF SetStatus, PayTyped
    <3> QED
        BY <1>9, <2>2, <1>o, <3>1, <3>2, <3>3 DEF ClaimStatement
  <2> QED
      BY <1>9, <2>1, <2>2 DEF ClaimStatement
<1>10. ASSUME NEW w \in Workers, NEW s \in StmtId, DisbursePayout(w, s) PROVE PayInv'
  <2>1. PayingOut(w, s) /\ ~At(w, "record")
      BY <1>10 DEF DisbursePayout, PayingOut, At
  <2>2. s \in answered => paid[s] = 0
      BY <2>1 DEF PayInv
  <2>3. stmts' = stmts /\ call[w].stmt = {s}
      BY <1>10 DEF DisbursePayout
  <2>4. stmts'[s].status = "processing" /\ \A v \in Workers \ {w} : ~PayingOut(v, s)
      BY <2>1, <2>3, <1>u
  <2>5. CASE paid' = [paid EXCEPT ![s] = @ + 1] /\ answered' = answered
             /\ Goto(w, [call[w] EXCEPT !.at = "record"])
    <3>1. s \in answered => paid'[s] = 1
        BY <2>2, <2>5, <1>t DEF PayTyped
    <3>2. \A t \in StmtId \ {s} : paid'[t] = paid[t]
        BY <2>5, <1>t DEF PayTyped
    <3> QED
        BY <2>3, <2>4, <2>5, <3>1, <3>2, <1>o
  <2>6. CASE UNCHANGED <<paid, answered>> /\ Goto(w, [call[w] EXCEPT !.at = "release"])
      BY <2>2, <2>3, <2>4, <2>6, <1>o
  <2>7. CASE paid' = [paid EXCEPT ![s] = @ + 1] /\ answered' = answered \ {s}
             /\ Goto(w, [call[w] EXCEPT !.at = "release"])
    <3>1. \A t \in StmtId \ {s} : paid'[t] = paid[t]
        BY <2>7, <1>t DEF PayTyped
    <3> QED
        BY <2>3, <2>4, <2>7, <3>1, <1>o
  <2> QED
      BY <1>10, <2>5, <2>6, <2>7 DEF DisbursePayout
<1>11. ASSUME NEW w \in Workers, NEW s \in StmtId, ReleaseStatement(w, s) PROVE PayInv'
  <2>1. PayingOut(w, s) /\ ~At(w, "record")
      BY <1>11 DEF ReleaseStatement, PayingOut, At
  <2>2. (s \in answered => paid[s] = 0) /\ \A v \in Workers \ {w} : ~PayingOut(v, s)
      BY <2>1, <1>u DEF PayInv
  <2>3. \A t \in StmtId \ {s} : stmts'[t].status = stmts[t].status
      BY <1>11, <1>t DEF ReleaseStatement, SetStatus, PayTyped
  <2>4. ~PayingOut(w, s)'
      BY <1>11, <1>t, GotoMoves DEF ReleaseStatement, PayingOut, Idle
  <2> QED
      BY <1>11, <2>2, <2>3, <2>4, <1>t, PayOneStatement DEF ReleaseStatement
<1>12. ASSUME NEW w \in Workers, NEW s \in StmtId, RecordPayout(w, s) PROVE PayInv'
  <2>1. PayingOut(w, s)
      BY <1>12 DEF RecordPayout, PayingOut, At
  <2>2. \A t \in StmtId :
            stmts'[t].status = "processing" <=> stmts[t].status = "processing"
      BY <1>12, <2>1, <1>u, <1>t DEF RecordPayout, SetStatus, PayTyped
  <2> QED
      BY <1>12, <1>q, <2>2 DEF RecordPayout, Idle
<1>13. ASSUME NEW w \in Workers, Stops(w) PROVE PayInv'
  <2>0. UNCHANGED <<stmts, answered>> /\ Goto(w, Idle)
      BY <1>13 DEF Stops
  <2>1. CASE paid' = paid
      BY <2>0, <2>1, <1>q DEF Idle
  <2>2. ASSUME paid' # paid PROVE PayInv'
    <3>1. PICK pays : /\ pays \in IF At(w, "disburse") THEN SUBSET call[w].stmt ELSE {{}}
                      /\ paid' = [s \in StmtId |-> IF s \in pays THEN paid[s] + 1 ELSE paid[s]]
        BY <1>13 DEF Stops
    <3>2. pays # {}
        BY <2>2, <3>1, <1>t DEF PayTyped
    <3>3. At(w, "disburse") /\ pays \in SUBSET call[w].stmt
        BY <3>1, <3>2
    <3>4. call[w].stmt \in {{}} \cup {{s} : s \in StmtId}
        BY <1>c DEF PayCall
    <3>5. PICK s \in StmtId : call[w].stmt = {s} /\ pays = {s}
        BY <3>2, <3>3, <3>4
    <3>6. PayingOut(w, s) /\ ~At(w, "record")
        BY <3>3, <3>5 DEF PayingOut, At
    <3>7. (s \in answered => paid[s] = 0) /\ stmts[s].status = "processing"
          /\ \A v \in Workers \ {w} : ~PayingOut(v, s)
        BY <3>6, <1>u DEF PayInv
    <3>8. paid'[s] = paid[s] + 1 /\ \A t \in StmtId \ {s} : paid'[t] = paid[t]
        BY <3>1, <3>5
    <3>9. ~PayingOut(w, s)'
        BY <2>0, <1>t, GotoMoves DEF PayingOut, Idle
    <3> QED
        BY <2>0, <3>7, <3>8, <3>9, <1>t, PayOneStatement
  <2> QED
      BY <2>1, <2>2
<1> QED
    BY <1>1, <1>2, <1>4, <1>5, <1>6, <1>7, <1>8, <1>9, <1>10, <1>11, <1>12, <1>13
    DEF Next, Job, Request, Run, Workers

\* Nothing is paid or running at first.
LEMMA PayInit == Init => PayInv
<1> SUFFICES ASSUME Init PROVE PayInv
    OBVIOUS
<1>1. \A w \in Workers, s \in StmtId : ~PayingOut(w, s)
    BY DEF Init, PayingOut, Idle
<1>2. \A s \in answered : paid[s] = 0
    BY DEF Init
<1> QED
    BY <1>1, <1>2, PayTypedInit DEF PayInv

\* Managers settling at once, refused and interrupted payouts: the conditional
\* draft -> processing update alone keeps a statement from being paid twice,
\* while treasury's answers arrive.
THEOREM StatementPaidOnce == Spec => []PaidOnce
<1>1. Init => PayInv
    BY PayInit
<1>2. PayInv => PaidOnce
    BY DEF PayInv, PaidOnce
<1> QED
    BY <1>1, <1>2, PayInductive, PTL DEF Spec

-----------------------------------------------------------------------------
(* One statement per day *)

\* Only CreateStatement adds a row, and no step changes the day or the amount
\* of a row or removes it.
RowsStay ==
    \A s \in StmtId :
        /\ stmts'[s] # NoStmt <=> stmts[s] # NoStmt
        /\ stmts'[s].day = stmts[s].day
        /\ stmts'[s].amount = stmts[s].amount

\* Changing the status of a row that is there leaves the rows in place.
LEMMA StatusKeepsRows ==
    ASSUME PayTyped, NEW s \in StmtId, NEW st \in Statuses, SetStatus(s, st),
           stmts[s].status # "none"
    PROVE  RowsStay
<1> SUFFICES ASSUME NEW t \in StmtId
             PROVE  /\ stmts'[t] # NoStmt <=> stmts[t] # NoStmt
                    /\ stmts'[t].day = stmts[t].day
                    /\ stmts'[t].amount = stmts[t].amount
    BY DEF RowsStay
<1>1. CASE t = s
  <2>1. stmts'[s] = [stmts[s] EXCEPT !.status = st]
      BY DEF PayTyped, SetStatus
  <2>2. stmts[s] \in [day : Days, amount : Nat, status : Statuses \cup {"none"}]
      BY DEF PayTyped
  <2>3. stmts'[s].day = stmts[s].day /\ stmts'[s].amount = stmts[s].amount
        /\ stmts'[s].status = st
      BY <2>1, <2>2
  <2>4. st # "none"
      BY DEF Statuses
  <2> QED
      BY <1>1, <2>3, <2>4 DEF NoStmt
<1>2. CASE t # s
    BY <1>2 DEF PayTyped, SetStatus
<1> QED
    BY <1>1, <1>2

\* The settlement steps leave the rows in place.
LEMMA SettlementKeepsRows ==
    ASSUME PayInv, NEW w \in Workers, NEW s \in StmtId,
           SettleStatement(w, s) \/ ClaimStatement(w, s) \/ DisbursePayout(w, s)
               \/ ReleaseStatement(w, s) \/ RecordPayout(w, s)
    PROVE  RowsStay
<1>1. CASE SettleStatement(w, s) \/ DisbursePayout(w, s)
    BY <1>1 DEF SettleStatement, DisbursePayout, RowsStay
<1>2. CASE ClaimStatement(w, s)
  <2>1. CASE UNCHANGED stmts
      BY <2>1 DEF RowsStay
  <2>2. CASE IsDraft(s) /\ SetStatus(s, "processing")
      BY <2>2, StatusKeepsRows DEF IsDraft, PayInv, Statuses
  <2> QED
      BY <1>2, <2>1, <2>2 DEF ClaimStatement
<1>3. CASE ReleaseStatement(w, s)
  <2>1. CASE UNCHANGED stmts
      BY <2>1 DEF RowsStay
  <2>2. CASE stmts[s].status = "processing" /\ SetStatus(s, "draft")
      BY <2>2, StatusKeepsRows DEF PayInv, Statuses
  <2> QED
      BY <1>3, <2>1, <2>2 DEF ReleaseStatement
<1>4. CASE RecordPayout(w, s)
  <2>1. PayingOut(w, s)
      BY <1>4 DEF RecordPayout, PayingOut, At
  <2>2. stmts[s].status = "processing"
      BY <2>1 DEF PayInv
  <2> QED
      BY <1>4, <2>2, StatusKeepsRows DEF RecordPayout, PayInv, Statuses
<1> QED
    BY <1>1, <1>2, <1>3, <1>4

\* A settlement goes on outside the steps of a run.
LEMMA SettlementMoves ==
    ASSUME PayTyped, NEW w \in Workers, NEW s \in StmtId,
           SettleStatement(w, s) \/ ClaimStatement(w, s) \/ DisbursePayout(w, s)
               \/ ReleaseStatement(w, s) \/ RecordPayout(w, s)
    PROVE  \E c : Goto(w, c) /\ c.at \notin JobSteps
<1>0. Idle.at \notin JobSteps
    BY DEF Idle, JobSteps
<1>1. \A at : [call[w] EXCEPT !.at = at].at = at
    BY DEF PayTyped
<1>2. [Idle EXCEPT !.at = "claim", !.stmt = {s}].at = "claim"
    BY DEF Idle
<1>3. \A at \in {"claim", "disburse", "release", "record"} : at \notin JobSteps
    BY DEF JobSteps
<1>8. ASSUME NEW at \in {"disburse", "release", "record"},
             Goto(w, [call[w] EXCEPT !.at = at])
      PROVE  \E c : Goto(w, c) /\ c.at \notin JobSteps
    BY <1>1, <1>3, <1>8
<1>4. CASE SettleStatement(w, s)
    BY <1>2, <1>3, <1>4 DEF SettleStatement
<1>5. CASE ClaimStatement(w, s)
    BY <1>8, <1>5, <1>0 DEF ClaimStatement
<1>6. CASE DisbursePayout(w, s)
    BY <1>8, <1>6 DEF DisbursePayout
<1>7. CASE ReleaseStatement(w, s) \/ RecordPayout(w, s)
    BY <1>7, <1>0 DEF ReleaseStatement, RecordPayout
<1> QED
    BY <1>4, <1>5, <1>6, <1>7

\* A step of a worker that leaves the rows alone and starts no run.
LEMMA RunQuiet ==
    ASSUME RunInv, PayInv', RowsStay, doubled' = doubled,
           \A v \in Workers, d \in Days : RunsOn(v, d)' => RunsOn(v, d),
           \A v \in Workers : At(v, "insert")' => At(v, "insert") /\ call'[v] = call[v]
    PROVE  RunInv'
<1>1. \A v, w \in Workers, d \in Days \ doubled' : RunsOn(v, d)' /\ RunsOn(w, d)' => v = w
    BY DEF RunInv
<1>3. \A w \in Workers :
          At(w, "insert")' /\ Stated(call[w].day)' => call'[w].day \in doubled'
  <2> SUFFICES ASSUME NEW w \in Workers, At(w, "insert")', Stated(call[w].day)'
               PROVE  call'[w].day \in doubled'
      OBVIOUS
  <2>1. At(w, "insert") /\ call'[w].day = call[w].day
      OBVIOUS
  <2>2. Stated(call[w].day)
      BY <2>1 DEF Stated, RowsStay
  <2> QED
      BY <2>1, <2>2 DEF RunInv
<1>4. OneStatementPerDay'
    BY DEF RunInv, OneStatementPerDay, RowsStay
<1> QED
    BY <1>1, <1>3, <1>4 DEF RunInv

\* A worker that goes somewhere outside the job's steps.
LEMMA RunLeft ==
    ASSUME RunInv, PayInv', RowsStay, doubled' = doubled,
           NEW w \in Workers, NEW c, Goto(w, c), c.at \notin JobSteps
    PROVE  RunInv'
<1>1. PayTyped
    BY DEF RunInv, PayInv
<1>2. \A v \in Workers, d \in Days : RunsOn(v, d)' => RunsOn(v, d)
    BY <1>1, GotoMoves DEF RunsOn
<1>3. \A v \in Workers : At(v, "insert")' => At(v, "insert") /\ call'[v] = call[v]
    BY <1>1, GotoMoves DEF At, JobSteps
<1> QED
    BY <1>2, <1>3, RunQuiet

\* A run that starts marks its day when another one is on it.
LEMMA RunStarts ==
    ASSUME RunInv, PayInv', NEW w \in Workers, NEW d \in Days, StartRun(w, d), stmts' = stmts
    PROVE  RunInv'
<1>1. PayTyped
    BY DEF RunInv, PayInv
<1>2. call'[w] = RunOf(d) /\ \A v \in Workers \ {w} : call'[v] = call[v]
    BY <1>1, GotoMoves DEF StartRun
<1>3. RunOf(d).at = "sum" /\ RunOf(d).day = d
    BY DEF RunOf, Idle
<1>4. doubled \subseteq doubled'
    BY DEF StartRun
<1>5. ASSUME NEW u \in Workers, NEW v \in Workers, NEW e \in Days \ doubled',
             RunsOn(u, e)', RunsOn(v, e)', u # v
      PROVE  FALSE
  <2>1. e \notin doubled
      BY <1>4
  <2>2. CASE u # w /\ v # w
      BY <1>2, <1>5, <2>1, <2>2 DEF RunsOn, RunInv
  <2>3. CASE u = w \/ v = w
    <3>1. e = d /\ Running(d)
        BY <1>2, <1>3, <1>5, <2>3 DEF RunsOn, Running
    <3> QED
        BY <3>1 DEF StartRun
  <2> QED
      BY <2>2, <2>3
<1>6. ASSUME NEW v \in Workers, At(v, "insert")', Stated(call[v].day)'
      PROVE  call'[v].day \in doubled'
  <2>1. v # w
      BY <1>2, <1>3, <1>6 DEF At
  <2>2. At(v, "insert") /\ Stated(call[v].day) /\ call'[v] = call[v]
      BY <1>2, <1>6, <2>1 DEF At, Stated
  <2> QED
      BY <1>4, <2>2 DEF RunInv
<1>7. OneStatementPerDay'
    BY <1>4 DEF RunInv, OneStatementPerDay
<1> QED
    BY <1>5, <1>6, <1>7 DEF RunInv

LEMMA RunInductive == RunInv /\ [Next]_vars => RunInv'
<1> SUFFICES ASSUME RunInv, [Next]_vars PROVE RunInv'
    OBVIOUS
<1>p. PayInv /\ PayInv' /\ PayTyped
    BY PayInductive DEF RunInv, PayInv
<1>c. call \in [Workers -> PayCall]
    BY <1>p DEF PayTyped, PayCall
<1>i. Idle.at \notin JobSteps
    BY DEF Idle, JobSteps
<1>r. stmts' = stmts => RowsStay
    BY DEF RowsStay
<1>1. ASSUME NextDay \/ LoseClaims \/ UNCHANGED vars PROVE RunInv'
    BY <1>1, <1>p, <1>r, RunQuiet DEF NextDay, LoseClaims, vars, RunsOn, At
<1>2. ASSUME NEW w \in Workers, RecordEarning(w) \/ SaveEarning(w) PROVE RunInv'
  <2>1. [Idle EXCEPT !.at = "earn", !.day = day].at \notin JobSteps
      BY DEF Idle, JobSteps
  <2> QED
      BY <1>2, <1>p, <1>r, <1>i, <2>1, RunLeft DEF RecordEarning, SaveEarning
<1>3. ASSUME NEW w \in Workers, ClaimPeriod(w) PROVE RunInv'
  <2>1. CASE UNCHANGED <<call, doubled>>
      BY <1>3, <2>1, <1>p, <1>r, RunQuiet DEF ClaimPeriod, RunsOn, At
  <2>2. CASE day > 0 /\ StartRun(w, Yesterday)
      BY <1>3, <2>2, <1>p, YesterdayIsADay, RunStarts DEF ClaimPeriod, PayTyped
  <2> QED
      BY <1>3, <2>1, <2>2 DEF ClaimPeriod
<1>4. ASSUME NEW w \in Workers, NEW d \in Days, GenerateByHand(w, d) PROVE RunInv'
    BY <1>4, <1>p, RunStarts DEF GenerateByHand
<1>5. ASSUME NEW w \in Workers, MemberTotals(w) PROVE RunInv'
  <2> DEFINE c == [call[w] EXCEPT !.at = "exists", !.amount = earned[call[w].day]]
  <2>1. c.at = "exists" /\ c.day = call[w].day
      BY <1>c DEF PayCall
  <2>2. At(w, "sum") /\ stmts' = stmts /\ doubled' = doubled /\ (Goto(w, Idle) \/ Goto(w, c))
      BY <1>5 DEF MemberTotals
  <2> HIDE DEF c
  <2>3. CASE Goto(w, Idle)
      BY <2>2, <2>3, <1>p, <1>r, <1>i, RunLeft
  <2>4. CASE Goto(w, c)
    <3>1. call'[w] = c /\ \A v \in Workers \ {w} : call'[v] = call[v]
        BY <2>4, <1>p, GotoMoves
    <3>2. \A v \in Workers, d \in Days : RunsOn(v, d)' => RunsOn(v, d)
        BY <2>1, <2>2, <3>1 DEF RunsOn, At, JobSteps
    <3>3. \A v \in Workers : At(v, "insert")' => At(v, "insert") /\ call'[v] = call[v]
        BY <2>1, <3>1 DEF At
    <3> QED
        BY <2>2, <3>2, <3>3, <1>p, <1>r, RunQuiet
  <2> QED
      BY <2>2, <2>3, <2>4
<1>6. ASSUME NEW w \in Workers, CheckExists(w) PROVE RunInv'
  <2> DEFINE c == [call[w] EXCEPT !.at = "insert"]
  <2>1. c.at = "insert" /\ c.day = call[w].day
      BY <1>c DEF PayCall
  <2>2. /\ At(w, "exists") /\ stmts' = stmts /\ doubled' = doubled
        /\ Goto(w, Idle) \/ (~Stated(call[w].day) /\ Goto(w, c))
      BY <1>6 DEF CheckExists, Exists
  <2> HIDE DEF c
  <2>3. CASE Goto(w, Idle)
      BY <2>2, <2>3, <1>p, <1>r, <1>i, RunLeft
  <2>4. CASE ~Stated(call[w].day) /\ Goto(w, c)
    <3>1. call'[w] = c /\ \A v \in Workers \ {w} : call'[v] = call[v]
        BY <2>4, <1>p, GotoMoves
    <3>2. \A v \in Workers, d \in Days : RunsOn(v, d)' => RunsOn(v, d)
        BY <2>1, <2>2, <3>1 DEF RunsOn, At, JobSteps
    <3>3. \A v, u \in Workers, d \in Days \ doubled' : RunsOn(v, d)' /\ RunsOn(u, d)' => v = u
        BY <2>2, <3>2 DEF RunInv
    <3>4. ASSUME NEW v \in Workers, At(v, "insert")', Stated(call[v].day)'
          PROVE  call'[v].day \in doubled'
      <4>1. Stated(call'[v].day)
          BY <2>2, <3>4 DEF Stated
      <4>2. v # w
          BY <2>1, <2>4, <3>1, <4>1
      <4> QED
          BY <2>2, <3>1, <3>4, <4>1, <4>2 DEF RunInv, At
    <3>5. OneStatementPerDay'
        BY <2>2 DEF RunInv, OneStatementPerDay
    <3> QED
        BY <3>3, <3>4, <3>5, <1>p DEF RunInv
  <2> QED
      BY <2>2, <2>3, <2>4
<1>7. ASSUME NEW w \in Workers, NEW s \in StmtId, CreateStatement(w, s) PROVE RunInv'
  <2>1. At(w, "insert") /\ doubled' = doubled /\ stmts[s] = NoStmt
      BY <1>7 DEF CreateStatement
  <2>2. call'[w] = Idle /\ \A v \in Workers \ {w} : call'[v] = call[v]
      BY <1>7, <1>p, GotoMoves DEF CreateStatement
  <2>3. stmts'[s].day = call[w].day /\ \A t \in StmtId \ {s} : stmts'[t] = stmts[t]
      BY <1>7, <1>p DEF CreateStatement, PayTyped
  <2>4. call[w].day \in Days /\ RunsOn(w, call[w].day)
      BY <2>1, <1>c DEF PayCall, RunsOn, At, JobSteps
  <2>5. \A v \in Workers, d \in Days : RunsOn(v, d)' => RunsOn(v, d) /\ v # w
      BY <2>2, <1>i DEF RunsOn
  <2>6. \A v, u \in Workers, d \in Days \ doubled' : RunsOn(v, d)' /\ RunsOn(u, d)' => v = u
      BY <2>1, <2>5 DEF RunInv
  <2>7. ASSUME NEW v \in Workers, At(v, "insert")', Stated(call[v].day)'
        PROVE  call'[v].day \in doubled'
    <3>1. v # w /\ call'[v] = call[v] /\ At(v, "insert")
        BY <2>2, <2>7 DEF At, Idle
    <3>2. PICK t \in StmtId : stmts'[t] # NoStmt /\ stmts'[t].day = call'[v].day
        BY <2>7 DEF Stated
    <3>3. CASE t = s
      <4>1. RunsOn(v, call[w].day)
          BY <2>3, <3>1, <3>2, <3>3 DEF RunsOn, At, JobSteps
      <4> QED
          BY <2>1, <2>3, <2>4, <3>1, <3>2, <3>3, <4>1 DEF RunInv
    <3>4. CASE t # s
        BY <2>1, <2>3, <3>1, <3>2, <3>4 DEF RunInv, Stated
    <3> QED
        BY <3>3, <3>4
  <2>8. OneStatementPerDay'
    <3> SUFFICES ASSUME NEW t \in StmtId, NEW u \in StmtId, t # u,
                        stmts'[t] # NoStmt, stmts'[u] # NoStmt,
                        stmts'[t].day = stmts'[u].day
                 PROVE  stmts'[t].day \in doubled'
        BY DEF OneStatementPerDay
    <3>1. CASE t # s /\ u # s
        BY <2>1, <2>3, <3>1 DEF RunInv, OneStatementPerDay
    <3>2. CASE t = s \/ u = s
      <4>1. Stated(call[w].day) /\ stmts'[t].day = call[w].day
          BY <2>3, <3>2 DEF Stated
      <4> QED
          BY <2>1, <4>1 DEF RunInv
    <3> QED
        BY <3>1, <3>2
  <2> QED
      BY <2>6, <2>7, <2>8, <1>p DEF RunInv
<1>8. ASSUME NEW w \in Workers, NEW s \in StmtId,
             SettleStatement(w, s) \/ ClaimStatement(w, s) \/ DisbursePayout(w, s)
                 \/ ReleaseStatement(w, s) \/ RecordPayout(w, s)
      PROVE  RunInv'
  <2>1. RowsStay
      BY <1>8, <1>p, SettlementKeepsRows
  <2>2. PICK c : Goto(w, c) /\ c.at \notin JobSteps
      BY <1>8, <1>p, SettlementMoves
  <2>3. doubled' = doubled
      BY <1>8 DEF SettleStatement, ClaimStatement, DisbursePayout, ReleaseStatement, RecordPayout
  <2> QED
      BY <2>1, <2>2, <2>3, <1>p, RunLeft
<1>9. ASSUME NEW w \in Workers, Stops(w) PROVE RunInv'
    BY <1>9, <1>p, <1>r, <1>i, RunLeft DEF Stops
<1> QED
    BY <1>1, <1>2, <1>3, <1>4, <1>5, <1>6, <1>7, <1>8, <1>9
    DEF Next, Job, Request, Run, Workers

\* However often the job runs for a day, on any number of replicas, and whatever
\* runs managers ask for: without two of them on the day at once, the look for
\* an existing statement is enough.
THEOREM StatementsNotDoubled == Spec => []OneStatementPerDay
<1>1. Init => RunInv
  <2> SUFFICES ASSUME Init PROVE RunInv
      OBVIOUS
  <2>1. \A w \in Workers : call[w].at = "idle"
      BY DEF Init, Idle
  <2>2. OneStatementPerDay
      BY DEF Init, OneStatementPerDay
  <2> QED
      BY <2>1, <2>2, PayInit DEF RunInv, RunsOn, At, JobSteps
<1>2. RunInv => OneStatementPerDay
    BY DEF RunInv
<1> QED
    BY <1>1, <1>2, RunInductive, PTL DEF Spec

-----------------------------------------------------------------------------
(* A statement sums the whole of its day *)

\* The invariant outlives a step that keeps the rows, changes what no finished
\* day earned, and leaves every run with the sum of a finished day.
LEMMA SumKept ==
    ASSUME SumInv, PayInv', RowsStay, day <= day', odd \subseteq odd', day' \in Days,
           \A d \in Days \ odd' : d < day => earned'[d] = earned[d],
           \A w \in Workers, d \in Days \ odd' :
               RunsOn(w, d)' => d < day' /\ (~At(w, "sum")' => call'[w].amount = earned'[d])
    PROVE  SumInv'
<1>t. PayTyped
    BY DEF SumInv, PayInv
<1>1. ASSUME NEW s \in StmtId, stmts'[s] # NoStmt, stmts'[s].day \notin odd'
      PROVE  stmts'[s].day < day' /\ stmts'[s].amount = earned'[stmts'[s].day]
  <2>1. /\ stmts[s] # NoStmt /\ stmts[s].day \notin odd
        /\ stmts'[s].day = stmts[s].day /\ stmts'[s].amount = stmts[s].amount
      BY <1>1 DEF RowsStay
  <2>2. stmts[s].day < day /\ stmts[s].amount = earned[stmts[s].day]
      BY <2>1 DEF SumInv
  <2>3. stmts[s].day \in Days /\ day \in Days
      BY <1>t DEF PayTyped
  <2>4. stmts[s].day < day'
      BY <2>2, <2>3, PayAssumption DEF Days
  <2> QED
      BY <1>1, <2>1, <2>2, <2>3, <2>4
<1> QED
    BY <1>1 DEF SumInv

\* One worker moves within a day; its run, if it has one, has the right sum.
LEMMA SumMove ==
    ASSUME SumInv, PayInv', RowsStay, day' = day, odd \subseteq odd',
           NEW w \in Workers, NEW c, Goto(w, c),
           \A d \in Days \ odd' : d < day => earned'[d] = earned[d],
           c.at \in JobSteps /\ c.day \notin odd' =>
               c.day < day /\ (c.at # "sum" => c.amount = earned'[c.day])
    PROVE  SumInv'
<1>t. PayTyped
    BY DEF SumInv, PayInv
<1>1. call'[w] = c /\ \A v \in Workers \ {w} : call'[v] = call[v]
    BY <1>t, GotoMoves
<1>2. ASSUME NEW v \in Workers, NEW d \in Days \ odd', RunsOn(v, d)'
      PROVE  d < day' /\ (~At(v, "sum")' => call'[v].amount = earned'[d])
  <2>1. CASE v = w
      BY <1>1, <1>2, <2>1 DEF RunsOn, At
  <2>2. CASE v # w
    <3>1. RunsOn(v, d) /\ call'[v] = call[v]
        BY <1>1, <1>2, <2>2 DEF RunsOn
    <3>2. d < day /\ (~At(v, "sum") => call[v].amount = earned[d])
        BY <3>1 DEF SumInv
    <3> QED
        BY <3>1, <3>2 DEF At
  <2> QED
      BY <2>1, <2>2
<1>3. day \in Days /\ day <= day'
    BY <1>t, PayAssumption DEF PayTyped, Days
<1> QED
    BY <1>2, <1>3, SumKept

LEMMA SumInductive == SumInv /\ [Next]_vars => SumInv'
<1> SUFFICES ASSUME SumInv, [Next]_vars PROVE SumInv'
    OBVIOUS
<1>p. PayInv /\ PayInv' /\ PayTyped /\ PayTyped'
    BY PayInductive DEF SumInv, PayInv
<1>c. call \in [Workers -> PayCall]
    BY <1>p DEF PayTyped, PayCall
<1>i. Idle.at \notin JobSteps
    BY DEF Idle, JobSteps
<1>r. stmts' = stmts => RowsStay
    BY DEF RowsStay
<1>o. ASSUME NEW w \in Workers, NEW c, Goto(w, c), c.at \notin JobSteps, RowsStay,
             day' = day, earned' = earned, odd \subseteq odd'
      PROVE  SumInv'
    BY <1>o, <1>p, SumMove
<1>1. ASSUME NextDay \/ LoseClaims \/ UNCHANGED vars PROVE SumInv'
  <2>1. /\ UNCHANGED <<earned, stmts, odd, call>>
        /\ day' = day \/ day' = day + 1
      BY <1>1 DEF NextDay, LoseClaims, vars
  <2>2. day \in Days /\ day' \in Days /\ day <= day'
      BY <2>1, <1>p, PayAssumption DEF PayTyped, Days
  <2>3. ASSUME NEW w \in Workers, NEW d \in Days \ odd', RunsOn(w, d)'
        PROVE  d < day' /\ (~At(w, "sum")' => call'[w].amount = earned'[d])
    <3>1. d < day /\ (~At(w, "sum") => call[w].amount = earned[d])
        BY <2>1, <2>3 DEF SumInv, RunsOn
    <3> QED
        BY <2>1, <2>2, <3>1, PayAssumption DEF At, Days
  <2> QED
      BY <2>1, <2>2, <2>3, <1>p, <1>r, SumKept
<1>2. ASSUME NEW w \in Workers, RecordEarning(w) PROVE SumInv'
  <2>1. [Idle EXCEPT !.at = "earn", !.day = day].at \notin JobSteps
      BY DEF Idle, JobSteps
  <2> QED
      BY <1>2, <1>o, <1>r, <2>1 DEF RecordEarning
<1>3. ASSUME NEW w \in Workers, SaveEarning(w) PROVE SumInv'
  <2>1. \A d \in Days \ odd' : d < day => earned'[d] = earned[d]
      BY <1>3, <1>p, PayAssumption DEF SaveEarning, PayTyped, Days
  <2>2. odd \subseteq odd' /\ day' = day /\ stmts' = stmts /\ Goto(w, Idle)
      BY <1>3 DEF SaveEarning
  <2> QED
      BY <2>1, <2>2, <1>p, <1>i, <1>r, SumMove
<1>4. ASSUME NEW w \in Workers, NEW d \in Days, Goto(w, RunOf(d)), d < day \/ d \in odd',
             UNCHANGED <<day, earned, stmts>>, odd \subseteq odd'
      PROVE  SumInv'
  <2>1. RunOf(d).at = "sum" /\ RunOf(d).day = d
      BY DEF RunOf, Idle
  <2> QED
      BY <1>4, <2>1, <1>p, <1>r, SumMove
<1>5. ASSUME NEW w \in Workers, ClaimPeriod(w) PROVE SumInv'
  <2>1. CASE day = 0 /\ UNCHANGED call
    <3>1. day <= day'
        BY <1>5, <2>1 DEF ClaimPeriod
    <3>2. ASSUME NEW v \in Workers, NEW d \in Days \ odd', RunsOn(v, d)'
          PROVE  d < day' /\ (~At(v, "sum")' => call'[v].amount = earned'[d])
        BY <1>5, <2>1, <3>2 DEF ClaimPeriod, SumInv, RunsOn, At
    <3> QED
        BY <1>5, <3>1, <3>2, <1>p, <1>r, SumKept DEF ClaimPeriod, PayTyped
  <2>2. CASE day > 0 /\ StartRun(w, Yesterday)
      BY <1>5, <2>2, <1>4, <1>p, YesterdayIsADay DEF ClaimPeriod, StartRun, PayTyped
  <2> QED
      BY <1>5, <2>1, <2>2 DEF ClaimPeriod
<1>6. ASSUME NEW w \in Workers, NEW d \in Days, GenerateByHand(w, d) PROVE SumInv'
  <2>1. d < day \/ d \in odd'
      BY <1>6, <1>p, PayAssumption DEF GenerateByHand, PayTyped, Days
  <2> QED
      BY <1>6, <2>1, <1>4 DEF GenerateByHand, StartRun
<1>7. ASSUME NEW w \in Workers, MemberTotals(w) PROVE SumInv'
  <2> DEFINE c == [call[w] EXCEPT !.at = "exists", !.amount = earned[call[w].day]]
  <2>1. c.at = "exists" /\ c.day = call[w].day /\ c.amount = earned[call[w].day]
      BY <1>c DEF PayCall
  <2>2. /\ At(w, "sum") /\ UNCHANGED <<day, earned, stmts, odd>>
        /\ Goto(w, Idle) \/ Goto(w, c)
      BY <1>7 DEF MemberTotals
  <2>3. call[w].day \in Days
      BY <1>c DEF PayCall
  <2>4. call[w].day \notin odd => call[w].day < day
      BY <2>2, <2>3 DEF SumInv, RunsOn, At, JobSteps
  <2> HIDE DEF c
  <2>5. CASE Goto(w, Idle)
      BY <2>2, <2>5, <1>i, <1>o, <1>r
  <2>6. CASE Goto(w, c)
      BY <2>1, <2>2, <2>4, <2>6, <1>p, <1>r, SumMove
  <2> QED
      BY <2>2, <2>5, <2>6
<1>8. ASSUME NEW w \in Workers, CheckExists(w) PROVE SumInv'
  <2> DEFINE c == [call[w] EXCEPT !.at = "insert"]
  <2>1. c.at = "insert" /\ c.day = call[w].day /\ c.amount = call[w].amount
      BY <1>c DEF PayCall
  <2>2. /\ At(w, "exists") /\ UNCHANGED <<day, earned, stmts, odd>>
        /\ Goto(w, Idle) \/ Goto(w, c)
      BY <1>8 DEF CheckExists
  <2>3. call[w].day \in Days
      BY <1>c DEF PayCall
  <2>4. call[w].day \notin odd => call[w].day < day /\ call[w].amount = earned[call[w].day]
      BY <2>2, <2>3 DEF SumInv, RunsOn, At, JobSteps
  <2> HIDE DEF c
  <2>5. CASE Goto(w, Idle)
      BY <2>2, <2>5, <1>i, <1>o, <1>r
  <2>6. CASE Goto(w, c)
      BY <2>1, <2>2, <2>4, <2>6, <1>p, <1>r, SumMove
  <2> QED
      BY <2>2, <2>5, <2>6
<1>9. ASSUME NEW w \in Workers, NEW s \in StmtId, CreateStatement(w, s) PROVE SumInv'
  <2>1. At(w, "insert") /\ UNCHANGED <<day, earned, odd>>
      BY <1>9 DEF CreateStatement
  <2>2. call'[w] = Idle /\ \A v \in Workers \ {w} : call'[v] = call[v]
      BY <1>9, <1>p, GotoMoves DEF CreateStatement
  <2>3. /\ stmts'[s].day = call[w].day /\ stmts'[s].amount = call[w].amount
        /\ \A t \in StmtId \ {s} : stmts'[t] = stmts[t]
      BY <1>9, <1>p DEF CreateStatement, PayTyped
  <2>4. call[w].day \in Days
      BY <1>c DEF PayCall
  <2>5. call[w].day \notin odd => call[w].day < day /\ call[w].amount = earned[call[w].day]
      BY <2>1, <2>4 DEF SumInv, RunsOn, At, JobSteps
  <2>6. ASSUME NEW t \in StmtId, stmts'[t] # NoStmt, stmts'[t].day \notin odd'
        PROVE  stmts'[t].day < day' /\ stmts'[t].amount = earned'[stmts'[t].day]
    <3>1. CASE t = s
        BY <2>1, <2>3, <2>5, <2>6, <3>1
    <3>2. CASE t # s
        BY <2>1, <2>3, <2>6, <3>2 DEF SumInv
    <3> QED
        BY <3>1, <3>2
  <2>7. ASSUME NEW v \in Workers, NEW d \in Days \ odd', RunsOn(v, d)'
        PROVE  d < day' /\ (~At(v, "sum")' => call'[v].amount = earned'[d])
    <3>1. v # w /\ RunsOn(v, d) /\ call'[v] = call[v]
        BY <2>2, <2>7, <1>i DEF RunsOn
    <3>2. d < day /\ (~At(v, "sum") => call[v].amount = earned[d])
        BY <2>1, <3>1 DEF SumInv
    <3> QED
        BY <2>1, <3>1, <3>2 DEF At
  <2> QED
      BY <2>6, <2>7, <1>p DEF SumInv
<1>10. ASSUME NEW w \in Workers, NEW s \in StmtId,
             SettleStatement(w, s) \/ ClaimStatement(w, s) \/ DisbursePayout(w, s)
                 \/ ReleaseStatement(w, s) \/ RecordPayout(w, s)
       PROVE  SumInv'
  <2>1. RowsStay
      BY <1>10, <1>p, SettlementKeepsRows
  <2>2. PICK c : Goto(w, c) /\ c.at \notin JobSteps
      BY <1>10, <1>p, SettlementMoves
  <2>3. UNCHANGED <<day, earned, odd>>
      BY <1>10 DEF SettleStatement, ClaimStatement, DisbursePayout, ReleaseStatement, RecordPayout
  <2> QED
      BY <2>1, <2>2, <2>3, <1>o
<1>11. ASSUME NEW w \in Workers, Stops(w) PROVE SumInv'
  <2>1. odd \subseteq odd' /\ UNCHANGED <<day, earned, stmts>> /\ Goto(w, Idle)
      BY <1>11 DEF Stops
  <2> QED
      BY <2>1, <1>i, <1>o, <1>r
<1> QED
    BY <1>1, <1>2, <1>3, <1>5, <1>6, <1>7, <1>8, <1>9, <1>10, <1>11
    DEF Next, Job, Request, Run, Workers

\* A statement is the sum of its whole day: the run reads a day that is over,
\* and what such a day earned only changes when an earning is saved late.
THEOREM StatementsAreWhole == Spec => []StatementIsWhole
<1>1. Init => SumInv
  <2> SUFFICES ASSUME Init PROVE SumInv
      OBVIOUS
  <2>1. \A w \in Workers : call[w].at = "idle"
      BY DEF Init, Idle
  <2>2. \A s \in StmtId : stmts[s] = NoStmt
      BY DEF Init
  <2> QED
      BY <2>1, <2>2, PayInit DEF SumInv, RunsOn, JobSteps
<1>2. SumInv => StatementIsWhole
    BY DEF SumInv, StatementIsWhole
<1> QED
    BY <1>1, <1>2, SumInductive, PTL DEF Spec

-----------------------------------------------------------------------------
(* The bounds *)

Earned == Sum(earned)

\* What a day earned is part of what was earned.
LEMMA DayIsPart ==
    ASSUME PayTyped
    PROVE  /\ Earned = SumOver(earned, Days) /\ Earned \in Nat
           /\ \A d \in Days : earned[d] <= Earned
           /\ IsFiniteSet(Days) /\ IsFiniteSet(Workers)
<1>1. IsFiniteSet(Days)
    BY PayAssumption, FS_Interval DEF Days
<1>2. Earned = SumOver(earned, Days)
    BY DEF PayTyped, Earned, Sum, FoldFunction, SumOver
<1>3. \A d \in Days : earned[d] \in Nat
    BY DEF PayTyped
<1>4. IsFiniteSet(Workers)
    BY PayAssumption, FS_Union DEF Workers
<1> QED
    BY <1>1, <1>2, <1>3, <1>4, SumNat, SumBounds

\* The counts of workers that are about to save.
LEMMA SavingCounts ==
    ASSUME PayTyped, NEW w \in Workers, NEW c, Goto(w, c)
    PROVE  /\ Cardinality(Saving) \in Nat
           /\ c.at # "earn" => Cardinality(Saving)' <= Cardinality(Saving)
           /\ c.at # "earn" /\ At(w, "earn") => Cardinality(Saving)' = Cardinality(Saving) - 1
           /\ ~At(w, "earn") => Cardinality(Saving)' <= Cardinality(Saving) + 1
<1>1. IsFiniteSet(Saving)
    BY DayIsPart, FS_Subset DEF Saving
<1>2. Saving' = IF c.at = "earn" THEN Saving \cup {w} ELSE Saving \ {w}
    BY GotoMoves DEF Saving, At
<1>3. w \in Saving <=> At(w, "earn")
    BY DEF Saving
<1>4. IsFiniteSet(Saving') /\ Cardinality(Saving) \in Nat /\ Cardinality(Saving') \in Nat
    BY <1>1, <1>2, FS_AddElement, FS_RemoveElement, FS_CardinalityType
<1>5. CASE c.at = "earn"
    BY <1>1, <1>2, <1>3, <1>4, <1>5, FS_AddElement
<1>6. CASE c.at # "earn"
  <2>1. Cardinality(Saving') = IF w \in Saving THEN Cardinality(Saving) - 1 ELSE Cardinality(Saving)
      BY <1>1, <1>2, <1>6, FS_RemoveElement
  <2> QED
      BY <1>3, <1>4, <1>6, <2>1
<1> QED
    BY <1>5, <1>6

\* A worker that moves on without starting to save keeps the bounds on its amounts.
LEMMA BoundsKept ==
    ASSUME PayTyped, PayBounded, UNCHANGED earned, NEW w \in Workers, NEW c, Goto(w, c),
           c.at # "earn", c.amount <= MaxEarned,
           \A s \in StmtId : stmts'[s].amount <= MaxEarned,
           period' \subseteq Days, byHand' \in 0 .. MaxByHand, odd' \subseteq Days,
           doubled' \subseteq Days
    PROVE  PayBounded'
<1>1. Earned' = Earned
    BY DEF Earned
<1>2. Cardinality(Saving)' <= Cardinality(Saving) /\ Cardinality(Saving) \in Nat
    BY SavingCounts
<1>3. Earned \in Nat /\ Cardinality(Saving)' \in Nat
  <2>1. IsFiniteSet(Saving')
      BY DayIsPart, FS_Subset DEF Saving
  <2> QED
      BY <2>1, DayIsPart, FS_CardinalityType
<1>4. Earned + Cardinality(Saving) <= MaxEarned /\ MaxEarned \in Nat
    BY PayAssumption DEF PayBounded, Earned
<1>5. Earned' + Cardinality(Saving)' <= MaxEarned
    BY <1>1, <1>2, <1>3, <1>4
<1>6. \A v \in Workers : call'[v].amount <= MaxEarned
    BY GotoMoves DEF PayBounded
<1> QED
    BY <1>5, <1>6 DEF PayBounded, Earned

LEMMA BoundsStep == PayTyped /\ PayBounded /\ [Next]_vars => PayBounded'
<1> SUFFICES ASSUME PayTyped, PayBounded, [Next]_vars PROVE PayBounded'
    OBVIOUS
<1>b. /\ MaxEarned \in Nat /\ MaxByHand \in Nat /\ 0 \in Days
      /\ \A w \in Workers : call[w].amount <= MaxEarned /\ call[w].day \in Days
      /\ period \subseteq Days /\ byHand \in 0 .. MaxByHand /\ odd \subseteq Days
      /\ doubled \subseteq Days
      /\ \A s \in StmtId : stmts[s].amount <= MaxEarned
    BY PayAssumption, PayConstants DEF PayBounded, PayTyped
<1>i. Idle.amount <= MaxEarned /\ Idle.at # "earn"
    BY <1>b DEF Idle
<1>e. /\ Earned \in Nat /\ Cardinality(Saving) \in Nat
      /\ Earned + Cardinality(Saving) <= MaxEarned
      /\ \A d \in Days : earned[d] <= MaxEarned
  <2>1. Earned + Cardinality(Saving) <= MaxEarned
      BY DEF PayBounded, Earned
  <2>2. Cardinality(Saving) \in Nat
      BY DayIsPart, FS_Subset, FS_CardinalityType DEF Saving
  <2> QED
      BY <1>b, <2>1, <2>2, DayIsPart DEF PayTyped
<1>q. ASSUME UNCHANGED <<earned, call, stmts, byHand, odd, doubled>>, period' \subseteq Days
      PROVE  PayBounded'
  <2>1. Saving' = Saving
      BY <1>q DEF Saving, At
  <2> QED
      BY <1>q, <2>1 DEF PayBounded
<1>1. CASE NextDay
    BY <1>1, <1>b, <1>q DEF NextDay
<1>2. CASE LoseClaims
    BY <1>2, <1>b, <1>q DEF LoseClaims
<1>3. ASSUME NEW w \in Workers, RecordEarning(w) PROVE PayBounded'
  <2> DEFINE c == [Idle EXCEPT !.at = "earn", !.day = day]
  <2>1. Goto(w, c) /\ c.amount <= MaxEarned /\ ~At(w, "earn")
    <3>1. Goto(w, c) /\ call[w] = Idle
        BY <1>3 DEF RecordEarning
    <3>2. c.amount <= MaxEarned /\ Idle.at # "earn"
        BY <1>b DEF Idle
    <3> HIDE DEF c
    <3> QED
        BY <3>1, <3>2 DEF At
  <2>2. Earned + Cardinality(Saving) < MaxEarned /\ Earned' = Earned
      BY <1>3 DEF RecordEarning, Earned
  <2>3. Cardinality(Saving)' <= Cardinality(Saving) + 1
      BY <2>1, SavingCounts
  <2>4. Cardinality(Saving)' \in Nat
    <3>1. IsFiniteSet(Saving')
        BY DayIsPart, FS_Subset DEF Saving
    <3> QED
        BY <3>1, FS_CardinalityType
  <2>5. Earned' + Cardinality(Saving)' <= MaxEarned
      BY <1>b, <1>e, <2>2, <2>3, <2>4
  <2>6. \A v \in Workers : call'[v].amount <= MaxEarned
      BY <1>b, <2>1, GotoMoves
  <2> QED
      BY <1>3, <1>b, <2>5, <2>6 DEF RecordEarning, PayBounded, Earned, Saving
<1>4. ASSUME NEW w \in Workers, SaveEarning(w) PROVE PayBounded'
  <2> DEFINE d == call[w].day
  <2>1. d \in Days /\ Goto(w, Idle) /\ At(w, "earn")
      BY <1>4, <1>b DEF SaveEarning
  <2>2. earned' = [earned EXCEPT ![d] = @ + 1] /\ PayTyped'
      BY <1>4, PayTypedStep DEF SaveEarning
  <2>3. Earned' = Earned + 1
    <3>1. /\ earned'[d] = earned[d] + 1 /\ \A e \in Days \ {d} : earned'[e] = earned[e]
          /\ \A e \in Days : earned[e] \in Int /\ earned'[e] \in Int
        BY <2>1, <2>2 DEF PayTyped
    <3>2. SumOver(earned', Days) = SumOver(earned, Days) + earned'[d] - earned[d]
        BY <2>1, <3>1, DayIsPart, SumChange
    <3>3. Earned' = SumOver(earned', Days)
      <4>1. DOMAIN earned' = Days /\ Days' = Days
          BY <2>2 DEF PayTyped, Days
      <4>2. \A f : Sum(f) = SumOver(f, DOMAIN f)
          BY DEF Sum, FoldFunction, SumOver
      <4> QED
          BY <4>1, <4>2 DEF Earned
    <3> QED
        BY <1>e, <2>1, <3>1, <3>2, <3>3, DayIsPart
  <2>4. Cardinality(Saving)' = Cardinality(Saving) - 1
      BY <1>i, <2>1, SavingCounts
  <2>5. Earned' + Cardinality(Saving)' <= MaxEarned
      BY <1>b, <1>e, <2>3, <2>4
  <2>6. \A v \in Workers : call'[v].amount <= MaxEarned
      BY <1>b, <1>i, <2>1, GotoMoves
  <2>7. odd' \subseteq Days
      BY <1>4, <1>b, <2>1 DEF SaveEarning
  <2> QED
      BY <1>4, <1>b, <2>5, <2>6, <2>7 DEF SaveEarning, PayBounded, Earned, Saving
<1>5. ASSUME NEW w \in Workers, NEW d \in Days, StartRun(w, d),
             UNCHANGED <<earned, stmts>>, period' \subseteq Days, byHand' \in 0 .. MaxByHand,
             odd' \subseteq Days
      PROVE  PayBounded'
  <2>1. RunOf(d).at # "earn" /\ RunOf(d).amount <= MaxEarned /\ Goto(w, RunOf(d))
      BY <1>5, <1>b DEF RunOf, Idle, StartRun
  <2>2. doubled' \subseteq Days
      BY <1>5, <1>b DEF StartRun
  <2> QED
      BY <1>5, <1>b, <2>1, <2>2, BoundsKept
<1>6. ASSUME NEW w \in Workers, ClaimPeriod(w) PROVE PayBounded'
  <2>1. period' \subseteq Days /\ UNCHANGED <<earned, stmts, byHand, odd>>
      BY <1>6, <1>b DEF ClaimPeriod, PayTyped
  <2>2. CASE day = 0 /\ UNCHANGED <<call, doubled>>
      BY <2>1, <2>2, <1>q
  <2>3. CASE day > 0 /\ StartRun(w, Yesterday)
      BY <1>b, <1>5, <2>1, <2>3, YesterdayIsADay DEF PayTyped
  <2> QED
      BY <1>6, <2>2, <2>3 DEF ClaimPeriod
<1>7. ASSUME NEW w \in Workers, NEW d \in Days, GenerateByHand(w, d) PROVE PayBounded'
  <2>1. byHand' \in 0 .. MaxByHand /\ odd' \subseteq Days
      BY <1>7, <1>b DEF GenerateByHand
  <2> QED
      BY <1>7, <1>b, <1>5, <2>1 DEF GenerateByHand
\* What the other steps of a worker go on with was read before, or is a day's sum.
<1>8. ASSUME NEW w \in Workers, NEW c, Goto(w, c), c.at # "earn", c.amount <= MaxEarned,
             UNCHANGED <<earned, stmts, period, byHand, odd, doubled>>
      PROVE  PayBounded'
    BY <1>8, <1>b, BoundsKept
<1>m. ASSUME NEW w \in Workers, NEW at \in Steps \ {"earn"}
      PROVE  [call[w] EXCEPT !.at = at].amount <= MaxEarned /\ [call[w] EXCEPT !.at = at].at # "earn"
    BY <1>b DEF PayTyped
<1>9. ASSUME NEW w \in Workers, MemberTotals(w) PROVE PayBounded'
  <2> DEFINE c == [call[w] EXCEPT !.at = "exists", !.amount = earned[call[w].day]]
  <2>1. c.at = "exists" /\ c.amount <= MaxEarned
      BY <1>b, <1>e DEF PayTyped
  <2>2. Goto(w, Idle) \/ Goto(w, c)
      BY <1>9 DEF MemberTotals
  <2>3. UNCHANGED <<earned, stmts, period, byHand, odd, doubled>>
      BY <1>9 DEF MemberTotals
  <2> HIDE DEF c
  <2> QED
      BY <1>8, <1>i, <2>1, <2>2, <2>3
<1>10. ASSUME NEW w \in Workers, CheckExists(w) PROVE PayBounded'
  <2>1. Goto(w, Idle) \/ Goto(w, [call[w] EXCEPT !.at = "insert"])
      BY <1>10 DEF CheckExists
  <2>2. UNCHANGED <<earned, stmts, period, byHand, odd, doubled>>
      BY <1>10 DEF CheckExists
  <2> QED
      BY <1>8, <1>i, <1>m, <2>1, <2>2 DEF Steps
<1>11. ASSUME NEW w \in Workers, NEW s \in StmtId, CreateStatement(w, s) PROVE PayBounded'
  <2>1. \A t \in StmtId : stmts'[t].amount <= MaxEarned
      BY <1>11, <1>b DEF CreateStatement, PayTyped
  <2>2. Goto(w, Idle) /\ UNCHANGED <<earned, period, byHand, odd, doubled>>
      BY <1>11 DEF CreateStatement
  <2> QED
      BY <1>b, <1>i, <2>1, <2>2, BoundsKept
<1>12. ASSUME NEW w \in Workers, NEW s \in StmtId,
              \/ SettleStatement(w, s) \/ ClaimStatement(w, s) \/ DisbursePayout(w, s)
              \/ ReleaseStatement(w, s) \/ RecordPayout(w, s)
       PROVE  PayBounded'
  <2>1. UNCHANGED <<earned, period, byHand, odd, doubled>>
      BY <1>12 DEF SettleStatement, ClaimStatement, DisbursePayout, ReleaseStatement, RecordPayout
  <2>2. \A t \in StmtId : stmts'[t].amount <= MaxEarned
    <3>1. ASSUME NEW st, SetStatus(s, st)
          PROVE  \A t \in StmtId : stmts'[t].amount <= MaxEarned
        BY <1>b, <3>1 DEF SetStatus, PayTyped
    <3> QED
        BY <1>12, <1>b, <3>1
        DEF SettleStatement, ClaimStatement, DisbursePayout, ReleaseStatement, RecordPayout
  <2>3. \E c : Goto(w, c) /\ c.at # "earn" /\ c.amount <= MaxEarned
    <3>1. CASE SettleStatement(w, s)
      <4> DEFINE c == [Idle EXCEPT !.at = "claim", !.stmt = {s}]
      <4>1. Goto(w, c)
          BY <3>1 DEF SettleStatement
      <4>2. c.at = "claim" /\ c.amount <= MaxEarned
          BY <1>b DEF Idle
      <4> HIDE DEF c
      <4> QED
          BY <4>1, <4>2
    <3>2. CASE ClaimStatement(w, s)
        BY <3>2, <1>i, <1>m DEF ClaimStatement, Steps
    <3>3. CASE DisbursePayout(w, s)
        BY <3>3, <1>m DEF DisbursePayout, Steps
    <3>4. CASE ReleaseStatement(w, s) \/ RecordPayout(w, s)
        BY <3>4, <1>i DEF ReleaseStatement, RecordPayout
    <3> QED
        BY <1>12, <3>1, <3>2, <3>3, <3>4
  <2> QED
      BY <1>b, <2>1, <2>2, <2>3, BoundsKept
<1>13. ASSUME NEW w \in Workers, Stops(w) PROVE PayBounded'
  <2>1. Goto(w, Idle) /\ UNCHANGED <<earned, stmts, period, byHand, doubled>>
      BY <1>13 DEF Stops
  <2>2. odd' \subseteq Days
      BY <1>13, <1>b DEF Stops
  <2> QED
      BY <1>b, <1>i, <2>1, <2>2, BoundsKept
<1>14. CASE UNCHANGED vars
    BY <1>14, <1>b, <1>q DEF vars
<1> QED
    BY <1>1, <1>2, <1>3, <1>4, <1>6, <1>7, <1>9, <1>10, <1>11, <1>12, <1>13, <1>14
    DEF Next, Job, Request, Run, Workers

LEMMA BoundsInit == Init => PayBounded
<1> SUFFICES ASSUME Init PROVE PayBounded
    OBVIOUS
<1>1. /\ MaxEarned \in Nat /\ MaxByHand \in Nat /\ PayTyped
    BY PayAssumption, PayTypedInit
<1>2. Earned = 0
  <2> DEFINE C == {D \in SUBSET Days : SumOver(earned, D) # 0}
  <2>1. SUFFICES ASSUME C # {} PROVE FALSE
      BY <1>1, DayIsPart
  <2>2. PICK D \in C : \A E \in C : E \subseteq D => E = D
    <3>1. C \subseteq SUBSET Days
        OBVIOUS
    <3> HIDE DEF C
    <3> QED
        BY <1>1, <2>1, <3>1, DayIsPart, MinimalSubset
  <2>3. D # {} /\ IsFiniteSet(D) /\ D \subseteq Days
      BY <1>1, SumEmpty, DayIsPart, FS_Subset
  <2>4. SumOver(earned, D \ {Pick(D)}) = 0 /\ earned[Pick(D)] = 0
      BY <2>2, <2>3, PickIn DEF Init
  <2> QED
      BY <2>3, <2>4, SumPick
<1>3. Saving = {}
    BY DEF Saving, At, Init, Idle
<1>4. Earned + Cardinality(Saving) <= MaxEarned
    BY <1>1, <1>2, <1>3, FS_EmptySet
<1> QED
    BY <1>1, <1>4 DEF PayBounded, Earned, Init, Idle, NoStmt

\* The rows and the handlers are well formed, for any number of replicas, requests,
\* days and statements, and no sum a run read exceeds what was earned.
THEOREM TypeCorrect == Spec => []TypeOK
<1>1. PayTyped /\ PayBounded => TypeOK
  <2> SUFFICES ASSUME PayTyped, PayBounded PROVE TypeOK
      OBVIOUS
  <2>1. \A d \in Days : earned[d] <= MaxEarned
    <3>1. Earned + Cardinality(Saving) <= MaxEarned
        BY DEF PayBounded, Earned
    <3>2. Cardinality(Saving) \in Nat
        BY DayIsPart, FS_Subset, FS_CardinalityType DEF Saving
    <3> QED
        BY <3>1, <3>2, DayIsPart, PayAssumption DEF PayTyped
  <2>2. earned \in [Days -> 0 .. MaxEarned]
      BY <2>1, PayAssumption DEF PayTyped
  <2>3. stmts \in [StmtId -> [day : Days, amount : 0 .. MaxEarned,
                               status : Statuses \cup {"none"}]]
      BY PayAssumption DEF PayTyped, PayBounded
  <2>4. call \in [Workers -> [at : Steps, day : Days, amount : 0 .. MaxEarned,
                              stmt : {{}} \cup {{s} : s \in StmtId}]]
      BY PayAssumption DEF PayTyped, PayBounded
  <2> QED
      BY <2>2, <2>3, <2>4 DEF TypeOK, PayTyped, PayBounded
<1> QED
    BY <1>1, PayTypedInit, PayTypedStep, BoundsInit, BoundsStep, PTL DEF Spec
=============================================================================
