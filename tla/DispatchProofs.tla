------------------------ MODULE DispatchProofs ------------------------
(***************************************************************************)
(* Theorems about the choice of a rider, for any number of riders, any     *)
(* distances and any search limit; about the stamps in the metadata of a   *)
(* task; about the quote for a delivery, on any road; and about what a rule *)
(* with tiers pays for any distance.                                       *)
(***************************************************************************)
EXTENDS MCDispatch, SumTheorems

-----------------------------------------------------------------------------
(* Types *)

LEMMA RunTypes == NoRun \in Run
  BY DEF NoRun, Run

LEMMA ObserveTypes ==
    ASSUME TypeOK, Observe, declined' \subseteq Riders
    PROVE  steady' \subseteq Riders /\ since' \subseteq Riders
  BY DEF TypeOK, Observe

LEMMA TypeRider ==
    ASSUME TypeOK, NEW r \in Riders,
           \/ ReportPosition(r) \/ GoQuiet(r) \/ GoOffline(r) \/ Clear(r)
           \/ TakeByHand(r) \/ Decline(r)
    PROVE  TypeOK'
<1>1. Observe /\ declined' \subseteq Riders
  BY DEF TypeOK, ReportPosition, GoQuiet, GoOffline, Clear, TakeByHand, Decline
<1>2. steady' \subseteq Riders /\ since' \subseteq Riders
  BY <1>1, ObserveTypes
<1>3. fix' \in [Riders -> Fix]
  BY DEF TypeOK, Fix, ReportPosition, GoQuiet, GoOffline, Clear, TakeByHand, Decline
<1>4. cleared' \subseteq Riders
  BY DEF TypeOK, ReportPosition, GoQuiet, GoOffline, Clear, TakeByHand, Decline
<1>5. task' \in {{}} \cup {{x} : x \in Riders}
  BY DEF TypeOK, ReportPosition, GoQuiet, GoOffline, Clear, TakeByHand, Decline
<1>6. run' = run
  BY DEF ReportPosition, GoQuiet, GoOffline, Clear, TakeByHand, Decline
<1> QED BY <1>1, <1>2, <1>3, <1>4, <1>5, <1>6 DEF TypeOK

LEMMA TypeDispatch ==
    ASSUME TypeOK,
           \/ \E batch \in BOOLEAN : Begin(batch)
           \/ Search \/ Filter \/ Refuse
           \/ \E r \in Riders : Assign(r) \/ Drop(r)
    PROVE  TypeOK'
<1>1. run' \in Run
  <2>1. CASE \E batch \in BOOLEAN : Begin(batch)
    BY <2>1 DEF Begin, TypeOK, Run
  <2>2. CASE Search
    <3>1. PICK riders \in SUBSET run.riders, crowded \in BOOLEAN :
            run' = [run EXCEPT !.step = "found", !.riders = riders, !.crowded = crowded]
      <4>1. CASE run' = [run EXCEPT !.step = "found", !.riders = @ \cap Found,
                                    !.crowded = Cardinality(Placed) > SearchLimit]
        <5> DEFINE crowded == Cardinality(Placed) > SearchLimit
        <5>1. run' = [run EXCEPT !.step = "found", !.riders = run.riders \cap Found,
                                 !.crowded = crowded]
          BY <4>1 DEF TypeOK, Run
        <5>2. crowded \in BOOLEAN
          OBVIOUS
        <5> HIDE DEF crowded
        <5> QED BY <5>1, <5>2
      <4>2. CASE run' = [run EXCEPT !.step = "found", !.riders = @ \cap Placed]
        <5> run' = [run EXCEPT !.step = "found", !.riders = run.riders \cap Placed,
                               !.crowded = run.crowded]
          BY <4>2 DEF TypeOK, Run
        <5> QED BY DEF TypeOK, Run
      <4> QED BY <2>2, <4>1, <4>2 DEF Search
    <3> QED BY <3>1 DEF TypeOK, Run
  <2>3. CASE Filter
    BY <2>3 DEF Filter, TypeOK, Run
  <2>4. CASE run' = NoRun
    BY <2>4, RunTypes
  <2> QED BY <2>1, <2>2, <2>3, <2>4 DEF Refuse, Assign, Drop
<1>2. steady' \subseteq Riders /\ since' \subseteq Riders
  <2>1. CASE \E batch \in BOOLEAN : Begin(batch)
    BY <2>1 DEF Begin
  <2>2. CASE Observe /\ declined' = declined
    BY <2>2, ObserveTypes DEF TypeOK
  <2> QED BY <2>1, <2>2 DEF Search, Filter, Refuse, Assign, Drop
<1>3. task' \in {{}} \cup {{x} : x \in Riders}
  BY DEF TypeOK, Begin, Search, Filter, Refuse, Assign, Drop
<1>4. UNCHANGED <<fix, cleared, declined>>
  BY DEF Begin, Search, Filter, Refuse, Assign, Drop
<1> QED BY <1>1, <1>2, <1>3, <1>4 DEF TypeOK

LEMMA TypeNext == TypeOK /\ [Next]_vars => TypeOK'
<1> SUFFICES ASSUME TypeOK, [Next]_vars PROVE TypeOK'
  OBVIOUS
<1>1. CASE UNCHANGED vars
  BY <1>1 DEF vars, TypeOK
<1>2. CASE Next
  BY <1>2, TypeRider, TypeDispatch DEF Next
<1> QED BY <1>1, <1>2

\* The variables keep their types.
THEOREM TypeCorrect == Spec => []TypeOK
<1>1. Init => TypeOK
  BY RunTypes DEF Init, TypeOK, Fix
<1> QED BY <1>1, TypeNext, PTL DEF Spec

-----------------------------------------------------------------------------
(* What a dispatch still holds *)

\* The dispatch has not lost a rider who was there all the time.
Kept ==
    /\ run.step # "none" => steady \subseteq run.riders \/ run.crowded
    /\ run.step = "listed" => ~run.crowded

\* Whoever is left and declined did so after the riders who declined were read.
Heard ==
    run.step = "filtered" /\ ~run.batch => run.riders \cap declined \subseteq since

DispatchInv ==
    /\ \A r \in steady : Free(r)
    /\ Kept
    /\ Heard

LEMMA PlacedFinite == IsFiniteSet(Placed) /\ Cardinality(Placed) \in Nat
  BY RidersAssumption, FS_Subset, FS_CardinalityType DEF Placed

\* A search that is not crowded finds every position.
LEMMA NotCrowded ==
    ASSUME TypeOK, Cardinality(Placed) <= SearchLimit
    PROVE  Placed \subseteq Found
<1> SUFFICES ASSUME NEW r \in Placed
             PROVE  Cardinality({s \in Placed : Distance[s] < Distance[r]}) < SearchLimit
  BY DEF Found
<1> DEFINE Nearby == {s \in Placed : Distance[s] < Distance[r]}
<1>1. IsFiniteSet(Placed)
  BY PlacedFinite
<1>2. Nearby \subseteq Placed \ {r}
  BY RidersAssumption DEF Placed
<1>3. IsFiniteSet(Placed \ {r}) /\ Cardinality(Placed \ {r}) = Cardinality(Placed) - 1
  BY <1>1, FS_RemoveElement
<1>4. IsFiniteSet(Nearby) /\ Cardinality(Nearby) <= Cardinality(Placed \ {r})
  BY <1>2, <1>3, FS_Subset
<1>5. Cardinality(Nearby) \in Nat /\ Cardinality(Placed) \in Nat
  BY <1>1, <1>4, FS_CardinalityType
<1> HIDE DEF Nearby
<1>6. Cardinality(Nearby) < SearchLimit
  BY <1>3, <1>4, <1>5, RidersAssumption
<1> QED BY <1>6 DEF Nearby

LEMMA SteadyIsFree ==
    ASSUME Observe \/ \E batch \in BOOLEAN : Begin(batch), NEW r \in steady'
    PROVE  Free(r)'
  BY DEF Observe, Begin, Free

LEMMA SteadyShrinks ==
    ASSUME Observe
    PROVE  steady' \subseteq steady
  BY DEF Observe

LEMMA DispatchNext == TypeOK /\ DispatchInv /\ [Next]_vars => DispatchInv'
<1> SUFFICES ASSUME TypeOK, DispatchInv, [Next]_vars PROVE DispatchInv'
  OBVIOUS
<1>1. CASE UNCHANGED vars
  BY <1>1 DEF vars, DispatchInv, Kept, Heard, Free
<1>2. CASE Observe /\ run' = run
  <2>1. \A r \in steady' : Free(r)'
    BY <1>2, SteadyIsFree
  <2>2. Kept'
    BY <1>2, SteadyShrinks DEF DispatchInv, Kept
  <2>3. Heard'
    BY <1>2 DEF DispatchInv, Heard, Observe, NoRun
  <2> QED BY <2>1, <2>2, <2>3 DEF DispatchInv
<1>3. CASE Observe /\ run' = NoRun
  BY <1>3, SteadyIsFree DEF DispatchInv, Kept, Heard, NoRun
<1>4. ASSUME NEW batch \in BOOLEAN, Begin(batch) PROVE DispatchInv'
  BY <1>4, SteadyIsFree DEF Begin, DispatchInv, Kept, Heard, Free
<1>5. CASE Search
  <2>1. \A r \in steady' : Free(r)'
    BY <1>5, SteadyIsFree DEF Search
  <2>2. run'.step = "found"
    BY <1>5 DEF Search, TypeOK, Run
  <2>3. steady' \subseteq steady /\ steady \subseteq Placed
    BY <1>5, SteadyShrinks DEF Search, DispatchInv, Free, Placed, TypeOK
  <2>4. steady \subseteq run.riders
    BY <1>5 DEF Search, DispatchInv, Kept
  <2>5. Kept'
    <3>1. CASE run' = [run EXCEPT !.step = "found", !.riders = @ \cap Found,
                                  !.crowded = Cardinality(Placed) > SearchLimit]
      <4>1. /\ run'.riders = run.riders \cap Found
            /\ run'.crowded = (Cardinality(Placed) > SearchLimit)
        BY <3>1 DEF TypeOK, Run
      <4>2. CASE run'.crowded
        BY <2>2, <4>2 DEF Kept
      <4>3. CASE ~run'.crowded
        <5>1. Cardinality(Placed) <= SearchLimit
          <6>1. ~(Cardinality(Placed) > SearchLimit)
            BY <4>1, <4>3, Zenon
          <6> QED BY <6>1, PlacedFinite, RidersAssumption
        <5>2. Placed \subseteq Found
          BY <5>1, NotCrowded
        <5> QED BY <2>2, <2>3, <2>4, <4>1, <5>2 DEF Kept
      <4> QED BY <4>2, <4>3
    <3>2. CASE run' = [run EXCEPT !.step = "found", !.riders = @ \cap Placed]
      <4> run'.riders = run.riders \cap Placed /\ run'.crowded = run.crowded
        BY <3>2 DEF TypeOK, Run
      <4> QED BY <2>2, <2>3, <2>4 DEF Kept
    <3> QED BY <1>5, <3>1, <3>2 DEF Search
  <2> QED BY <2>1, <2>2, <2>5 DEF DispatchInv, Heard
<1>6. CASE Filter
  <2>1. \A r \in steady' : Free(r)'
    BY <1>6, SteadyIsFree DEF Filter
  <2>2. steady' \subseteq steady /\ \A r \in steady : fix[r] = "fresh" /\ r \notin LeftOut
    BY <1>6, SteadyShrinks DEF Filter, DispatchInv, Free, LeftOut
  <2>3. /\ run'.riders = {r \in run.riders \ LeftOut : fix[r] = "fresh"}
        /\ run'.crowded = run.crowded /\ run'.batch = run.batch /\ declined' = declined
    BY <1>6 DEF Filter, TypeOK, Run
  <2>4. Kept'
    BY <1>6, <2>2, <2>3 DEF DispatchInv, Kept, Filter
  <2>5. Heard'
    BY <2>3 DEF Heard, LeftOut
  <2> QED BY <2>1, <2>4, <2>5 DEF DispatchInv
<1> QED
  BY <1>1, <1>2, <1>3, <1>4, <1>5, <1>6
     DEF Next, ReportPosition, GoQuiet, GoOffline, Clear, TakeByHand, Decline, Assign, Drop, Refuse

LEMMA DispatchAlways == Spec => [](TypeOK /\ DispatchInv)
<1>1. Init => DispatchInv
  BY DEF Init, DispatchInv, Kept, Heard, NoRun
<1> QED BY <1>1, DispatchNext, TypeCorrect, PTL DEF Spec

-----------------------------------------------------------------------------
(* Theorems *)

LEMMA OnlyAssignChooses ==
    ASSUME TypeOK, [Next]_vars, NEW r \in Chosen
    PROVE  r \in Riders /\ Assign(r)
<1>1. task = {} /\ run # NoRun /\ run' = NoRun /\ r \in task'
  BY DEF Chosen
<1>2. PICK s \in Riders : Assign(s)
  BY <1>1 DEF Next, vars, ReportPosition, GoQuiet, GoOffline, Clear, TakeByHand, Decline,
              Drop, Begin, Search, Filter, Refuse
<1>3. r = s
  BY <1>1, <1>2 DEF Assign
<1> QED BY <1>2, <1>3

\* A dispatch that tells the dispatcher nobody is there has not overlooked a rider
\* who was there from its first query to its last (DispatchTask).
THEOREM NobodyIsOverlooked == Spec => NobodyOverlooked
<1>1. TypeOK /\ DispatchInv => (Refuse => steady = {} \/ run.crowded)
  BY DEF DispatchInv, Kept, Refuse
<1> QED BY <1>1, DispatchAlways, PTL DEF NobodyOverlooked

\* A rider who covers the zone, or is nearer, and was there all the time is not
\* passed over (preferZoneRiders, findNearestRiders).
THEOREM TheBestIsChosen == Spec => BestIsChosen
<1>1. TypeOK /\ DispatchInv /\ [Next]_vars
        => \A r \in Chosen, s \in steady : Prefers(s, r) => run.crowded
  BY OnlyAssignChooses DEF DispatchInv, Kept, Assign, Choice
<1> QED BY <1>1, DispatchAlways, PTL DEF BestIsChosen, Spec

\* Neither DispatchTask nor the batch gives a job to a rider who had turned it down
\* before they began.
THEOREM DeclinesAreHeard == Spec => DeclinedIsHeard
<1>1. TypeOK /\ DispatchInv /\ [Next]_vars
        => \A r \in Chosen : r \in declined => r \in since
  BY OnlyAssignChooses DEF DispatchInv, Heard, Assign, Choice, Taken
<1> QED BY <1>1, DispatchAlways, PTL DEF DeclinedIsHeard, Spec

-----------------------------------------------------------------------------
(* The metadata of a task *)

\* What an edit that is to be written leaves on the task.
LEMMA RecordEdits ==
    ASSUME Record!TypeOK
    PROVE  /\ Record!Idle \in Record!Edit
           /\ \A stamps \in SUBSET Record!Stamp : Record!WithStamps(stamps) \in Record!Meta
<1>1. Record!NoMeta \in Record!Meta
  BY AttemptsAssumption DEF Record!NoMeta, Record!Meta, Record!Outcome
<1>2. Record!Idle \in Record!Edit
  BY <1>1 DEF Record!Idle, Record!Edit, Record!TaskStatuses
<1>3. ASSUME NEW stamps \in SUBSET Record!Stamp
      PROVE  Record!WithStamps(stamps) \in Record!Meta
  BY DEF Record!WithStamps, Record!TypeOK, Record!Meta
<1> QED BY <1>2, <1>3

LEMMA RecordPlan ==
    ASSUME Record!TypeOK, NEW h \in Handlers, NEW to \in Record!TaskStatuses,
           NEW m \in Record!Meta, NEW keeps \in BOOLEAN, Record!Plan(h, to, m, keeps)
    PROVE  Record!TypeOK'
  BY DEF Record!TypeOK, Record!Plan, Record!Edit

LEMMA RecordTypeNext == Record!TypeOK /\ [Record!Next]_recordVars => Record!TypeOK'
<1> SUFFICES ASSUME Record!TypeOK, [Record!Next]_recordVars PROVE Record!TypeOK'
  OBVIOUS
<1>1. CASE UNCHANGED recordVars
  BY <1>1 DEF recordVars, Record!TypeOK
<1>2. CASE Record!Assign \/ Record!Release
  BY <1>2 DEF Record!Assign, Record!Release, Record!TypeOK, Record!TaskStatuses,
     Record!InProgressStatuses
<1>3. ASSUME NEW h \in Handlers, NEW to \in Record!TaskStatuses, Record!ChangeStatus(h, to)
      PROVE  Record!TypeOK'
  <2>1. Record!WithStamps(Record!ReasonStamps(to)) \in Record!Meta
    BY RecordEdits DEF Record!ReasonStamps, Record!Stamp
  <2> QED BY <1>3, <2>1, RecordPlan DEF Record!ChangeStatus
<1>4. ASSUME NEW h \in Handlers, NEW override \in BOOLEAN, Record!Deliver(h, override)
      PROVE  Record!TypeOK'
  <2> DEFINE stamps == {"delivered"} \cup IF override THEN {"override"} ELSE {}
  <2>1. Record!WithStamps(stamps) \in Record!Meta
    BY RecordEdits DEF Record!Stamp
  <2>2. "delivered" \in Record!TaskStatuses
    BY DEF Record!TaskStatuses, Record!TerminalStatuses
  <2>3. Record!Plan(h, "delivered", Record!WithStamps(stamps), FALSE)
    BY <1>4 DEF Record!Deliver
  <2> QED BY <2>1, <2>2, <2>3, RecordPlan
<1>5. ASSUME NEW h \in Handlers, Record!WrongCode(h) PROVE Record!TypeOK'
  <2>1. [meta EXCEPT !.attempts = @ + 1] \in Record!Meta
    BY <1>5, AttemptsAssumption
    DEF Record!WrongCode, Record!CodeOpen, Record!TypeOK, Record!Meta
  <2> QED BY <1>5, <2>1, RecordPlan DEF Record!WrongCode, Record!TypeOK
<1>6. ASSUME NEW h \in Handlers, Record!Write(h) \/ Record!Abandon(h)
      PROVE  Record!TypeOK'
  <2>1. edit[h].to \in Record!TaskStatuses /\ edit[h].meta \in Record!Meta
    BY DEF Record!TypeOK, Record!Edit
  <2> QED BY <1>6, <2>1, RecordEdits DEF Record!Write, Record!Abandon, Record!TypeOK
<1>7. ASSUME NEW h \in Handlers, Record!RaiseForTask(h) PROVE Record!TypeOK'
  BY <1>7, RecordEdits DEF Record!RaiseForTask, Record!TypeOK, Record!Edit
<1>8. ASSUME NEW h \in Handlers, NEW outcome \in {"raised", "skipped", "failed"},
             Record!RaiseClaim(h, outcome)
      PROVE  Record!TypeOK'
  <2>1. claim' \in BOOLEAN
    BY <1>8 DEF Record!RaiseClaim, Record!TypeOK
  <2> DEFINE e == [edit[h] EXCEPT !.at = "record", !.meta.perDiem = outcome]
  <2>2. edit[h] \in Record!Edit /\ edit[h].meta \in Record!Meta
    BY DEF Record!TypeOK, Record!Edit
  <2>3. [edit[h].meta EXCEPT !.perDiem = outcome] \in Record!Meta
    BY <2>2 DEF Record!Meta, Record!Outcome
  <2>4. e \in Record!Edit
    BY <2>2, <2>3 DEF Record!Edit
  <2>5. edit' = [edit EXCEPT ![h] = e]
    BY <1>8 DEF Record!RaiseClaim
  <2>6. edit' \in [Handlers -> Record!Edit]
    BY <2>4, <2>5 DEF Record!TypeOK
  <2> QED BY <1>8, <2>1, <2>6 DEF Record!RaiseClaim, Record!TypeOK
<1>9. ASSUME NEW h \in Handlers, Record!Record(h) PROVE Record!TypeOK'
  <2>1. edit[h].meta \in Record!Meta
    BY DEF Record!TypeOK, Record!Edit
  <2>2. overwritten' \in BOOLEAN
    BY <1>9 DEF Record!Record, Record!TypeOK
  <2> QED BY <1>9, <2>1, <2>2, RecordEdits DEF Record!Record, Record!TypeOK
<1> QED
  BY <1>1, <1>2, <1>3, <1>4, <1>5, <1>6, <1>7, <1>8, <1>9 DEF Record!Next

\* An edit was made for the status it was read in: it closes the task with the stamp
\* of the closing, and after pickup it carries the stamp or leaves it alone.
EditFits(e) ==
    e.at = "write" =>
        /\ e.to \in Record!TerminalStatuses => ~e.keeps /\ e.to \in e.meta.stamps
        /\ e.to \in Record!PostPickupStatuses =>
              IF e.keeps THEN e.seen \in Record!PostPickupStatuses
              ELSE "picked_up" \in e.meta.stamps

RecordInv ==
    /\ Record!StampsFitStatus
    /\ ~overwritten => \A h \in Handlers : EditFits(edit[h])

\* The status a change leads to.
LEMMA RecordStatuses ==
    ASSUME NEW from, NEW to
    PROVE  /\ Record!StatusChangeAllowed(from, to, FALSE) =>
                 /\ to \in Record!TerminalStatuses => to \in {"failed", "cancelled"}
                 /\ to \in Record!PostPickupStatuses =>
                       to = "picked_up" \/ from \in Record!PostPickupStatuses
           /\ to \in Record!PostPickupStatuses =>
                 to \notin Record!TerminalStatuses /\ to \notin Record!PrePickupStatuses
  <1>1. ASSUME Record!ValidTransition(from, to), to \in Record!TerminalStatuses,
               to \notin {"delivered", "completed"}
        PROVE  to \in {"failed", "cancelled"}
    BY <1>1 DEF Record!ValidTransition, Record!validTransitions, Record!TerminalStatuses
  <1>2. ASSUME Record!ValidTransition(from, to), to \in Record!PostPickupStatuses
        PROVE  to = "picked_up" \/ from \in Record!PostPickupStatuses
    BY <1>2 DEF Record!ValidTransition, Record!validTransitions, Record!PostPickupStatuses
  <1>3. to \in Record!PostPickupStatuses =>
                 to \notin Record!TerminalStatuses /\ to \notin Record!PrePickupStatuses
    BY DEF Record!PostPickupStatuses, Record!TerminalStatuses, Record!PrePickupStatuses
  <1> QED BY <1>1, <1>2, <1>3 DEF Record!StatusChangeAllowed

\* A plan that fits keeps the invariant: nothing but the plan changes.
LEMMA PlanFits ==
    ASSUME Record!TypeOK, RecordInv, NEW h \in Handlers, NEW to, NEW m, NEW keeps \in BOOLEAN,
           Record!Plan(h, to, m, keeps),
           ~overwritten =>
               /\ to \in Record!TerminalStatuses => ~keeps /\ to \in m.stamps
               /\ to \in Record!PostPickupStatuses =>
                     IF keeps THEN status \in Record!PostPickupStatuses
                     ELSE "picked_up" \in m.stamps
    PROVE  RecordInv'
<1>1. Record!StampsFitStatus'
  BY DEF Record!Plan, RecordInv, Record!StampsFitStatus
<1>2. ASSUME ~overwritten, NEW g \in Handlers PROVE EditFits(edit'[g])
  <2>1. CASE g = h
    BY <1>2, <2>1 DEF Record!Plan, EditFits, Record!TypeOK
  <2>2. CASE g # h
    BY <1>2, <2>2 DEF Record!Plan, RecordInv, EditFits, Record!TypeOK
  <2> QED BY <2>1, <2>2
<1> QED BY <1>1, <1>2 DEF RecordInv, Record!Plan

\* Steps that leave the task as it is and put no edit in.
LEMMA OthersFit ==
    ASSUME Record!TypeOK, RecordInv, NEW h \in Handlers,
           \A g \in Handlers : g # h => edit'[g] = edit[g],
           edit'[h].at # "write",
           overwritten' \in BOOLEAN, overwritten => overwritten',
           ~overwritten' => Record!StampsFitStatus'
    PROVE  RecordInv'
<1>1. Record!StampsFitStatus'
  BY DEF Record!StampsFitStatus
<1>2. ASSUME ~overwritten', NEW g \in Handlers PROVE EditFits(edit'[g])
  BY <1>2 DEF RecordInv, EditFits
<1> QED BY <1>1, <1>2 DEF RecordInv

LEMMA RecordInvNext == Record!TypeOK /\ RecordInv /\ [Record!Next]_recordVars => RecordInv'
<1> SUFFICES ASSUME Record!TypeOK, RecordInv, [Record!Next]_recordVars PROVE RecordInv'
  OBVIOUS
<1>T. /\ overwritten \in BOOLEAN
      /\ ~overwritten /\ status \in Record!TerminalStatuses => status \in meta.stamps
      /\ ~overwritten /\ status \in Record!PostPickupStatuses => "picked_up" \in meta.stamps
  BY DEF RecordInv, Record!StampsFitStatus, Record!TypeOK
<1>S. \A stamps \in SUBSET Record!Stamp :
         Record!WithStamps(stamps).stamps = meta.stamps \cup stamps
  BY DEF Record!WithStamps, Record!TypeOK, Record!Meta
<1>1. CASE UNCHANGED recordVars
  BY <1>1 DEF recordVars, RecordInv, Record!StampsFitStatus, EditFits
<1>2. CASE Record!Assign \/ Record!Release
  <2>1. status' \notin Record!TerminalStatuses /\ status' \notin Record!PostPickupStatuses
    BY <1>2 DEF Record!Assign, Record!Release, Record!TerminalStatuses,
       Record!PostPickupStatuses
  <2> QED
    BY <1>2, <2>1 DEF Record!Assign, Record!Release, RecordInv, Record!StampsFitStatus, EditFits
<1>3. ASSUME NEW h \in Handlers, NEW to \in Record!TaskStatuses, Record!ChangeStatus(h, to)
      PROVE  RecordInv'
  <2> DEFINE stamps == Record!ReasonStamps(to)
  <2>1. /\ to \in Record!TerminalStatuses => to \in {"failed", "cancelled"}
        /\ to \in Record!PostPickupStatuses =>
              to = "picked_up" \/ status \in Record!PostPickupStatuses
    BY <1>3, RecordStatuses DEF Record!ChangeStatus, Record!PostPickupStatuses
  <2>2. stamps \in SUBSET Record!Stamp /\ (to \in {"failed", "cancelled", "picked_up"} => to \in stamps)
    BY DEF Record!ReasonStamps, Record!Stamp
  <2>3. Record!Plan(h, to, Record!WithStamps(stamps), stamps = {})
    BY <1>3 DEF Record!ChangeStatus
  <2>4. ASSUME ~overwritten
        PROVE  /\ to \in Record!TerminalStatuses =>
                     stamps # {} /\ to \in Record!WithStamps(stamps).stamps
               /\ to \in Record!PostPickupStatuses =>
                     IF stamps = {} THEN status \in Record!PostPickupStatuses
                     ELSE "picked_up" \in Record!WithStamps(stamps).stamps
    BY <1>T, <1>S, <2>1, <2>2, <2>4
  <2> HIDE DEF stamps
  <2> QED BY <2>3, <2>4, PlanFits
<1>4. ASSUME NEW h \in Handlers, NEW override \in BOOLEAN, Record!Deliver(h, override)
      PROVE  RecordInv'
  <2> DEFINE stamps == {"delivered"} \cup IF override THEN {"override"} ELSE {}
  <2>1. Record!Plan(h, "delivered", Record!WithStamps(stamps), FALSE)
    BY <1>4 DEF Record!Deliver
  <2>2. "delivered" \in Record!WithStamps(stamps).stamps
    BY <1>S DEF Record!Stamp
  <2>3. "delivered" \notin Record!PostPickupStatuses
    BY DEF Record!PostPickupStatuses
  <2> HIDE DEF stamps
  <2> QED BY <2>1, <2>2, <2>3, PlanFits
<1>5. ASSUME NEW h \in Handlers, Record!WrongCode(h) PROVE RecordInv'
  <2> DEFINE m == [meta EXCEPT !.attempts = @ + 1]
  <2>1. Record!Plan(h, status, m, FALSE) /\ status \in Record!PostPickupStatuses
    BY <1>5 DEF Record!WrongCode, Record!CodeOpen
  <2>2. m.stamps = meta.stamps
    BY DEF Record!TypeOK, Record!Meta
  <2>3. status \notin Record!TerminalStatuses
    BY <2>1, RecordStatuses
  <2> HIDE DEF m
  <2> QED BY <1>T, <2>1, <2>2, <2>3, PlanFits
<1>6. ASSUME NEW h \in Handlers, Record!Write(h) PROVE RecordInv'
  <2> DEFINE e == edit[h]
  <2>1. /\ e.at = "write" /\ status = e.seen /\ status' = e.to /\ overwritten' = overwritten
        /\ meta' = IF e.keeps THEN meta ELSE e.meta
    BY <1>6 DEF Record!Write, Record!StatusEQ
  <2>2. ~overwritten => EditFits(e)
    BY DEF RecordInv
  <2>3. ~overwritten => Record!StampsFitStatus'
    BY <1>T, <2>1, <2>2 DEF EditFits, Record!StampsFitStatus
  <2> QED
    BY <1>6, <1>T, <2>1, <2>3, OthersFit DEF Record!Write, Record!TypeOK, Record!Idle
<1>7. ASSUME NEW h \in Handlers,
             \/ Record!RaiseForTask(h) \/ Record!Abandon(h)
             \/ \E outcome \in {"raised", "skipped", "failed"} : Record!RaiseClaim(h, outcome)
      PROVE  RecordInv'
  <2>1. /\ UNCHANGED <<status, meta, overwritten>> /\ edit'[h].at # "write"
        /\ \A g \in Handlers : g # h => edit'[g] = edit[g]
    <3>0. Record!Idle.at = "idle" /\ [Record!Idle EXCEPT !.at = "claim", !.meta = meta].at = "claim"
      BY DEF Record!Idle
    <3>1. CASE Record!RaiseForTask(h) \/ Record!Abandon(h)
      BY <3>0, <3>1 DEF Record!RaiseForTask, Record!Abandon, Record!TypeOK
    <3>2. ASSUME NEW outcome \in {"raised", "skipped", "failed"}, Record!RaiseClaim(h, outcome)
          PROVE  /\ UNCHANGED <<status, meta, overwritten>> /\ edit'[h].at # "write"
                 /\ \A g \in Handlers : g # h => edit'[g] = edit[g]
      <4>1. edit[h] \in Record!Edit
        BY DEF Record!TypeOK
      <4>2. edit'[h].at = "record"
        BY <3>2, <4>1 DEF Record!RaiseClaim, Record!TypeOK, Record!Edit
      <4> QED BY <3>2, <4>2 DEF Record!RaiseClaim, Record!TypeOK
    <3> QED BY <1>7, <3>1, <3>2
  <2>2. Record!StampsFitStatus'
    BY <2>1 DEF RecordInv, Record!StampsFitStatus
  <2> QED BY <1>T, <2>1, <2>2, OthersFit
<1>8. ASSUME NEW h \in Handlers, Record!Record(h) PROVE RecordInv'
  <2>1. /\ status' = status /\ edit'[h].at # "write"
        /\ \A g \in Handlers : g # h => edit'[g] = edit[g]
    BY <1>8 DEF Record!Record, Record!Idle, Record!TypeOK
  <2>2. overwritten' \in BOOLEAN /\ (overwritten => overwritten')
    BY <1>8 DEF Record!Record, Record!TypeOK
  <2>3. ~overwritten' => ~overwritten /\ meta.stamps \subseteq meta'.stamps
    BY <1>8 DEF Record!Record
  <2>4. ~overwritten' => Record!StampsFitStatus'
    BY <1>T, <2>1, <2>3 DEF Record!StampsFitStatus
  <2> QED BY <2>1, <2>2, <2>4, OthersFit
<1> QED
  BY <1>1, <1>2, <1>3, <1>4, <1>5, <1>6, <1>7, <1>8 DEF Record!Next

LEMMA RecordInit == Record!Init => Record!TypeOK /\ RecordInv
<1> SUFFICES ASSUME Record!Init PROVE Record!TypeOK /\ RecordInv
  OBVIOUS
<1>1. Record!NoMeta \in Record!Meta
  BY AttemptsAssumption DEF Record!NoMeta, Record!Meta, Record!Outcome
<1>2. Record!Idle \in Record!Edit
  BY <1>1 DEF Record!Idle, Record!Edit, Record!TaskStatuses
<1>3. Record!TypeOK
  BY <1>1, <1>2 DEF Record!Init, Record!TypeOK, Record!TaskStatuses
<1>4. RecordInv
  BY DEF Record!Init, RecordInv, Record!StampsFitStatus, EditFits, Record!Idle,
     Record!TerminalStatuses, Record!PostPickupStatuses
<1> QED BY <1>3, <1>4

\* However many handlers write all of the metadata from a row they read before, a
\* closed task says how it was closed and a collected one when, unless the outcome
\* of a per diem was saved over it.
THEOREM ClosingsAreStamped == Record!Spec => []StampsFitStatus
<1>1. RecordInv => StampsFitStatus
  BY DEF RecordInv, StampsFitStatus
<1> QED
  BY <1>1, RecordInit, RecordTypeNext, RecordInvNext, PTL
  DEF Record!Spec, Record!vars, recordVars

-----------------------------------------------------------------------------
(* The price of a delivery *)

LEMMA TimesMonotone ==
    ASSUME NEW x \in Int, NEW y \in Int, NEW n \in Nat, x <= y
    PROVE  n * x <= n * y
  OBVIOUS

\* Rounding up keeps the order and adds nothing below zero.
LEMMA RoundUpMonotone ==
    ASSUME NEW x \in Int, NEW y \in Int, NEW unit \in Nat \ {0}, x <= y
    PROVE  /\ Quote!RoundUp(x, unit) \in Int
           /\ Quote!RoundUp(x, unit) <= Quote!RoundUp(y, unit)
           /\ x >= 0 => Quote!RoundUp(x, unit) >= 0
<1> DEFINE p == (x + unit - 1) \div unit
           q == (y + unit - 1) \div unit
<1>1. p \in Int /\ q \in Int
  OBVIOUS
<1>2. unit * p <= x + unit - 1 /\ x + unit - 1 < unit * p + unit
  OBVIOUS
<1>3. unit * q <= y + unit - 1 /\ y + unit - 1 < unit * q + unit
  OBVIOUS
<1> HIDE DEF p, q
<1>4. p <= q
  <2> SUFFICES ASSUME q + 1 <= p PROVE FALSE
    BY <1>1
  <2>1. unit * (q + 1) <= unit * p
    BY <1>1, TimesMonotone
  <2>2. unit * (q + 1) = unit * q + unit
    BY <1>1
  <2> QED BY <1>1, <1>2, <1>3, <2>1, <2>2
<1>5. x >= 0 => p >= 0
  <2> SUFFICES ASSUME x >= 0, p <= -1 PROVE FALSE
    BY <1>1
  <2>1. unit * p <= unit * (-1)
    BY <1>1, TimesMonotone
  <2> QED BY <1>1, <1>2, <2>1
<1>6. unit * p <= unit * q /\ (x >= 0 => unit * p >= 0)
  <2>1. unit * p <= unit * q
    BY <1>1, <1>4, TimesMonotone
  <2>2. x >= 0 => unit * 0 <= unit * p
    BY <1>1, <1>5, TimesMonotone
  <2> QED BY <1>1, <2>1, <2>2
<1>7. p * unit = unit * p /\ q * unit = unit * q
  BY <1>1
<1>8. Quote!RoundUp(x, unit) = p * unit /\ Quote!RoundUp(y, unit) = q * unit
  BY DEF Quote!RoundUp, p, q
<1> QED BY <1>1, <1>6, <1>7, <1>8

LEMMA PerKmMonotone ==
    ASSUME policy \in Policies, NEW near \in Int, NEW far \in Int, near <= far
    PROVE  /\ Quote!PerKmFee(near) \in Int
           /\ Quote!PerKmFee(near) <= Quote!PerKmFee(far)
<1>1. /\ policy.base \in Nat /\ policy.rate \in Nat /\ policy.minFee \in Nat
      /\ policy.rounding \in Nat \ {0}
  BY RoadAssumption DEF Quote!Policy
<1> DEFINE x == policy.base + policy.rate * near
           y == policy.base + policy.rate * far
<1>2. policy.rate * near <= policy.rate * far
  BY <1>1, TimesMonotone
<1>3. x \in Int /\ y \in Int /\ x <= y
  BY <1>1, <1>2
<1> HIDE DEF x, y
<1>4. /\ Quote!Larger(x, policy.minFee) \in Int /\ Quote!Larger(y, policy.minFee) \in Int
      /\ Quote!Larger(x, policy.minFee) <= Quote!Larger(y, policy.minFee)
  BY <1>1, <1>3 DEF Quote!Larger
<1> QED BY <1>1, <1>4, RoundUpMonotone DEF Quote!PerKmFee, x, y

\* The paid areas of an outlet, one after the other along the road.
Road(areasOn, from) ==
    /\ IsFiniteSet(areasOn) /\ areasOn \subseteq AreaInputs
    /\ from \in Int
    /\ \A a, b \in areasOn : /\ a.fee > 0 /\ a.lo > from
                             /\ a # b => a.hi < b.lo \/ b.hi < a.lo
                             /\ a.lo < b.lo => a.fee <= b.fee

LEMMA RoadAreas ==
    ASSUME NEW R, NEW from, Road(R, from)
    PROVE  \A a \in R : /\ a.lo \in Int /\ a.hi \in Int /\ a.fee \in Int
                        /\ from < a.lo /\ a.lo <= a.hi
                        /\ Quote!Far(from, a) = a.hi /\ Quote!Reach(from, a) = a.hi - from
                        /\ \A b \in R : a.hi <= b.hi => a.fee <= b.fee
<1> SUFFICES ASSUME NEW a \in R
             PROVE  /\ a.lo \in Int /\ a.hi \in Int /\ a.fee \in Int
                    /\ from < a.lo /\ a.lo <= a.hi
                    /\ Quote!Far(from, a) = a.hi /\ Quote!Reach(from, a) = a.hi - from
                    /\ \A b \in R : a.hi <= b.hi => a.fee <= b.fee
  OBVIOUS
<1>1. ASSUME NEW b \in R PROVE b.lo \in Int /\ b.hi \in Int /\ b.fee \in Int /\ b.lo <= b.hi
  <2>1. b \in Quote!Area /\ b.lo <= b.hi
    BY RoadAssumption DEF Road
  <2>2. b.lo \in Points /\ b.hi \in Points /\ b.fee \in Nat
    BY <2>1 DEF Quote!Area
  <2>3. Points \subseteq Int
    BY RoadAssumption
  <2>4. b.lo \in Int /\ b.hi \in Int
    BY <2>2, <2>3
  <2>5. b.fee \in Int
    BY <2>2
  <2> QED BY <2>1, <2>4, <2>5
<1>2. from \in Int /\ from < a.lo
  BY <1>1 DEF Road
<1>3. Quote!Far(from, a) = a.hi
  BY <1>1, <1>2 DEF Quote!Far, Quote!Apart
<1>4. Quote!Reach(from, a) = a.hi - from
  BY <1>1, <1>2, <1>3 DEF Quote!Reach, Quote!Apart
<1>5. ASSUME NEW b \in R, a.hi <= b.hi PROVE a.fee <= b.fee
  <2>1. CASE a = b
    BY <1>1, <2>1
  <2>2. CASE a # b
    <3>1. a.hi < b.lo \/ b.hi < a.lo
      BY <2>2 DEF Road
    <3>2. a.lo < b.lo
      BY <1>1, <1>5, <3>1
    <3> QED BY <3>2 DEF Road
  <2> QED BY <2>1, <2>2
<1> QED BY <1>1, <1>2, <1>3, <1>4, <1>5

\* Within the corridor every route passes the place.
LEMMA RoadRoutes ==
    ASSUME NEW R, NEW from, Road(R, from), policy \in Policies, NEW pin \in Int,
           from <= pin, pin - from <= policy.corridor
    PROVE  Quote!RoutesNear(R, from, pin) = R
<1>1. from \in Int /\ policy.corridor \in Nat
  BY RoadAssumption DEF Road, Quote!Policy
<1>2. ASSUME NEW a \in R PROVE Quote!OffRoute(from, a, pin) <= policy.corridor
  <2>1. /\ a.hi \in Int /\ from < a.hi /\ Quote!Far(from, a) = a.hi
    BY <1>1, RoadAreas
  <2>2. CASE pin <= a.hi
    BY <1>1, <2>1, <2>2 DEF Quote!OffRoute, Quote!Smaller, Quote!Larger
  <2>3. CASE pin > a.hi
    BY <1>1, <2>1, <2>3 DEF Quote!OffRoute, Quote!Smaller, Quote!Larger, Quote!Apart
  <2> QED BY <1>1, <2>1, <2>2, <2>3
<1> QED BY <1>2 DEF Quote!RoutesNear

\* The area passed last and the one that comes next, as the code picks them.
LastOf(passed, from) ==
    CHOOSE a \in passed : \A b \in passed : Quote!Reach(from, b) <= Quote!Reach(from, a)

NextOf(ahead, from) ==
    CHOOSE a \in ahead : \A b \in ahead : Quote!Reach(from, a) <= Quote!Reach(from, b)

\* The price once it is known what was passed and what is ahead.
Held(fee, passed, ahead, from, pin) ==
    IF ahead # {}
    THEN IF fee > NextOf(ahead, from).fee THEN NextOf(ahead, from).fee
         ELSE IF passed # {} /\ fee < LastOf(passed, from).fee
                 /\ LastOf(passed, from).fee <= NextOf(ahead, from).fee
         THEN LastOf(passed, from).fee
         ELSE fee
    ELSE IF passed = {} THEN fee
    ELSE Quote!Extended(LastOf(passed, from), from, pin)

PassedOn(R, pin) == {a \in R : a.hi <= pin}

AheadOn(R, pin) == {a \in R : a.hi > pin}

LEMMA HoldToRouteIs ==
    ASSUME NEW R, NEW from, Road(R, from), NEW pin \in Int, from <= pin, NEW fee
    PROVE  Quote!HoldToRoute(fee, R, from, pin) =
               Held(fee, PassedOn(R, pin), AheadOn(R, pin), from, pin)
<1>1. from \in Int /\ Quote!Apart(from, pin) = pin - from
  BY DEF Road, Quote!Apart
<1>2. ASSUME NEW a \in R
      PROVE  /\ a.fee > 0
             /\ Quote!Reach(from, a) <= Quote!Apart(from, pin) <=> a.hi <= pin
             /\ Quote!Reach(from, a) > Quote!Apart(from, pin) <=> a.hi > pin
  <2>1. a.fee > 0 /\ a.hi \in Int /\ Quote!Reach(from, a) = a.hi - from
    BY RoadAreas DEF Road
  <2> QED BY <1>1, <2>1
<1>3. Quote!Passed(R, Quote!Apart(from, pin), from) = PassedOn(R, pin)
  BY <1>2 DEF Quote!Passed, PassedOn
<1>4. Quote!Ahead(R, Quote!Apart(from, pin), from) = AheadOn(R, pin)
  BY <1>2 DEF Quote!Ahead, AheadOn
<1> QED BY <1>3, <1>4 DEF Quote!HoldToRoute, Held, LastOf, NextOf

\* They are there, the last one is the dearest passed and the next one the cheapest ahead.
LEMMA LastAndNext ==
    ASSUME NEW R, NEW from, Road(R, from), NEW S, S \subseteq R, S # {}
    PROVE  /\ LastOf(S, from) \in S /\ NextOf(S, from) \in S
           /\ \A a \in S : /\ a.hi <= LastOf(S, from).hi /\ a.fee <= LastOf(S, from).fee
                           /\ NextOf(S, from).hi <= a.hi /\ NextOf(S, from).fee <= a.fee
<1> DEFINE reach == [a \in S |-> Quote!Reach(from, a)]
<1>1. IsFiniteSet(S) /\ \A a \in S : reach[a] \in Int /\ reach[a] = Quote!Reach(from, a)
  <2>1. from \in Int /\ IsFiniteSet(S)
    BY FS_Subset DEF Road
  <2>2. ASSUME NEW a \in S PROVE reach[a] \in Int /\ reach[a] = Quote!Reach(from, a)
    <3>1. a.hi \in Int /\ Quote!Reach(from, a) = a.hi - from
      BY RoadAreas
    <3> QED BY <2>1, <3>1
  <2> QED BY <2>1, <2>2
<1> HIDE DEF reach
<1>2. \E a \in S : \A b \in S : reach[b] <= reach[a]
  BY <1>1, MostOfMany
<1>3. \E a \in S : \A b \in S : reach[a] <= reach[b]
  BY <1>1, LeastOfMany
<1>4. \E a \in S : \A b \in S : Quote!Reach(from, b) <= Quote!Reach(from, a)
  BY <1>1, <1>2
<1>5. \E a \in S : \A b \in S : Quote!Reach(from, a) <= Quote!Reach(from, b)
  BY <1>1, <1>3
<1>6. /\ LastOf(S, from) \in S
      /\ \A b \in S : Quote!Reach(from, b) <= Quote!Reach(from, LastOf(S, from))
  BY <1>4 DEF LastOf
<1>7. /\ NextOf(S, from) \in S
      /\ \A b \in S : Quote!Reach(from, NextOf(S, from)) <= Quote!Reach(from, b)
  BY <1>5 DEF NextOf
<1>8. ASSUME NEW a \in S
      PROVE  /\ a.hi <= LastOf(S, from).hi /\ a.fee <= LastOf(S, from).fee
             /\ NextOf(S, from).hi <= a.hi /\ NextOf(S, from).fee <= a.fee
  <2>1. from \in Int
    BY DEF Road
  <2>2. a.hi <= LastOf(S, from).hi
    BY <1>6, <2>1, RoadAreas
  <2>3. NextOf(S, from).hi <= a.hi
    BY <1>7, <2>1, RoadAreas
  <2> QED BY <1>6, <1>7, <2>2, <2>3, RoadAreas
<1> QED BY <1>6, <1>7, <1>8

\* Past an area the fee is at least the area's.
LEMMA ExtendedGrows ==
    ASSUME NEW R, NEW from, Road(R, from), policy \in Policies, NEW a \in R,
           NEW near \in Int, NEW far \in Int, a.hi <= near, near <= far
    PROVE  /\ Quote!Extended(a, from, near) \in Int
           /\ a.fee <= Quote!Extended(a, from, near)
           /\ Quote!Extended(a, from, near) <= Quote!Extended(a, from, far)
<1>1. policy.rate \in Nat /\ policy.factor \in Nat /\ policy.rounding \in Nat \ {0}
  BY RoadAssumption DEF Quote!Policy
<1>2. /\ from \in Int /\ a.hi \in Int /\ a.fee \in Int /\ from < a.hi
      /\ Quote!Reach(from, a) = a.hi - from
  <2>1. from \in Int
    BY DEF Road
  <2> QED BY <2>1, RoadAreas
<1>3. /\ Quote!Apart(from, near) - Quote!Reach(from, a) = near - a.hi
      /\ Quote!Apart(from, far) - Quote!Reach(from, a) = far - a.hi
  BY <1>2 DEF Quote!Apart
<1> DEFINE x == policy.rate * (near - a.hi)
           y == policy.rate * (far - a.hi)
<1>4. x \in Int /\ y \in Int /\ 0 <= x /\ x <= y
  <2>1. policy.rate * 0 <= policy.rate * (near - a.hi)
    BY <1>1, <1>2, TimesMonotone
  <2>2. policy.rate * (near - a.hi) <= policy.rate * (far - a.hi)
    BY <1>1, <1>2, TimesMonotone
  <2> QED BY <1>1, <1>2, <2>1, <2>2
<1> HIDE DEF x, y
<1>5. /\ x * policy.factor \in Int /\ y * policy.factor \in Int
      /\ 0 <= x * policy.factor /\ x * policy.factor <= y * policy.factor
  <2>1. policy.factor * 0 <= policy.factor * x /\ policy.factor * x <= policy.factor * y
    BY <1>1, <1>4, TimesMonotone
  <2>2. /\ policy.factor * x = x * policy.factor /\ policy.factor * y = y * policy.factor
        /\ x * policy.factor \in Int /\ y * policy.factor \in Int
    BY <1>1, <1>4
  <2> QED BY <1>1, <2>1, <2>2
<1>6. /\ Quote!RoundUp(x * policy.factor, policy.rounding) \in Int
      /\ Quote!RoundUp(y * policy.factor, policy.rounding) \in Int
      /\ 0 <= Quote!RoundUp(x * policy.factor, policy.rounding)
      /\ Quote!RoundUp(x * policy.factor, policy.rounding)
            <= Quote!RoundUp(y * policy.factor, policy.rounding)
  BY <1>1, <1>5, RoundUpMonotone
<1>7. /\ Quote!Extended(a, from, near) = a.fee + Quote!RoundUp(x * policy.factor, policy.rounding)
      /\ Quote!Extended(a, from, far) = a.fee + Quote!RoundUp(y * policy.factor, policy.rounding)
  BY <1>3 DEF Quote!Extended, x, y
<1> QED BY <1>2, <1>6, <1>7

\* A price between two areas, or past the last, is between what was passed and
\* what is ahead.
LEMMA HeldBetween ==
    ASSUME NEW R, NEW from, Road(R, from), policy \in Policies,
           NEW pin \in Int, NEW fee \in Int, NEW passed, NEW ahead,
           passed \subseteq R, ahead \subseteq R, passed \cup ahead = R,
           \A a \in passed : a.hi <= pin, \A a \in ahead : a.hi > pin
    PROVE  /\ Held(fee, passed, ahead, from, pin) \in Int
           /\ \A a \in passed : a.fee <= Held(fee, passed, ahead, from, pin)
           /\ \A a \in ahead : Held(fee, passed, ahead, from, pin) <= a.fee
<1> DEFINE last == LastOf(passed, from)
           next == NextOf(ahead, from)
           price == Held(fee, passed, ahead, from, pin)
<1>1. \A a \in R : a.hi \in Int /\ a.fee \in Int /\ \A b \in R : a.hi <= b.hi => a.fee <= b.fee
  BY RoadAreas
<1>2. passed # {} => last \in passed /\ \A a \in passed : a.fee <= last.fee
  BY LastAndNext
<1>3. ahead # {} => next \in ahead /\ \A a \in ahead : next.fee <= a.fee
  BY LastAndNext
<1>4. passed # {} /\ ahead # {} => last.fee <= next.fee
  BY <1>1, <1>2, <1>3
<1>5. CASE ahead # {}
  <2>1. next.fee \in Int /\ (passed # {} => last.fee \in Int)
    BY <1>1, <1>2, <1>3, <1>5
  <2>2. price = IF fee > next.fee THEN next.fee
                ELSE IF passed # {} /\ fee < last.fee /\ last.fee <= next.fee THEN last.fee
                ELSE fee
    BY <1>5 DEF Held
  <2> HIDE DEF last, next, price
  <2>3. price \in Int /\ price <= next.fee /\ (passed # {} => last.fee <= price)
    BY <1>4, <1>5, <2>1, <2>2
  <2>4. \A a \in passed : a.fee <= price
    BY <1>1, <1>2, <2>1, <2>3
  <2>5. \A a \in ahead : price <= a.fee
    BY <1>1, <1>3, <2>1, <2>3
  <2> QED BY <2>3, <2>4, <2>5 DEF price
<1>6. CASE ahead = {} /\ passed = {}
  BY <1>6 DEF Held
<1>7. CASE ahead = {} /\ passed # {}
  <2>1. price = Quote!Extended(last, from, pin)
    BY <1>7 DEF Held
  <2>2. last \in R /\ last.hi <= pin
    BY <1>2, <1>7
  <2> HIDE DEF last, price
  <2>3. price \in Int /\ last.fee <= price /\ last.fee \in Int
    BY <1>1, <2>1, <2>2, ExtendedGrows
  <2>4. \A a \in passed : a.fee <= price
    BY <1>1, <1>2, <1>7, <2>3
  <2> QED BY <1>7, <2>3, <2>4 DEF price
<1> QED BY <1>5, <1>6, <1>7

\* Between the same two areas, or past the same last one, the price grows with the
\* distance.
LEMMA HeldMonotone ==
    ASSUME NEW R, NEW from, Road(R, from), policy \in Policies,
           NEW near \in Int, NEW far \in Int, near <= far,
           NEW x \in Int, NEW y \in Int, x <= y, NEW passed, NEW ahead,
           passed \subseteq R, ahead \subseteq R, \A a \in passed : a.hi <= near
    PROVE  Held(x, passed, ahead, from, near) <= Held(y, passed, ahead, from, far)
<1> DEFINE last == LastOf(passed, from)
           next == NextOf(ahead, from)
<1>1. \A a \in R : a.fee \in Int
  BY RoadAreas
<1>2. passed # {} => last \in passed /\ last.fee \in Int
  BY <1>1, LastAndNext
<1>3. ahead # {} => next.fee \in Int
  BY <1>1, LastAndNext
<1>4. CASE ahead # {}
  <2> DEFINE kept(fee) == IF fee > next.fee THEN next.fee
                            ELSE IF passed # {} /\ fee < last.fee /\ last.fee <= next.fee
                            THEN last.fee
                            ELSE fee
  <2>1. /\ Held(x, passed, ahead, from, near) = kept(x)
        /\ Held(y, passed, ahead, from, far) = kept(y)
    BY <1>4 DEF Held
  <2> HIDE DEF last, next
  <2>2. kept(x) <= kept(y)
    BY <1>2, <1>3, <1>4
  <2> HIDE DEF kept
  <2> QED BY <2>1, <2>2
<1>5. CASE ahead = {} /\ passed = {}
  BY <1>5 DEF Held
<1>6. CASE ahead = {} /\ passed # {}
  <2>1. /\ Held(x, passed, ahead, from, near) = Quote!Extended(last, from, near)
        /\ Held(y, passed, ahead, from, far) = Quote!Extended(last, from, far)
    BY <1>6 DEF Held
  <2>2. last \in R /\ last.hi <= near
    BY <1>2, <1>6
  <2> HIDE DEF last
  <2> QED BY <2>1, <2>2, ExtendedGrows
<1> QED BY <1>4, <1>5, <1>6

\* What an outlet at from charges at a place: the fee of the area that holds it, or
\* the one held to the routes.
Charged(R, from, pin, price) ==
    \/ \E a \in R : Quote!Holds(a, pin) /\ price = a.fee
    \/ /\ \A a \in R : ~Quote!Holds(a, pin)
       /\ price = Quote!PerKmPrice(R, from, pin)

LEMMA PerKmIsHeld ==
    ASSUME NEW R, NEW from, Road(R, from), policy \in Policies, policy.byRoute,
           NEW pin \in Int, from <= pin, pin - from <= policy.corridor
    PROVE  LET km == policy.factor * (pin - from)
           IN  /\ km \in Int /\ Quote!PerKmFee(km) \in Int
               /\ Quote!PerKmPrice(R, from, pin) =
                      Held(Quote!PerKmFee(km), PassedOn(R, pin), AheadOn(R, pin), from, pin)
<1> DEFINE km == policy.factor * (pin - from)
<1>1. from \in Int /\ policy.factor \in Nat
  BY RoadAssumption DEF Road, Quote!Policy
<1>2. km \in Int /\ Quote!Measured(from, pin) = km
  BY <1>1 DEF Quote!Measured, Quote!Apart
<1> HIDE DEF km
<1>3. Quote!PerKmFee(km) \in Int
  BY <1>2, PerKmMonotone
<1>4. Quote!PerKmPrice(R, from, pin) = Quote!HoldToRoute(Quote!PerKmFee(km), R, from, pin)
  BY <1>2, RoadRoutes DEF Quote!PerKmPrice
<1>5. Quote!PerKmPrice(R, from, pin) =
          Held(Quote!PerKmFee(km), PassedOn(R, pin), AheadOn(R, pin), from, pin)
  BY <1>4, HoldToRouteIs
<1> QED BY <1>2, <1>3, <1>5 DEF km

\* A place is charged what every area it reached costs or more, and no more than any
\* area it has not left.
LEMMA ChargedBetween ==
    ASSUME NEW R, NEW from, Road(R, from), policy \in Policies, policy.byRoute,
           NEW pin \in Int, from <= pin, pin - from <= policy.corridor,
           NEW price, Charged(R, from, pin, price)
    PROVE  /\ price \in Int
           /\ \A a \in R : /\ a.lo <= pin => a.fee <= price
                           /\ pin <= a.hi => price <= a.fee
<1>1. \A a \in R : /\ a.lo \in Int /\ a.hi \in Int /\ a.fee \in Int /\ a.lo <= a.hi
                   /\ \A b \in R : a.hi <= b.hi => a.fee <= b.fee
  BY RoadAreas
<1>2. ASSUME NEW b \in R, Quote!Holds(b, pin), price = b.fee
      PROVE  /\ price \in Int
             /\ \A a \in R : /\ a.lo <= pin => a.fee <= price
                             /\ pin <= a.hi => price <= a.fee
  <2>1. b.lo <= pin /\ pin <= b.hi
    BY <1>2 DEF Quote!Holds
  <2>2. ASSUME NEW a \in R
        PROVE  /\ a.lo <= pin => a.hi <= b.hi
               /\ pin <= a.hi => b.hi <= a.hi
    <3>1. a # b => a.hi < b.lo \/ b.hi < a.lo
      BY DEF Road
    <3> QED BY <1>1, <2>1, <3>1
  <2> QED BY <1>1, <1>2, <2>2
<1>3. ASSUME \A a \in R : ~Quote!Holds(a, pin), price = Quote!PerKmPrice(R, from, pin)
      PROVE  /\ price \in Int
             /\ \A a \in R : /\ a.lo <= pin => a.fee <= price
                             /\ pin <= a.hi => price <= a.fee
  <2> DEFINE passed == PassedOn(R, pin)
             ahead == AheadOn(R, pin)
             fee == Quote!PerKmFee(policy.factor * (pin - from))
  <2>1. price = Held(fee, passed, ahead, from, pin) /\ fee \in Int
    BY <1>3, PerKmIsHeld
  <2>2. /\ passed \subseteq R /\ ahead \subseteq R /\ passed \cup ahead = R
        /\ \A a \in passed : a.hi <= pin
        /\ \A a \in ahead : a.hi > pin
    BY <1>1 DEF PassedOn, AheadOn
  <2> HIDE DEF passed, ahead, fee
  <2>3. /\ price \in Int
        /\ \A a \in passed : a.fee <= price
        /\ \A a \in ahead : price <= a.fee
    BY <2>1, <2>2, HeldBetween
  <2>4. ASSUME NEW a \in R
        PROVE  /\ a.lo <= pin => a \in passed
               /\ pin <= a.hi => a \in ahead
    BY <1>1, <1>3, <2>2 DEF passed, ahead, PassedOn, AheadOn, Quote!Holds
  <2> QED BY <2>3, <2>4
<1> QED BY <1>2, <1>3 DEF Charged

\* A place that is farther out is charged no less: if an area reaches or separates
\* the two, its fee is between them; otherwise both are held to the same areas.
LEMMA ChargedMonotone ==
    ASSUME NEW R, NEW from, Road(R, from), policy \in Policies, policy.byRoute,
           NEW near \in Int, NEW far \in Int, from <= near, near < far,
           far - from <= policy.corridor,
           NEW x, NEW y, Charged(R, from, near, x), Charged(R, from, far, y)
    PROVE  x <= y
<1>0. from \in Int /\ policy.corridor \in Int /\ policy.factor \in Nat
  BY RoadAssumption DEF Road, Quote!Policy
<1>1. near - from <= policy.corridor /\ from <= far
  BY <1>0
<1>2. /\ x \in Int
      /\ \A a \in R : near <= a.hi => x <= a.fee
  BY <1>1, ChargedBetween
<1>3. /\ y \in Int
      /\ \A a \in R : a.lo <= far => a.fee <= y
  BY <1>1, ChargedBetween
<1>4. \A a \in R : a.lo \in Int /\ a.hi \in Int /\ a.fee \in Int /\ a.lo <= a.hi
  BY RoadAreas
<1>5. CASE \E a \in R : near <= a.hi /\ a.lo <= far
  BY <1>2, <1>3, <1>4, <1>5
<1>6. CASE \A a \in R : a.hi < near \/ far < a.lo
  <2> DEFINE near_fee == Quote!PerKmFee(policy.factor * (near - from))
             far_fee == Quote!PerKmFee(policy.factor * (far - from))
             passed == PassedOn(R, near)
             ahead == AheadOn(R, near)
  <2>1. \A a \in R : ~Quote!Holds(a, near) /\ ~Quote!Holds(a, far)
    BY <1>4, <1>6 DEF Quote!Holds
  <2>2. x = Held(near_fee, passed, ahead, from, near) /\ near_fee \in Int
    BY <1>1, <2>1, PerKmIsHeld DEF Charged
  <2>3. y = Held(far_fee, PassedOn(R, far), AheadOn(R, far), from, far) /\ far_fee \in Int
    BY <1>1, <2>1, PerKmIsHeld DEF Charged
  <2>4. PassedOn(R, far) = passed /\ AheadOn(R, far) = ahead
    BY <1>4, <1>6 DEF PassedOn, AheadOn
  <2>5. near_fee <= far_fee
    <3>1. policy.factor * (near - from) <= policy.factor * (far - from)
      BY <1>0, TimesMonotone
    <3>2. policy.factor * (near - from) \in Int /\ policy.factor * (far - from) \in Int
      BY <1>0
    <3> QED BY <3>1, <3>2, PerKmMonotone
  <2>6. passed \subseteq R /\ ahead \subseteq R /\ \A a \in passed : a.hi <= near
    BY DEF PassedOn, AheadOn
  <2> HIDE DEF near_fee, far_fee, passed, ahead
  <2> QED BY <2>2, <2>3, <2>4, <2>5, <2>6, HeldMonotone
<1> QED BY <1>4, <1>5, <1>6

\* The areas in force are finitely many of those a tenant may define.
QuoteInv ==
    /\ areas \subseteq AreaInputs /\ IsFiniteSet(areas)
    /\ policy \in Policies

LEMMA QuoteInvNext == QuoteInv /\ [Quote!Next]_quoteVars => QuoteInv'
<1> SUFFICES ASSUME QuoteInv, [Quote!Next]_quoteVars PROVE QuoteInv'
  OBVIOUS
<1> USE DEF QuoteInv
<1>1. CASE UNCHANGED quoteVars
  BY <1>1 DEF quoteVars
<1>2. ASSUME NEW a \in AreaInputs, Quote!CreateZone(a) PROVE QuoteInv'
  BY <1>2, FS_AddElement DEF Quote!CreateZone
<1>3. ASSUME NEW a \in areas, NEW b \in AreaInputs, Quote!UpdateZone(a, b) PROVE QuoteInv'
  <2>1. IsFiniteSet(areas \ {a})
    BY FS_RemoveElement
  <2> QED BY <1>3, <2>1, FS_AddElement DEF Quote!UpdateZone
<1>4. ASSUME NEW a \in areas, Quote!DeleteZone(a) PROVE QuoteInv'
  BY <1>4, FS_RemoveElement DEF Quote!DeleteZone
<1>5. ASSUME NEW p \in Policies, Quote!SavePolicy(p) PROVE QuoteInv'
  BY <1>5 DEF Quote!SavePolicy
<1> QED BY <1>1, <1>2, <1>3, <1>4, <1>5 DEF Quote!Next

LEMMA QuoteInvInit == Quote!Init => QuoteInv
  BY FS_EmptySet DEF Quote!Init, QuoteInv

\* What a quote that is served says.
LEMMA ServedIsCharged ==
    ASSUME QuoteInv, NEW o \in Quote!Outlets, NEW pin, NEW p \in Quote!Quotes(o, pin), p.served
    PROVE  LET delivery == {a \in areas : /\ a.active /\ a.type = "delivery"
                                          /\ Quote!ServesOutlet(a, o)}
           IN  Charged(delivery, OutletAt[o], pin, p.fee)
<1> DEFINE delivery == {a \in areas : a.active /\ a.type = "delivery" /\ Quote!ServesOutlet(a, o)}
           serving == {a \in areas : a.active /\ Quote!ServesOutlet(a, o)}
           hits == {a \in delivery : Quote!Holds(a, pin)}
<1>1. {a \in serving : a.type = "delivery"} = delivery
  OBVIOUS
<1>2. ASSUME NEW why, p = Quote!Refusal(why) PROVE FALSE
  BY <1>2 DEF Quote!Refusal
<1>3. \/ hits # {} /\ \E a \in Quote!Specific(hits) : p = Quote!Price("zone", a.fee)
      \/ hits = {} /\ p = Quote!Price("per km", Quote!PerKmPrice(delivery, OutletAt[o], pin))
  BY <1>1, <1>2 DEF Quote!Quotes
<1>4. CASE \E a \in Quote!Specific(hits) : p = Quote!Price("zone", a.fee)
  BY <1>4 DEF Quote!Specific, Quote!Price, Charged
<1>5. CASE hits = {} /\ p = Quote!Price("per km", Quote!PerKmPrice(delivery, OutletAt[o], pin))
  BY <1>5 DEF Quote!Price, Charged
<1> QED BY <1>3, <1>4, <1>5

LEMMA TariffIsFollowed == QuoteInv => Quote!FartherNeverCheaper
<1> SUFFICES ASSUME QuoteInv, NEW o \in Quote!Outlets, NEW near \in Points, NEW far \in Points,
                    policy.byRoute, policy.corridor >= far - OutletAt[o],
                    Quote!OrderedTariff(o), OutletAt[o] <= near, near < far,
                    NEW p \in Quote!Quotes(o, near), NEW q \in Quote!Quotes(o, far),
                    p.served, q.served
             PROVE  p.fee <= q.fee
  BY DEF Quote!FartherNeverCheaper
<1> DEFINE from == OutletAt[o]
           delivery == {a \in areas : a.active /\ a.type = "delivery" /\ Quote!ServesOutlet(a, o)}
<1>1. near \in Int /\ far \in Int /\ from \in Int /\ policy \in Policies
  BY RoadAssumption DEF QuoteInv
<1>2. Road(delivery, from)
  <2>1. delivery \subseteq AreaInputs /\ IsFiniteSet(delivery)
    BY FS_Subset DEF QuoteInv
  <2> QED BY <1>1, <2>1 DEF Road, Quote!OrderedTariff
<1>3. Charged(delivery, from, near, p.fee) /\ Charged(delivery, from, far, q.fee)
  BY ServedIsCharged
<1>4. far - from <= policy.corridor
  BY <1>1, RoadAssumption DEF Quote!Policy
<1> HIDE DEF from, delivery
<1>5. from <= near
  BY DEF from
<1> QED BY <1>1, <1>2, <1>3, <1>4, <1>5, ChargedMonotone

\* For every tariff whose areas follow each other along the road, every policy that
\* holds prices to the routes and every pair of places within the corridor, nobody
\* pays less by living farther out.
THEOREM NobodyPaysLessFartherOut ==
    /\ Quote!Spec => []Quote!FartherNeverCheaper
    /\ Quote!Spec => []FartherNeverCheaper
<1>1. Quote!FartherNeverCheaper => FartherNeverCheaper
  BY DEF FartherNeverCheaper
<1>2. Quote!Spec => []QuoteInv
  BY QuoteInvInit, QuoteInvNext, PTL DEF Quote!Spec, Quote!vars, quoteVars
<1> QED BY <1>1, <1>2, TariffIsFollowed, PTL

-----------------------------------------------------------------------------
(* Rules and fares: every kilometre at its rate *)

\* Of some naturals up to a bound, one is the least.
LEMMA LeastOfSome ==
    ASSUME NEW n \in Nat, NEW S, S \subseteq 0 .. n, S # {}
    PROVE  \E x \in S : \A y \in S : x <= y
<1> DEFINE f == [x \in S |-> x]
<1>1. IsFiniteSet(S)
  <2>1. IsFiniteSet(0 .. n)
    BY FS_Interval
  <2> QED BY <2>1, FS_Subset
<1>2. \A x \in S : f[x] \in Int
  OBVIOUS
<1>3. PICK x \in S : \A y \in S : f[x] <= f[y]
  <2> HIDE DEF f
  <2> QED BY <1>1, <1>2, LeastOfMany
<1> QED
  BY <1>3

\* The last index of a set of them.
LEMMA LastIndex ==
    ASSUME NEW n \in Nat, NEW s, s \subseteq 1 .. n, s # {}
    PROVE  Fare!Max(s) \in s /\ \A y \in s : Fare!Max(s) >= y
<1> DEFINE f == [x \in s |-> x]
<1>1. IsFiniteSet(s)
  <2>1. IsFiniteSet(1 .. n)
    BY FS_Interval
  <2> QED BY <2>1, FS_Subset
<1>2. \A x \in s : f[x] \in Int
  OBVIOUS
<1>3. PICK x \in s : \A y \in s : f[y] <= f[x]
  <2> HIDE DEF f
  <2> QED BY <1>1, <1>2, MostOfMany
<1>4. \E y \in s : \A z \in s : y >= z
  BY <1>3
<1> QED
  BY <1>4 DEF Fare!Max

\* g folds the indices up to n from the left, a step at a time.
Folds(g, n, base, step) ==
    \A s \in SUBSET (1 .. n) :
        g[s] = IF s = {} THEN base ELSE step[Fare!Max(s)][g[s \ {Fare!Max(s)}]]

\* The recursive function of a fold from the left exists.
LEMMA FoldExists ==
    ASSUME NEW n \in Nat, NEW V, NEW base \in V, NEW step \in [1 .. n -> [V -> V]]
    PROVE  \E g \in [SUBSET (1 .. n) -> V] : Folds(g, n, base, step)
<1> DEFINE Upto(m) == \E g \in [SUBSET (1 .. m) -> V] : Folds(g, m, base, step)
           C == {m \in 0 .. n : ~Upto(m)}
<1>1. SUFFICES ASSUME C # {}
               PROVE  FALSE
  <2>1. n \in 0 .. n
    OBVIOUS
  <2> HIDE DEF Upto
  <2>2. C = {} => Upto(n)
    BY <2>1
  <2> QED BY <2>2 DEF Upto
<1>2. PICK m \in C : \A k \in C : m <= k
  <2>1. C \subseteq 0 .. n
    OBVIOUS
  <2> HIDE DEF C
  <2> QED
    BY <1>1, <2>1, LeastOfSome
<1>3. m # 0
  <2> DEFINE g == [s \in SUBSET (1 .. 0) |-> base]
  <2>1. \A s \in SUBSET (1 .. 0) : s = {}
    OBVIOUS
  <2>2. g \in [SUBSET (1 .. 0) -> V] /\ Folds(g, 0, base, step)
    BY <2>1 DEF Folds
  <2> QED
    BY <2>2
<1>4. m - 1 \in 0 .. n /\ m \in 1 .. n /\ m - 1 \notin C
  <2>1. m \in 0 .. n
    BY <1>2
  <2>2. m - 1 \in 0 .. n /\ m \in 1 .. n /\ ~(m <= m - 1)
    BY <1>3, <2>1
  <2> HIDE DEF C
  <2> QED BY <1>2, <2>2
<1>5. PICK h \in [SUBSET (1 .. m - 1) -> V] : Folds(h, m - 1, base, step)
  BY <1>4
<1> DEFINE g == [s \in SUBSET (1 .. m) |-> IF m \in s THEN step[m][h[s \ {m}]] ELSE h[s]]
<1>6. ASSUME NEW s \in SUBSET (1 .. m)
      PROVE  /\ m \in s => s \ {m} \in SUBSET (1 .. m - 1)
             /\ m \notin s => s \in SUBSET (1 .. m - 1)
  BY <1>4
<1>7. g \in [SUBSET (1 .. m) -> V]
  BY <1>4, <1>5, <1>6
<1>8. ASSUME NEW s \in SUBSET (1 .. m)
      PROVE  g[s] = IF s = {} THEN base ELSE step[Fare!Max(s)][g[s \ {Fare!Max(s)}]]
  <2>1. CASE s = {}
    <3>1. g[s] = h[s] /\ s \in SUBSET (1 .. m - 1)
      BY <2>1, <1>4
    <3>2. h[s] = base
      BY <1>5, <2>1, <3>1 DEF Folds
    <3> QED
      BY <2>1, <3>1, <3>2
  <2>2. CASE s # {} /\ m \in s
    <3>1. Fare!Max(s) = m
      <4>1. m \in Nat
        BY <1>4
      <4>2. Fare!Max(s) \in s /\ Fare!Max(s) >= m
        BY <2>2, <4>1, LastIndex
      <4>3. Fare!Max(s) \in 1 .. m
        BY <4>2
      <4> DEFINE x == Fare!Max(s)
      <4> HIDE DEF x
      <4>4. x \in 1 .. m /\ x >= m
        BY <4>2, <4>3 DEF x
      <4>5. x = m
        BY <4>1, <4>4
      <4> QED BY <4>5 DEF x
    <3>2. m \notin s \ {m} /\ s \ {m} \in SUBSET (1 .. m)
      OBVIOUS
    <3>3. g[s] = step[m][h[s \ {m}]] /\ g[s \ {m}] = h[s \ {m}]
      BY <2>2, <3>2
    <3> QED
      BY <2>2, <3>1, <3>3
  <2>3. CASE s # {} /\ m \notin s
    <3> DEFINE x == Fare!Max(s)
    <3>1. x \in s
      <4>1. m \in Nat
        BY <1>4
      <4> QED BY <2>3, <4>1, LastIndex
    <3>2. s \in SUBSET (1 .. m - 1) /\ s \ {x} \in SUBSET (1 .. m) /\ m \notin s \ {x}
      BY <1>6, <2>3
    <3>3. g[s] = h[s] /\ g[s \ {x}] = h[s \ {x}]
      BY <2>3, <3>2
    <3>4. h[s] = step[x][h[s \ {x}]]
      BY <1>5, <2>3, <3>2 DEF Folds
    <3> QED
      BY <2>3, <3>3, <3>4
  <2> QED
    BY <2>1, <2>2, <2>3
<1> HIDE DEF g
<1>9. Folds(g, m, base, step)
  BY <1>8 DEF Folds
<1>10. Upto(m)
  BY <1>7, <1>9
<1> QED
  BY <1>2, <1>10

\* The last index up to one.
LEMMA MaxUpTo ==
    ASSUME NEW i \in Nat, i # 0
    PROVE  Fare!Max(1 .. i) = i /\ (1 .. i) \ {i} = 1 .. i - 1
<1>1. 1 .. i \subseteq 1 .. i /\ 1 .. i # {} /\ i \in 1 .. i
  OBVIOUS
<1>2. Fare!Max(1 .. i) \in 1 .. i /\ Fare!Max(1 .. i) >= i
  BY <1>1, LastIndex
<1> QED
  BY <1>2

-----------------------------------------------------------------------------
(* The tiers of a rule, in order *)

Distinct(tiers) == \A s, t \in tiers : s.max = t.max => s = t

InOrder(s, tiers) ==
    /\ s \in [1 .. Cardinality(tiers) -> tiers]
    /\ \A i, j \in 1 .. Cardinality(tiers) : i < j => s[i].max < s[j].max

LEMMA SameCount == ASSUME NEW S PROVE Fare!Cardinality(S) = Cardinality(S)
  BY DEF Fare!Cardinality, Cardinality

\* Any tiers that end at different kilometres can be sorted.
LEMMA SortedExists ==
    ASSUME NEW tiers, tiers \subseteq Fare!Tier, IsFiniteSet(tiers), Distinct(tiers)
    PROVE  InOrder(Fare!Sorted(tiers), tiers)
<1> DEFINE Can(U) == \E s : InOrder(s, U)
           C == {U \in SUBSET tiers : ~Can(U)}
<1>1. SUFFICES ASSUME C # {}
               PROVE  FALSE
  <2>1. tiers \in SUBSET tiers
    OBVIOUS
  <2>2. ASSUME C = {}
        PROVE  InOrder(Fare!Sorted(tiers), tiers)
    <3>1. Can(tiers)
      <4> HIDE DEF Can
      <4> QED BY <2>1, <2>2
    <3>2. PICK s : InOrder(s, tiers)
      BY <3>1
    <3> DEFINE D == [1 .. Cardinality(tiers) -> tiers]
               Q(z) == \A i, j \in 1 .. Cardinality(tiers) : i < j => z[i].max < z[j].max
               z == CHOOSE z \in D : Q(z)
    <3>3. \E y \in D : Q(y)
      BY <3>2 DEF InOrder
    <3>4. z \in D /\ Q(z)
      <4> HIDE DEF D, Q
      <4> QED BY <3>3
    <3>5. Fare!Sorted(tiers) = z
      BY SameCount DEF Fare!Sorted
    <3> HIDE DEF z
    <3> QED BY <3>4, <3>5 DEF InOrder
  <2> QED BY <2>2
<1>2. PICK U \in C : \A W \in C : W \subseteq U => W = U
  <2>1. C \subseteq SUBSET tiers
    OBVIOUS
  <2> HIDE DEF C
  <2> QED
    BY <1>1, <2>1, MinimalSubset
<1>3. U \subseteq tiers /\ IsFiniteSet(U) /\ ~Can(U)
  BY <1>2, FS_Subset
<1>4. U # {}
  <2>1. SUFFICES ASSUME U = {}
                 PROVE  Can(U)
    BY <1>3
  <2>2. Cardinality(U) = 0
    BY <2>1, FS_EmptySet
  <2>3. InOrder([i \in 1 .. 0 |-> i], U)
    BY <2>1, <2>2 DEF InOrder
  <2> QED BY <2>3
<1> DEFINE f == [t \in U |-> t.max]
<1>5. PICK m \in U : \A t \in U : f[t] <= f[m]
  <2>1. \A t \in U : f[t] \in Int
    BY <1>3 DEF Fare!Tier
  <2> HIDE DEF f
  <2> QED BY <1>3, <1>4, <2>1, MostOfMany
<1> DEFINE W == U \ {m}
           n == Cardinality(W)
<1>6. n \in Nat /\ Cardinality(U) = n + 1
  <2>1. IsFiniteSet(W) /\ Cardinality(W) = Cardinality(U) - 1
    BY <1>3, <1>5, FS_RemoveElement
  <2>2. Cardinality(W) \in Nat /\ Cardinality(U) \in Nat
    BY <1>3, <2>1, FS_CardinalityType
  <2> HIDE DEF W
  <2> QED BY <2>1, <2>2
<1>7. PICK s : InOrder(s, W)
  <2>1. W \subseteq U /\ W # U /\ W \in SUBSET tiers
    BY <1>3, <1>5
  <2> HIDE DEF W, Can
  <2>2. Can(W)
    BY <1>2, <2>1
  <2> QED BY <2>2 DEF Can
<1>8. \A t \in W : t.max < m.max
  <2> TAKE t \in W
  <2>1. t \in U /\ t # m /\ t \in Fare!Tier /\ m \in Fare!Tier
    BY <1>3, <1>5
  <2>2. t.max <= m.max
    BY <1>5, <2>1
  <2>3. t.max # m.max
    BY <1>3, <2>1 DEF Distinct
  <2> QED BY <2>1, <2>2, <2>3 DEF Fare!Tier
<1> DEFINE z == [i \in 1 .. n + 1 |-> IF i = n + 1 THEN m ELSE s[i]]
<1> HIDE DEF n
<1>9. s \in [1 .. n -> W] /\ \A i, j \in 1 .. n : i < j => s[i].max < s[j].max
  BY <1>7 DEF InOrder, n
<1>10. z \in [1 .. n + 1 -> U]
  BY <1>5, <1>6, <1>9
<1>11. ASSUME NEW i \in 1 .. n + 1, NEW j \in 1 .. n + 1, i < j
       PROVE  z[i].max < z[j].max
  <2>1. i \in 1 .. n /\ z[i] = s[i]
    BY <1>6, <1>11
  <2>2. CASE j = n + 1
    <3>1. z[j] = m /\ s[i] \in W
      BY <1>9, <2>1, <2>2
    <3> QED BY <1>8, <2>1, <3>1
  <2>3. CASE j # n + 1
    <3>1. j \in 1 .. n /\ z[j] = s[j]
      BY <1>6, <2>3
    <3> QED BY <1>9, <1>11, <2>1, <3>1
  <2> QED BY <2>2, <2>3
<1> HIDE DEF z
<1>12. InOrder(z, U)
  BY <1>6, <1>10, <1>11 DEF InOrder
<1> QED
  BY <1>3, <1>12

\* Sorted tiers are all of them, each where its end puts it.
LEMMA SortedAll ==
    ASSUME NEW tiers, tiers \subseteq Fare!Tier, IsFiniteSet(tiers), NEW s, InOrder(s, tiers)
    PROVE  \A t \in tiers : \E i \in 1 .. Cardinality(tiers) : s[i] = t
<1> DEFINE n == Cardinality(tiers)
<1>1. n \in Nat
  BY FS_CardinalityType
<1>2. IsFiniteSet(1 .. n) /\ Cardinality(1 .. n) = n
  <2> HIDE DEF n
  <2>1. n \in Int /\ 1 \in Int
    BY <1>1
  <2>2. IsFiniteSet(1 .. n) /\ Cardinality(1 .. n) = IF 1 > n THEN 0 ELSE n - 1 + 1
    BY <2>1, FS_Interval
  <2> QED BY <1>1, <2>2
<1>3. s \in Injection(1 .. n, tiers)
  <2>1. ASSUME NEW i \in 1 .. n, NEW j \in 1 .. n, s[i] = s[j]
        PROVE  i = j
    <3>1. ~(i < j) /\ ~(j < i)
      <4>1. s[i] \in tiers /\ s[i].max \in Nat
        BY DEF InOrder, Fare!Tier
      <4> QED BY <2>1, <4>1 DEF InOrder
    <3> QED BY <1>1, <3>1
  <2>2. IsInjective(s)
    BY <2>1 DEF InOrder, IsInjective
  <2> QED BY <2>2 DEF InOrder, Injection
<1>4. s \in Surjection(1 .. n, tiers)
  BY <1>2, <1>3, FS_Injection
<1> QED
  BY <1>4 DEF Surjection

\* What the folds over tiers need of them.
Table(tiers, s, n) ==
    /\ tiers \subseteq Fare!Tier
    /\ Distinct(tiers)
    /\ n \in Nat \ {0}
    /\ s \in [1 .. n -> tiers]
    /\ \A i, j \in 1 .. n : i < j => s[i].max < s[j].max
    /\ \A t \in tiers : \E i \in 1 .. n : s[i] = t

LEMMA SortedTable ==
    ASSUME NEW tiers, tiers \subseteq Fare!Tier, IsFiniteSet(tiers), Distinct(tiers), tiers # {}
    PROVE  Table(tiers, Fare!Sorted(tiers), Cardinality(tiers))
<1>1. InOrder(Fare!Sorted(tiers), tiers)
  BY SortedExists
<1>2. \A t \in tiers : \E i \in 1 .. Cardinality(tiers) : Fare!Sorted(tiers)[i] = t
  BY <1>1, SortedAll
<1>3. Cardinality(tiers) \in Nat /\ Cardinality(tiers) # 0
  BY FS_CardinalityType, FS_EmptySet
<1> QED
  BY <1>1, <1>2, <1>3 DEF Table, InOrder

LEMMA TableTypes ==
    ASSUME NEW tiers, NEW s, NEW n, Table(tiers, s, n), NEW i \in 1 .. n
    PROVE  s[i] \in tiers /\ s[i].max \in Nat /\ s[i].max > 0 /\ s[i].rate \in Nat
BY DEF Table, Fare!Tier

\* The rate of a kilometre within a tier: that of the tier.
LEMMA RateWithin ==
    ASSUME NEW tiers, NEW s, NEW n, Table(tiers, s, n), NEW i \in 1 .. n, NEW k \in Nat,
           k <= s[i].max, i # 1 => s[i - 1].max < k
    PROVE  Fare!RateOf(tiers, k) = s[i].rate
<1> DEFINE reaching == {t \in tiers : k <= t.max}
<1>1. s[i] \in reaching
  BY TableTypes
<1>2. \A u \in reaching : s[i].max <= u.max
  <2> TAKE u \in reaching
  <2>1. PICK j \in 1 .. n : s[j] = u
    BY DEF Table
  <2>2. n \in Nat /\ s[j].max \in Nat /\ s[i].max \in Nat /\ k <= s[j].max
    BY <2>1, TableTypes DEF Table
  <2>3. CASE i <= j
    BY <2>1, <2>2, <2>3 DEF Table
  <2>4. CASE ~(i <= j)
    <3>1. i - 1 \in 1 .. n /\ j <= i - 1
      BY <2>2, <2>4
    <3>2. s[i - 1].max \in Nat
      BY <3>1, TableTypes
    <3>3. s[j].max <= s[i - 1].max
      <4>1. CASE j = i - 1
        BY <3>2, <4>1
      <4>2. CASE j # i - 1
        <5>1. j < i - 1
          BY <2>2, <3>1, <4>2
        <5>2. s[j].max < s[i - 1].max
          BY <3>1, <5>1 DEF Table
        <5> QED BY <2>2, <3>2, <5>2
      <4> QED BY <4>1, <4>2
    <3>4. s[i - 1].max < k
      BY <2>2, <2>4
    <3> QED BY <2>2, <3>2, <3>3, <3>4
  <2> QED BY <2>3, <2>4
<1>3. \A t \in reaching : (\A u \in reaching : t.max <= u.max) => t = s[i]
  <2> TAKE t \in reaching
  <2> HAVE \A u \in reaching : t.max <= u.max
  <2>1. t.max <= s[i].max /\ s[i].max <= t.max /\ t \in tiers /\ s[i] \in tiers
    BY <1>1, <1>2
  <2>2. t.max = s[i].max
    BY <2>1 DEF Table, Fare!Tier
  <2> QED BY <2>1, <2>2 DEF Table, Distinct
<1>4. (CHOOSE t \in reaching : \A u \in reaching : t.max <= u.max) = s[i]
  <2> HIDE DEF reaching
  <2> QED BY <1>1, <1>2, <1>3
<1>5. reaching # {}
  BY <1>1
<1> QED
  BY <1>4, <1>5 DEF Fare!RateOf

\* The rate of a kilometre past the last tier: that of the last tier.
LEMMA RateBeyond ==
    ASSUME NEW tiers, NEW s, NEW n, Table(tiers, s, n), NEW k \in Nat, s[n].max < k
    PROVE  Fare!RateOf(tiers, k) = s[n].rate
<1>1. n \in 1 .. n
  BY DEF Table
<1>2. s[n] \in tiers
  BY <1>1, TableTypes
<1>3. \A u \in tiers : u.max <= s[n].max
  <2> TAKE u \in tiers
  <2>1. PICK j \in 1 .. n : s[j] = u
    BY DEF Table
  <2>2. CASE j = n
    BY <2>1, <2>2, TableTypes
  <2>3. CASE j # n
    <3>1. j < n
      BY <2>3 DEF Table
    <3>2. s[j].max < s[n].max
      BY <1>1, <3>1 DEF Table
    <3> QED BY <1>1, <2>1, <3>2, TableTypes
  <2> QED BY <2>2, <2>3
<1>4. {t \in tiers : k <= t.max} = {}
  <2>1. s[n].max \in Nat /\ \A u \in tiers : u.max \in Nat
    BY <1>1, TableTypes DEF Table, Fare!Tier
  <2> QED BY <1>3, <2>1
<1>5. \A t \in tiers : (\A u \in tiers : u.max <= t.max) => t = s[n]
  <2> TAKE t \in tiers
  <2> HAVE \A u \in tiers : u.max <= t.max
  <2>1. t.max = s[n].max
    BY <1>2, <1>3 DEF Table, Fare!Tier
  <2> QED BY <1>2, <2>1 DEF Table, Distinct
<1>6. (CHOOSE t \in tiers : \A u \in tiers : u.max <= t.max) = s[n]
  BY <1>2, <1>3, <1>5
<1> QED
  BY <1>4, <1>6 DEF Fare!RateOf

LEMMA RateNat ==
    ASSUME NEW tiers, NEW s, NEW n, Table(tiers, s, n), NEW k \in Nat
    PROVE  Fare!RateOf(tiers, k) \in Nat
<1>1. n \in Nat /\ n \in 1 .. n
  BY DEF Table
<1>2. CASE s[n].max < k
  BY <1>1, <1>2, RateBeyond, TableTypes
<1>3. CASE ~(s[n].max < k)
  <2> DEFINE S == {i \in 1 .. n : k <= s[i].max}
  <2>1. n \in S /\ S \subseteq 0 .. n
    BY <1>1, <1>3, TableTypes
  <2>2. PICK i \in S : \A j \in S : i <= j
    <3> HIDE DEF S
    <3> QED BY <1>1, <2>1, LeastOfSome
  <2>3. i # 1 => s[i - 1].max < k
    <3>1. SUFFICES ASSUME i # 1
                   PROVE  s[i - 1].max < k
      OBVIOUS
    <3>2. i - 1 \in 1 .. n /\ i - 1 \notin S
      <4>1. i \in 1 .. n
        BY <2>2
      <4>2. i - 1 \in 1 .. n /\ ~(i <= i - 1)
        BY <1>1, <3>1, <4>1
      <4> HIDE DEF S
      <4> QED BY <2>2, <4>2
    <3> QED BY <3>2, TableTypes
  <2>4. Fare!RateOf(tiers, k) = s[i].rate
    BY <2>3, RateWithin
  <2> QED BY <2>4, TableTypes
<1> QED
  BY <1>2, <1>3

-----------------------------------------------------------------------------
(* The loop over the tiers, and the fare kilometre by kilometre *)

Charge == [total : Int, upTo : Int]
NoCharge == [total |-> 0, upTo |-> 0]

BandFold(g, s, n, km) ==
    g = [S \in SUBSET (1 .. n) |->
            IF S = {} THEN NoCharge
            ELSE Fare!Band(g[S \ {Fare!Max(S)}], s[Fare!Max(S)], km)]

\* What the loop has charged after each tier.
LEMMA BandsUnrolled ==
    ASSUME NEW tiers, NEW n, Table(tiers, Fare!Sorted(tiers), n), NEW km \in Nat
    PROVE  \E f : /\ f[0] = NoCharge
                  /\ \A i \in 1 .. n : f[i] = Fare!Band(f[i - 1], Fare!Sorted(tiers)[i], km)
                  /\ Fare!Bands(tiers, km) = f[n]
<1> DEFINE s == Fare!Sorted(tiers)
           step == [i \in 1 .. n |-> [v \in Charge |-> Fare!Band(v, s[i], km)]]
           it == CHOOSE g : BandFold(g, s, n, km)
           f == [i \in 0 .. n |-> it[1 .. i]]
<1>1. n \in Nat /\ DOMAIN s = 1 .. n
  BY DEF Table
<1>2. Fare!Bands(tiers, km) = it[1 .. n]
  BY <1>1 DEF Fare!Bands, Fare!FoldLeft, Fare!MapThenFoldSet, BandFold, NoCharge
<1>3. ASSUME NEW i \in 1 .. n, NEW v \in Charge
      PROVE  Fare!Band(v, s[i], km) \in Charge
  <2>1. s[i].max \in Nat /\ s[i].rate \in Nat
    BY TableTypes
  <2> DEFINE max == s[i].max
             rate == s[i].rate
  <2> HIDE DEF s, max, rate
  <2>2. max \in Int /\ rate \in Int /\ Fare!AtMost(km, max) \in Int
    BY <2>1 DEF max, rate, Fare!AtMost
  <2>3. v.total \in Int /\ v.upTo \in Int
    BY DEF Charge
  <2>4. (Fare!AtMost(km, max) - v.upTo) * rate \in Int
    BY <2>2, <2>3
  <2> QED
    BY <2>2, <2>3, <2>4 DEF Charge, Fare!Band, max, rate
<1>4. step \in [1 .. n -> [Charge -> Charge]] /\ NoCharge \in Charge
  BY <1>3 DEF Charge, NoCharge
<1>5. PICK g \in [SUBSET (1 .. n) -> Charge] : Folds(g, n, NoCharge, step)
  <2> HIDE DEF step
  <2> QED BY <1>1, <1>4, FoldExists
<1>6. BandFold(g, s, n, km)
  <2>1. ASSUME NEW S \in SUBSET (1 .. n), S # {}
        PROVE  g[S] = Fare!Band(g[S \ {Fare!Max(S)}], s[Fare!Max(S)], km)
    <3>1. Fare!Max(S) \in 1 .. n
      BY <1>1, <2>1, LastIndex
    <3>2. g[S \ {Fare!Max(S)}] \in Charge
      BY <1>5
    <3>3. g[S] = step[Fare!Max(S)][g[S \ {Fare!Max(S)}]]
      BY <1>5, <2>1 DEF Folds
    <3> QED BY <3>1, <3>2, <3>3
  <2>2. g[{}] = NoCharge
    BY <1>5 DEF Folds
  <2> HIDE DEF s, step
  <2>3. g = [S \in SUBSET (1 .. n) |->
            IF S = {} THEN NoCharge
            ELSE Fare!Band(g[S \ {Fare!Max(S)}], s[Fare!Max(S)], km)]
    BY <1>5, <2>1, <2>2
  <2> QED BY <2>3 DEF BandFold
<1>7. BandFold(it, s, n, km)
  BY <1>6
<1>8. it[1 .. 0] = NoCharge
  <2>1. 1 .. 0 = {} /\ 1 .. 0 \in SUBSET (1 .. n)
    OBVIOUS
  <2> HIDE DEF it, s
  <2> QED BY <1>7, <2>1 DEF BandFold
<1>9. ASSUME NEW i \in 1 .. n
      PROVE  it[1 .. i] = Fare!Band(it[1 .. i - 1], s[i], km)
  <2>1. 1 .. i \in SUBSET (1 .. n) /\ 1 .. i # {} /\ i \in Nat
    <3>1. i \in Nat /\ i >= 1 /\ i <= n /\ n \in Nat
      BY <1>1
    <3> QED BY <3>1
  <2>2. Fare!Max(1 .. i) = i /\ (1 .. i) \ {i} = 1 .. i - 1
    BY <2>1, MaxUpTo
  <2> HIDE DEF it, s
  <2> QED BY <1>7, <2>1, <2>2 DEF BandFold
<1>10. f[0] = NoCharge /\ f[n] = it[1 .. n]
  BY <1>1, <1>8
<1>11. \A i \in 1 .. n : f[i] = Fare!Band(f[i - 1], s[i], km)
  <2> TAKE i \in 1 .. n
  <2>1. i \in 0 .. n /\ i - 1 \in 0 .. n
    BY <1>1
  <2> HIDE DEF it, s
  <2> QED BY <1>9, <2>1
<1> HIDE DEF f, it
<1> QED
  BY <1>2, <1>10, <1>11

\* The fare kilometre by kilometre.
KmSum(tiers, km) ==
    Fare!FoldLeft(LAMBDA sum, k : sum + Fare!RateOf(tiers, k), 0, [k \in 1 .. km |-> k])

KmFold(g, tiers, km) ==
    g = [S \in SUBSET (1 .. km) |->
            IF S = {} THEN 0
            ELSE g[S \ {Fare!Max(S)}]
                    + Fare!RateOf(tiers, [k \in 1 .. km |-> k][Fare!Max(S)])]

LEMMA KmUnrolled ==
    ASSUME NEW tiers, NEW s, NEW n, Table(tiers, s, n), NEW km \in Nat
    PROVE  \E h : /\ h[0] = 0
                  /\ \A k \in 1 .. km : h[k] = h[k - 1] + Fare!RateOf(tiers, k)
                  /\ \A k \in 0 .. km : h[k] \in Nat
                  /\ KmSum(tiers, km) = h[km]
<1> DEFINE step == [k \in 1 .. km |-> [v \in Nat |-> v + Fare!RateOf(tiers, k)]]
           it == CHOOSE g : KmFold(g, tiers, km)
           h == [k \in 0 .. km |-> it[1 .. k]]
<1>1. KmSum(tiers, km) = it[1 .. km]
  BY DEF KmSum, Fare!FoldLeft, Fare!MapThenFoldSet, KmFold
<1>2. \A k \in 1 .. km : Fare!RateOf(tiers, k) \in Nat
  BY RateNat
<1>3. step \in [1 .. km -> [Nat -> Nat]] /\ 0 \in Nat
  BY <1>2
<1>4. PICK g \in [SUBSET (1 .. km) -> Nat] : Folds(g, km, 0, step)
  <2> HIDE DEF step
  <2> QED BY <1>3, FoldExists
<1>5. KmFold(g, tiers, km)
  <2>1. ASSUME NEW S \in SUBSET (1 .. km), S # {}
        PROVE  g[S] = g[S \ {Fare!Max(S)}]
                         + Fare!RateOf(tiers, [k \in 1 .. km |-> k][Fare!Max(S)])
    <3>1. Fare!Max(S) \in 1 .. km
      BY <2>1, LastIndex
    <3>2. g[S \ {Fare!Max(S)}] \in Nat
      BY <1>4
    <3>3. g[S] = step[Fare!Max(S)][g[S \ {Fare!Max(S)}]]
      BY <1>4, <2>1 DEF Folds
    <3> QED BY <3>1, <3>2, <3>3
  <2>2. g[{}] = 0
    BY <1>4 DEF Folds
  <2>3. g = [S \in SUBSET (1 .. km) |->
                IF S = {} THEN 0
                ELSE g[S \ {Fare!Max(S)}]
                        + Fare!RateOf(tiers, [k \in 1 .. km |-> k][Fare!Max(S)])]
    BY <1>4, <2>1, <2>2
  <2> QED BY <2>3 DEF KmFold
<1>6. KmFold(it, tiers, km)
  BY <1>5
<1>7. it[1 .. 0] = 0
  <2>1. 1 .. 0 = {} /\ 1 .. 0 \in SUBSET (1 .. km)
    OBVIOUS
  <2> HIDE DEF it
  <2> QED BY <1>6, <2>1 DEF KmFold
<1>8. ASSUME NEW k \in 1 .. km
      PROVE  it[1 .. k] = it[1 .. k - 1] + Fare!RateOf(tiers, k)
  <2>1. 1 .. k \in SUBSET (1 .. km) /\ 1 .. k # {} /\ k \in Nat
    <3>1. k \in Nat /\ k >= 1 /\ k <= km
      OBVIOUS
    <3> QED BY <3>1
  <2>2. Fare!Max(1 .. k) = k /\ (1 .. k) \ {k} = 1 .. k - 1
    BY <2>1, MaxUpTo
  <2> HIDE DEF it
  <2> QED BY <1>6, <2>1, <2>2 DEF KmFold
<1> HIDE DEF it
<1>9. h[0] = 0 /\ h[km] = it[1 .. km]
  BY <1>7
<1>10. \A k \in 1 .. km : h[k] = h[k - 1] + Fare!RateOf(tiers, k)
  <2> TAKE k \in 1 .. km
  <2>1. k \in 0 .. km /\ k - 1 \in 0 .. km
    OBVIOUS
  <2> QED BY <1>8, <2>1
<1> HIDE DEF h
<1>11. \A k \in 0 .. km : h[k] \in Nat
  <2> DEFINE S == {k \in 0 .. km : h[k] \notin Nat}
  <2>1. SUFFICES ASSUME S # {}
                 PROVE  FALSE
    OBVIOUS
  <2>2. PICK k \in S : \A j \in S : k <= j
    <3>1. S \subseteq 0 .. km
      OBVIOUS
    <3> HIDE DEF S
    <3> QED BY <2>1, <3>1, LeastOfSome
  <2>3. k \in 1 .. km
    BY <1>9
  <2>4. h[k - 1] \in Nat
    <3>1. k - 1 \in 0 .. km /\ ~(k <= k - 1)
      BY <2>3
    <3>2. k - 1 \notin S
      <4> HIDE DEF S
      <4> QED BY <2>2, <3>1
    <3> QED BY <3>1, <3>2
  <2> QED BY <1>2, <1>10, <2>3, <2>4
<1> QED
  BY <1>1, <1>9, <1>10, <1>11

Steady(h, a, b, rate) ==
    /\ a \in Nat /\ b \in Nat /\ a <= b /\ rate \in Nat
    /\ \A k \in 0 .. b : h[k] \in Nat
    /\ \A k \in a + 1 .. b : h[k] = h[k - 1] + rate

\* At one rate, the fare grows with the distance.
LEMMA SteadyRate ==
    ASSUME NEW h, NEW a, NEW b, NEW rate, Steady(h, a, b, rate)
    PROVE  h[b] = h[a] + (b - a) * rate
<1> USE DEF Steady
<1> DEFINE S == {k \in 0 .. b : a <= k /\ h[k] # h[a] + (k - a) * rate}
<1>1. SUFFICES ASSUME S # {}
               PROVE  FALSE
  <2>1. b \in 0 .. b
    OBVIOUS
  <2> QED BY <2>1
<1>2. PICK k \in S : \A j \in S : k <= j
  <2>1. S \subseteq 0 .. b /\ b \in Nat
    OBVIOUS
  <2> HIDE DEF S
  <2> QED BY <1>1, <2>1, LeastOfSome
<1>3. k # a
  BY <1>2
<1>4. k \in Nat /\ k <= b /\ a < k
  BY <1>2, <1>3
<1>5. k - 1 \in 0 .. b /\ a <= k - 1 /\ ~(k <= k - 1)
  BY <1>4
<1>6. h[k - 1] = h[a] + (k - 1 - a) * rate
  <2>1. k - 1 \notin S
    <3> HIDE DEF S
    <3> QED BY <1>2, <1>5
  <2> QED BY <1>5, <2>1
<1>7. h[k] = h[k - 1] + rate
  BY <1>4
<1>8. (k - 1 - a) * rate + rate = (k - a) * rate
  BY <1>4
<1>9. h[a] \in Nat /\ (k - 1 - a) * rate \in Int
  BY <1>4
<1>10. h[k] = h[a] + (k - a) * rate
  BY <1>6, <1>7, <1>8, <1>9
<1> QED
  BY <1>2, <1>10

\* What the loop knows after i tiers: the kilometres up to where it stands are
\* charged, and it stands at the end of the tier or is past the delivery.
PaidUpTo(sum, h, s, i, km) ==
    /\ sum.upTo \in Nat
    /\ sum.total = h[Fare!AtMost(km, sum.upTo)]
    /\ km <= sum.upTo \/ sum.upTo = IF i = 0 THEN 0 ELSE s[i].max

LEMMA PaidNext ==
    ASSUME NEW tiers, NEW s, NEW n, Table(tiers, s, n), NEW km \in Nat,
           NEW h, \A k \in 0 .. km : h[k] \in Nat,
           \A k \in 1 .. km : h[k] = h[k - 1] + Fare!RateOf(tiers, k),
           NEW i \in 1 .. n, NEW sum, PaidUpTo(sum, h, s, i - 1, km)
    PROVE  PaidUpTo(Fare!Band(sum, s[i], km), h, s, i, km)
<1> DEFINE max == s[i].max
           rate == s[i].rate
           a == sum.upTo
           b == Fare!AtMost(km, max)
           next == Fare!Band(sum, s[i], km)
<1>1. CASE km <= a
  <2>1. next = sum
    BY <1>1 DEF Fare!Band
  <2> QED BY <1>1, <2>1 DEF PaidUpTo
<1>2. CASE ~(km <= a)
  <2>1. next = [total |-> sum.total + (b - a) * rate, upTo |-> max]
    BY <1>2 DEF Fare!Band
  <2>2. max \in Nat /\ rate \in Nat /\ max > 0 /\ i \in Nat /\ n \in Nat /\ a \in Nat
    <3>1. max \in Nat /\ rate \in Nat /\ max > 0
      BY TableTypes
    <3>2. i \in Nat /\ n \in Nat /\ a \in Nat
      BY DEF Table, PaidUpTo
    <3> QED BY <3>1, <3>2
  <2>3. a = IF i = 1 THEN 0 ELSE s[i - 1].max
    BY <1>2, <2>2 DEF PaidUpTo
  <2>4. a < max
    <3>1. CASE i = 1
      BY <2>2, <2>3, <3>1
    <3>2. CASE i # 1
      <4>1. i - 1 \in 1 .. n /\ i - 1 < i
        BY <2>2, <3>2
      <4>2. s[i - 1].max < s[i].max
        BY <4>1 DEF Table
      <4> QED BY <2>3, <3>2, <4>2
    <3> QED BY <3>1, <3>2
  <2> HIDE DEF max, rate, a, next
  <2>5. b \in 0 .. km /\ a \in 0 .. km /\ a <= b /\ b <= max /\ Fare!AtMost(km, a) = a
    BY <1>2, <2>2, <2>4 DEF Fare!AtMost
  <2>6. \A k \in a + 1 .. b : h[k] = h[k - 1] + rate
    <3> HIDE DEF b
    <3> TAKE k \in a + 1 .. b
    <3>1. k \in 1 .. km /\ k <= max /\ a < k /\ k \in Nat
      BY <2>2, <2>5
    <3>2. i # 1 => s[i - 1].max < k
      BY <2>3, <3>1
    <3>3. Fare!RateOf(tiers, k) = rate
      BY <3>1, <3>2, RateWithin DEF max, rate
    <3> QED BY <3>1, <3>3
  <2>7. h[b] = h[a] + (b - a) * rate
    <3> HIDE DEF b
    <3>1. Steady(h, a, b, rate)
      BY <2>2, <2>5, <2>6 DEF Steady
    <3> QED BY <3>1, SteadyRate
  <2>8. sum.total = h[a]
    BY <2>5 DEF PaidUpTo, a
  <2>9. next.total = h[b] /\ next.upTo = max
    BY <2>1, <2>7, <2>8
  <2>10. i # 0
    BY <2>2
  <2> QED BY <2>2, <2>9, <2>10 DEF PaidUpTo, next, max
<1> QED BY <1>1, <1>2

\* The loop and the rest past the last tier charge every kilometre at its rate.
LEMMA TiersChargeKm ==
    ASSUME NEW tiers, tiers \subseteq Fare!Tier, IsFiniteSet(tiers), Distinct(tiers),
           tiers # {}, NEW km \in Nat
    PROVE  Fare!ApplyDistanceTiers(tiers, km) = KmSum(tiers, km)
<1> DEFINE s == Fare!Sorted(tiers)
           n == Cardinality(tiers)
<1>1. Table(tiers, s, n)
  BY SortedTable
<1> HIDE DEF n
<1>2. PICK f : /\ f[0] = NoCharge
               /\ \A i \in 1 .. n : f[i] = Fare!Band(f[i - 1], s[i], km)
               /\ Fare!Bands(tiers, km) = f[n]
  BY <1>1, BandsUnrolled
<1> HIDE DEF s
<1>3. PICK h : /\ h[0] = 0
               /\ \A k \in 1 .. km : h[k] = h[k - 1] + Fare!RateOf(tiers, k)
               /\ \A k \in 0 .. km : h[k] \in Nat
               /\ KmSum(tiers, km) = h[km]
  BY <1>1, KmUnrolled
<1>4. n \in Nat /\ n # 0 /\ n \in 1 .. n /\ n \in 0 .. n
  BY <1>1 DEF Table
<1>5. \A i \in 0 .. n : PaidUpTo(f[i], h, s, i, km)
  <2> DEFINE S == {i \in 0 .. n : ~PaidUpTo(f[i], h, s, i, km)}
  <2>1. SUFFICES ASSUME S # {}
                 PROVE  FALSE
    OBVIOUS
  <2>2. PICK i \in S : \A j \in S : i <= j
    <3>1. S \subseteq 0 .. n
      OBVIOUS
    <3> HIDE DEF S
    <3> QED BY <1>4, <2>1, <3>1, LeastOfSome
  <2>3. i # 0
    <3>1. PaidUpTo(f[0], h, s, 0, km)
      BY <1>2, <1>3 DEF PaidUpTo, NoCharge, Fare!AtMost
    <3> QED BY <3>1
  <2>4. i \in 1 .. n /\ i - 1 \in 0 .. n /\ ~(i <= i - 1)
    <3>1. i \in 0 .. n
      OBVIOUS
    <3> QED BY <1>4, <2>3, <3>1
  <2>5. i - 1 \notin S
    <3> HIDE DEF S
    <3> QED BY <2>2, <2>4
  <2>6. PaidUpTo(f[i - 1], h, s, i - 1, km)
    BY <2>4, <2>5
  <2>7. PaidUpTo(Fare!Band(f[i - 1], s[i], km), h, s, i, km)
    BY <1>1, <1>3, <2>4, <2>6, PaidNext
  <2>8. f[i] = Fare!Band(f[i - 1], s[i], km)
    BY <1>2, <2>4
  <2> QED BY <2>7, <2>8
<1> DEFINE sum == f[n]
           a == sum.upTo
           rate == s[n].rate
<1>6. PaidUpTo(sum, h, s, n, km)
  BY <1>4, <1>5
<1>7. Fare!ApplyDistanceTiers(tiers, km)
          = IF km > a THEN sum.total + (km - a) * rate ELSE sum.total
  BY <1>2, SameCount DEF Fare!ApplyDistanceTiers, s, n
<1>8. CASE ~(km > a)
  <2>1. Fare!AtMost(km, a) = km
    BY <1>6, <1>8 DEF PaidUpTo, Fare!AtMost
  <2>2. sum.total = h[km]
    BY <1>6, <2>1 DEF PaidUpTo
  <2> QED BY <1>3, <1>7, <1>8, <2>2
<1>9. CASE km > a
  <2>1. a \in Nat /\ a = s[n].max /\ rate \in Nat
    BY <1>1, <1>4, <1>6, <1>9, TableTypes DEF PaidUpTo
  <2> HIDE DEF a, rate
  <2>2. a \in 0 .. km /\ km \in 0 .. km /\ a <= km /\ Fare!AtMost(km, a) = a
    BY <1>9, <2>1 DEF Fare!AtMost
  <2>3. \A k \in a + 1 .. km : h[k] = h[k - 1] + rate
    <3> TAKE k \in a + 1 .. km
    <3>1. k \in 1 .. km /\ a < k /\ k \in Nat
      BY <2>1
    <3>2. Fare!RateOf(tiers, k) = rate
      BY <1>1, <2>1, <3>1, RateBeyond DEF rate
    <3> QED BY <1>3, <3>1, <3>2
  <2>4. h[km] = h[a] + (km - a) * rate
    <3>1. Steady(h, a, km, rate)
      BY <1>3, <2>1, <2>2, <2>3 DEF Steady
    <3> QED BY <3>1, SteadyRate
  <2>5. sum.total = h[a]
    BY <1>6, <2>2 DEF PaidUpTo, a
  <2> QED BY <1>3, <1>7, <1>9, <2>4, <2>5
<1> QED BY <1>8, <1>9

-----------------------------------------------------------------------------
(* The theorem about the fares *)

\* Whatever is edited, the stored rules are rules that were accepted.
FareInv == rules \in [RuleIds -> RuleInputs \cup {Fare!NoRule}]

LEMMA FareInvHolds == Fare!Spec => []FareInv
<1>1. Fare!Init => FareInv
  BY DEF Fare!Init, FareInv
<1>2. FareInv /\ [Fare!Next]_rules => FareInv'
  <2> SUFFICES ASSUME FareInv, [Fare!Next]_rules
               PROVE  FareInv'
    OBVIOUS
  <2> USE DEF FareInv
  <2>1. CASE UNCHANGED rules
    BY <2>1
  <2>2. ASSUME NEW id \in RuleIds, NEW r \in RuleInputs, Fare!CreateRule(id, r)
        PROVE  FareInv'
    BY <2>2 DEF Fare!CreateRule
  <2>3. ASSUME NEW id \in RuleIds, NEW r \in RuleInputs, Fare!UpdateRule(id, r)
        PROVE  FareInv'
    BY <2>3 DEF Fare!UpdateRule
  <2>4. ASSUME NEW id \in RuleIds, Fare!DeleteRule(id)
        PROVE  FareInv'
    BY <2>4 DEF Fare!DeleteRule
  <2> QED
    BY <2>1, <2>2, <2>3, <2>4 DEF Fare!Next
<1> QED
  BY <1>1, <1>2, PTL DEF Fare!Spec

LEMMA FareCharged == FareInv => Fare!EachKmAtItsRate
<1> SUFFICES ASSUME FareInv, NEW r \in Fare!Active, NEW km \in Fare!Km, r.tiers # {}
             PROVE  Fare!ApplyDistanceTiers(r.tiers, km) = KmSum(r.tiers, km)
  BY DEF Fare!EachKmAtItsRate, KmSum
<1>1. r \in RuleInputs /\ km \in Nat
  BY RulesAssumption DEF FareInv, Fare!Active, Fare!Km
<1>2. r.tiers \subseteq Fare!Tier /\ IsFiniteSet(r.tiers) /\ Distinct(r.tiers)
  BY <1>1, RulesAssumption DEF Fare!Rule, Distinct
<1> QED
  BY <1>1, <1>2, TiersChargeKm

\* The variables of the rules, the quotes and the metadata keep their types.
THEOREM TypesOfTheOthers ==
    /\ Fare!Spec => []Fare!TypeOK
    /\ Quote!Spec => []Quote!TypeOK
    /\ Record!Spec => []Record!TypeOK
<1>1. FareInv => Fare!TypeOK
  BY RulesAssumption DEF FareInv, Fare!TypeOK
<1>2. QuoteInv => Quote!TypeOK
  BY RoadAssumption DEF QuoteInv, Quote!TypeOK
<1>3. Quote!Spec => []QuoteInv
  BY QuoteInvInit, QuoteInvNext, PTL DEF Quote!Spec, Quote!vars, quoteVars
<1>4. Record!Spec => []Record!TypeOK
  BY RecordInit, RecordTypeNext, PTL DEF Record!Spec, Record!vars, recordVars
<1> QED
  BY <1>1, <1>2, <1>3, <1>4, FareInvHolds, PTL

\* Tiers charge every kilometre once and at its own rate, for any tables of tiers
\* and any distance (applyDistanceTiers).
THEOREM KmAtItsRate ==
    /\ Fare!Spec => []Fare!EachKmAtItsRate
    /\ Fare!Spec => []EachKmAtItsRate
<1>1. Fare!EachKmAtItsRate => EachKmAtItsRate
  BY DEF EachKmAtItsRate
<1> QED
  BY <1>1, FareInvHolds, FareCharged, PTL

-----------------------------------------------------------------------------
(* All of them, one at a time *)

\* A behaviour of the composition is one of each component.
THEOREM EachMovesAlone ==
    MCSpec => Spec /\ Quote!Spec /\ Fare!Spec /\ Record!Spec
<1>1. MCInit => Init /\ Quote!Init /\ Fare!Init /\ Record!Init
  BY DEF MCInit
<1>2. [MCNext]_allVars =>
          [Next]_vars /\ [Quote!Next]_quoteVars /\ [Fare!Next]_rules /\ [Record!Next]_recordVars
  BY DEF MCNext, allVars
<1> QED
  BY <1>1, <1>2, PTL
  DEF MCSpec, Spec, Quote!Spec, Quote!vars, quoteVars, Fare!Spec, Record!Spec, Record!vars, recordVars

\* What is proved of the components holds of the composition.
THEOREM DispatchHolds ==
    MCSpec =>
        /\ []TypeOK /\ []FartherNeverCheaper /\ []EachKmAtItsRate /\ []StampsFitStatus
        /\ NobodyOverlooked /\ BestIsChosen /\ DeclinedIsHeard
BY EachMovesAlone, TypeCorrect, NobodyPaysLessFartherOut, KmAtItsRate, ClosingsAreStamped,
   NobodyIsOverlooked, TheBestIsChosen, DeclinesAreHeard, PTL
=============================================================================
