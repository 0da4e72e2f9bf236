------------------------- MODULE RiderShiftsProofs -------------------------
(***************************************************************************)
(* What RiderShifts promises for every number of handlers, shifts and time *)
(* steps: the ends recorded are real whatever interleaves, and with one    *)
(* handler at a time shifts do not overlap and worked shifts stay.         *)
(***************************************************************************)
EXTENDS RiderShifts, TLAPS

\* NoShift and Deleted are no stored shifts: Exists tells them apart.
LEMMA ShiftTyped ==
    ASSUME TypeOK, NEW i \in ShiftId
    PROVE  /\ Exists(i) => shifts[i] \in Shift
           /\ shifts[i] \in Shift => Exists(i)
           /\ ~Exists(i) => shifts[i] \in {NoShift, Deleted}
  BY DEF TypeOK, Exists, Shift, NoShift, Deleted, Statuses

\* A query of rows that exist returns rows.
LEMMA OnlyTyped ==
    ASSUME TypeOK, NEW D \in SUBSET ShiftId, \A i \in D : Exists(i)
    PROVE  /\ Only(D) \in [ShiftId -> Shift \cup {NoShift}]
           /\ \A i \in D : Only(D)[i] = shifts[i] /\ Only(D)[i] # NoShift
           /\ \A i \in ShiftId \ D : Only(D)[i] = NoShift
  BY ShiftTyped DEF Only, Exists, NoShift, Statuses

\* Idle is a call.
LEMMA IdleTyped == Idle \in Call
  BY DEF Idle, Call, Steps, Statuses, NoRows, NoShift

\* Init gives every variable its type.
LEMMA InitTyped == Init => TypeOK
  BY IdleTyped DEF Init, TypeOK

-----------------------------------------------------------------------------
(* Types *)

\* Every handler's step keeps the types.
LEMMA HandlerTyped ==
    ASSUME TypeOK, NEW w \in Workers
    PROVE  /\ \A from, until \in 0 .. MaxTime : Create(w, from, until) => TypeOK'
           /\ GoOnline(w) => TypeOK'
           /\ FindScheduled(w) => TypeOK'
           /\ FindNext(w) => TypeOK'
           /\ GoOffline(w) => TypeOK'
  <1>. USE ShiftsAssumption DEF TypeOK, Goto
  <1>1. ASSUME NEW from \in 0 .. MaxTime, NEW until \in 0 .. MaxTime, Create(w, from, until)
        PROVE  TypeOK'
    <2>1. from \in Nat /\ until \in Nat
      OBVIOUS
    <2>2. [Idle EXCEPT !.at = "insert", !.to = "scheduled", !.from = from, !.until = until] \in Call
      BY <2>1, IdleTyped DEF Call, Idle, Steps, Statuses
    <2>. QED  BY <1>1, <2>2 DEF Create
  <1>2. ASSUME GoOnline(w) PROVE TypeOK'
    <2>1. [Idle EXCEPT !.at = "scheduled", !.to = "active", !.from = now] \in Call
      BY IdleTyped DEF Call, Idle, Steps, Statuses
    <2>. QED  BY <1>2, <2>1 DEF GoOnline
  <1>3. ASSUME FindScheduled(w) PROVE TypeOK'
    <2>1. ASSUME NEW i \in Startable(call[w].from)
          PROVE  [call[w] EXCEPT !.at = "write", !.rows = Only({i})] \in Call
      <3>1. i \in ShiftId /\ Exists(i)
        BY <2>1 DEF Startable, In, Exists, Statuses
      <3>2. Only({i}) \in [ShiftId -> Shift \cup {NoShift}]
        BY <3>1, OnlyTyped
      <3>. QED  BY <3>2 DEF Call, Steps
    <2>2. [call[w] EXCEPT !.at = "next"] \in Call
      BY DEF Call, Steps
    <2>. QED  BY <1>3, <2>1, <2>2 DEF FindScheduled
  <1>4. ASSUME FindNext(w) PROVE TypeOK'
    <2>1. PICK e \in {call[w].from + OpenEnded} \cup {shifts[i].start : i \in Upcoming(call[w].from)} :
             call' = [call EXCEPT ![w] = [call[w] EXCEPT !.at = "insert", !.until = e]]
      BY <1>4 DEF FindNext
    <2>2. e \in Nat
      BY <2>1, ShiftTyped DEF Upcoming, In, Exists, Statuses, Shift, Call
    <2>3. [call[w] EXCEPT !.at = "insert", !.until = e] \in Call
      BY <2>2 DEF Call, Steps
    <2>. QED  BY <1>4, <2>1, <2>3 DEF FindNext
  <1>5. ASSUME GoOffline(w) PROVE TypeOK'
    <2>1. In({"active"}) \in SUBSET ShiftId /\ \A i \in In({"active"}) : Exists(i)
      BY DEF In, Exists, Statuses
    <2>2. Only(In({"active"})) \in [ShiftId -> Shift \cup {NoShift}]
      BY <2>1, OnlyTyped
    <2>3. [Idle EXCEPT !.at = "complete", !.to = "completed", !.rows = Only(In({"active"}))] \in Call
      BY <2>2, IdleTyped DEF Call, Idle, Steps, Statuses
    <2>. QED  BY <1>5, <2>3 DEF GoOffline
  <1>. QED  BY <1>1, <1>2, <1>3, <1>4, <1>5

\* Every step on one row keeps the types.
LEMMA RowStepTyped ==
    ASSUME TypeOK, NEW w \in Workers, NEW i \in ShiftId
    PROVE  /\ InsertShift(w, i) /\ CallOK(call[w]) => TypeOK'
           /\ \A to \in Statuses : Transition(w, i, to) => TypeOK'
           /\ WriteStatus(w, i) /\ CallOK(call[w]) => TypeOK'
           /\ Complete(w, i) => TypeOK'
           /\ Delete(w, i) => TypeOK'
           /\ DeleteRow(w, i) => TypeOK'
  <1>. USE IdleTyped DEF TypeOK, Goto, Write
  <1>1. ASSUME InsertShift(w, i), CallOK(call[w]) PROVE TypeOK'
    <2>1. [status |-> call[w].to, start |-> call[w].from, end |-> call[w].until] \in Shift
      BY <1>1 DEF InsertShift, CallOK, Shift, Statuses, Call
    <2>. QED  BY <1>1, <2>1 DEF InsertShift
  <1>2. ASSUME NEW to \in Statuses, Transition(w, i, to) PROVE TypeOK'
    <2>1. Only({i}) \in [ShiftId -> Shift \cup {NoShift}]
      BY <1>2, OnlyTyped DEF Transition
    <2>2. [Idle EXCEPT !.at = IF to = "completed" THEN "complete" ELSE "write",
                       !.to = to, !.rows = Only({i})] \in Call
      BY <2>1 DEF Call, Idle, Steps
    <2>. QED  BY <1>2, <2>2 DEF Transition
  <1>3. ASSUME WriteStatus(w, i), CallOK(call[w]) PROVE TypeOK'
    <2>1. Exists(i) => [shifts[i] EXCEPT !.status = call[w].to] \in Shift
      BY <1>3, ShiftTyped DEF WriteStatus, CallOK, Shift, Statuses
    <2>. QED  BY <1>3, <2>1 DEF WriteStatus
  <1>4. ASSUME Complete(w, i) PROVE TypeOK'
    <2>1. call[w].rows[i] \in Shift
      BY <1>4 DEF Complete, Read, Call
    <2>2. Exists(i) => [shifts[i] EXCEPT !.status = "completed",
                           !.end = ActualEnd(call[w].rows[i], shifts[i].end)] \in Shift
      BY <2>1, ShiftTyped DEF ActualEnd, Shift, Statuses
    <2>3. [call[w] EXCEPT !.rows[i] = NoShift] \in Call
      BY DEF Call
    <2>. QED  BY <1>4, <2>2, <2>3 DEF Complete
  <1>5. ASSUME Delete(w, i) PROVE TypeOK'
    <2>1. Only({i}) \in [ShiftId -> Shift \cup {NoShift}]
      BY <1>5, OnlyTyped DEF Delete, NeverRan, Exists, Statuses
    <2>2. [Idle EXCEPT !.at = "delete", !.rows = Only({i})] \in Call
      BY <2>1 DEF Call, Idle, Steps
    <2>. QED  BY <1>5, <2>2 DEF Delete
  <1>6. ASSUME DeleteRow(w, i) PROVE TypeOK'
    BY <1>6 DEF DeleteRow
  <1>. QED  BY <1>1, <1>2, <1>3, <1>4, <1>5, <1>6

\* The clock and the fleet keep the types.
LEMMA OutsideTyped ==
    ASSUME TypeOK, Tick \/ ChangeMember
    PROVE  TypeOK'
  BY DEF TypeOK, Tick, ChangeMember

-----------------------------------------------------------------------------
(* Recorded ends, for any number of handlers *)

\* A step that leaves the rows alone, or the clock, keeps what was read.
LEMMA ReadKept ==
    ASSUME EndsInv, NEW v \in Workers, UNCHANGED shifts, now' >= now, now' \in Nat,
           call'[v] = call[v]
    PROVE  CallOK(call'[v]) /\ RowsRead(call[v])'
  <1>1. \A i \in ShiftId : Real(shifts[i]) /\ Exists(i) => Real(shifts[i])'
    BY ShiftTyped DEF EndsInv, TypeOK, Real, Shift
  <1>. QED  BY <1>1 DEF EndsInv, RowsRead, Read, CallOK, Exists

\* The clock and the fleet.
LEMMA EndsOutside ==
    ASSUME EndsInv, Tick \/ ChangeMember
    PROVE  EndsInv'
  <1>1. TypeOK'
    BY OutsideTyped DEF EndsInv
  <1>2. UNCHANGED <<shifts, call>> /\ now' >= now /\ now' \in Nat
    BY DEF EndsInv, TypeOK, Tick, ChangeMember
  <1>3. (\A i \in ShiftId : Exists(i) => shifts[i].start <= shifts[i].end)'
    BY <1>2 DEF EndsInv, Exists
  <1>4. RecordedEnd'
    BY <1>2, ShiftTyped DEF EndsInv, TypeOK, RecordedEnd, In, Exists, Shift, Statuses
  <1>5. \A v \in Workers : CallOK(call'[v]) /\ RowsRead(call[v])'
    BY <1>2, ReadKept DEF TypeOK
  <1>. QED  BY <1>1, <1>3, <1>4, <1>5 DEF EndsInv

\* A handler that only reads.
LEMMA EndsRead ==
    ASSUME EndsInv, NEW w \in Workers, NEW c, TypeOK', call' = [call EXCEPT ![w] = c],
           UNCHANGED <<now, shifts>>, CallOK(c), RowsRead(c)
    PROVE  EndsInv'
  <1>1. now' >= now /\ now' \in Nat
    BY DEF EndsInv, TypeOK
  <1>2. RowsRead(call[w])' /\ CallOK(call'[w])
    BY DEF EndsInv, TypeOK, RowsRead, Read, CallOK, Exists, Real
  <1>3. \A v \in Workers : v # w => CallOK(call'[v]) /\ RowsRead(call[v])'
    BY <1>1, ReadKept DEF EndsInv, TypeOK
  <1>4. RecordedEnd' /\ (\A i \in ShiftId : Exists(i) => shifts[i].start <= shifts[i].end)'
    BY DEF EndsInv, RecordedEnd, In, Exists
  <1>. QED  BY <1>2, <1>3, <1>4 DEF EndsInv

\* A handler that writes row i and goes on as c.
LEMMA EndsWrite ==
    ASSUME EndsInv, NEW w \in Workers, NEW c, TypeOK', call' = [call EXCEPT ![w] = c],
           NEW i \in ShiftId, NEW row, UNCHANGED now, Write(i, row),
           row # NoShift,
           row.status \in Statuses => row.start <= row.end,
           row.status = "completed" => Real(row),
           row.status \in Statuses /\ shifts[i] # NoShift =>
              /\ Exists(i)
              /\ row.start = shifts[i].start
              /\ row.end = shifts[i].end \/ Real(row),
           CallOK(c), c.at = "complete" => call[w].at = "complete",
           c.at = "complete" => \A j \in Read(c) : j \in Read(call[w]) /\ c.rows[j] = call[w].rows[j]
    PROVE  EndsInv'
  <1>1. shifts'[i] = row /\ \A j \in ShiftId : j # i => shifts'[j] = shifts[j]
    BY DEF EndsInv, TypeOK, Write
  <1>2. call'[w] = c /\ \A v \in Workers : v # w => call'[v] = call[v]
    BY DEF EndsInv, TypeOK
  <1>3. \A j \in ShiftId : Real(shifts[j]) => Real(shifts[j])' \/ j = i
    BY <1>1 DEF Real
  <1>4. Real(row) => Real(shifts[i])'
    BY <1>1 DEF Real
  <1>5. (\A j \in ShiftId : Exists(j) => shifts[j].start <= shifts[j].end)'
    BY <1>1 DEF EndsInv, Exists
  <1>6. RecordedEnd'
    BY <1>1 DEF EndsInv, RecordedEnd, In, Real
  <1>7. ASSUME NEW j \in ShiftId, NEW r,
               shifts[j] # NoShift,
               Exists(j) => /\ shifts[j].start = r.start
                            /\ shifts[j].end = r.end \/ Real(shifts[j])
        PROVE  /\ (shifts[j] # NoShift)'
               /\ Exists(j)' => /\ shifts'[j].start = r.start
                                /\ shifts'[j].end = r.end \/ Real(shifts[j])'
    <2>1. CASE j # i
      BY <1>1, <1>7, <2>1, <1>3 DEF Exists
    <2>2. CASE j = i
      <3>1. Exists(j)' => Exists(i) /\ shifts'[i].start = shifts[i].start
        BY <2>2, <1>1, <1>7 DEF Exists
      <3>2. Exists(j)' => shifts'[i].end = shifts[i].end \/ Real(shifts[i])'
        BY <2>2, <1>1, <1>7, <1>4 DEF Exists
      <3>3. Real(shifts[i]) /\ Exists(j)' /\ shifts'[i].end = shifts[i].end => Real(shifts[i])'
        BY <3>1 DEF Real
      <3>. QED  BY <2>2, <1>1, <1>7, <3>1, <3>2, <3>3
    <2>. QED  BY <2>1, <2>2
  <1>8. ASSUME NEW v \in Workers PROVE CallOK(call'[v]) /\ RowsRead(call[v])'
    <2>1. CASE v # w
      BY <1>2, <1>7, <2>1 DEF EndsInv, RowsRead, Read
    <2>2. CASE v = w
      BY <1>2, <1>7, <2>2 DEF EndsInv, RowsRead, Read
    <2>. QED  BY <2>1, <2>2
  <1>. QED  BY <1>5, <1>6, <1>8 DEF EndsInv

\* The steps of a handler that only read.
LEMMA EndsReads ==
    ASSUME EndsInv, NEW w \in Workers
    PROVE  /\ \A from, until \in 0 .. MaxTime : Create(w, from, until) => EndsInv'
           /\ GoOnline(w) => EndsInv'
           /\ FindScheduled(w) => EndsInv'
           /\ FindNext(w) => EndsInv'
           /\ GoOffline(w) => EndsInv'
  <1>. TypeOK /\ CallOK(call[w])
    BY DEF EndsInv
  <1>. USE DEF Goto
  <1>1. ASSUME NEW from \in 0 .. MaxTime, NEW until \in 0 .. MaxTime, Create(w, from, until)
        PROVE  EndsInv'
    <2>. DEFINE c == [Idle EXCEPT !.at = "insert", !.to = "scheduled", !.from = from, !.until = until]
    <2>1. TypeOK'
      BY <1>1, HandlerTyped
    <2>2. CallOK(c) /\ RowsRead(c)
      BY <1>1, ShiftsAssumption DEF Create, CallOK, RowsRead, Idle
    <2>. QED  BY <1>1, <2>1, <2>2, EndsRead DEF Create
  <1>2. ASSUME GoOnline(w) PROVE EndsInv'
    <2>. DEFINE c == [Idle EXCEPT !.at = "scheduled", !.to = "active", !.from = now]
    <2>1. TypeOK'
      BY <1>2, HandlerTyped
    <2>2. CallOK(c) /\ RowsRead(c)
      BY DEF CallOK, RowsRead, Idle
    <2>. QED  BY <1>2, <2>1, <2>2, EndsRead DEF GoOnline
  <1>3. ASSUME FindScheduled(w) PROVE EndsInv'
    <2>1. TypeOK'
      BY <1>3, HandlerTyped
    <2>2. ASSUME NEW rows
          PROVE  LET c == [call[w] EXCEPT !.at = "write", !.rows = rows]
                 IN  CallOK(c) /\ RowsRead(c)
      BY <1>3 DEF FindScheduled, CallOK, RowsRead, TypeOK, Call
    <2>3. LET c == [call[w] EXCEPT !.at = "next"] IN CallOK(c) /\ RowsRead(c)
      BY <1>3 DEF FindScheduled, CallOK, RowsRead, TypeOK, Call
    <2>. QED  BY <1>3, <2>1, <2>2, <2>3, EndsRead DEF FindScheduled
  <1>4. ASSUME FindNext(w) PROVE EndsInv'
    <2>1. TypeOK'
      BY <1>4, HandlerTyped
    <2>2. PICK e \in {call[w].from + OpenEnded} \cup {shifts[i].start : i \in Upcoming(call[w].from)} :
             call' = [call EXCEPT ![w] = [call[w] EXCEPT !.at = "insert", !.until = e]]
      BY <1>4 DEF FindNext
    <2>3. call[w].from <= e
      <3>1. call[w].from \in Nat
        BY DEF TypeOK, Call
      <3>2. \A i \in Upcoming(call[w].from) : call[w].from < shifts[i].start /\ shifts[i].start \in Nat
        BY ShiftTyped DEF Upcoming, In, Exists, Statuses, Shift
      <3>. QED  BY <2>2, <3>1, <3>2, ShiftsAssumption
    <2>4. LET c == [call[w] EXCEPT !.at = "insert", !.until = e] IN CallOK(c) /\ RowsRead(c)
      BY <1>4, <2>3 DEF FindNext, CallOK, RowsRead, TypeOK, Call
    <2>. QED  BY <1>4, <2>1, <2>2, <2>4, EndsRead DEF FindNext
  <1>5. ASSUME GoOffline(w) PROVE EndsInv'
    <2>. DEFINE c == [Idle EXCEPT !.at = "complete", !.to = "completed",
                                  !.rows = Only(In({"active"}))]
    <2>1. TypeOK'
      BY <1>5, HandlerTyped
    <2>2. \A i \in Read(c) : Exists(i) /\ shifts[i] = c.rows[i] /\ shifts[i] # NoShift
      BY DEF Read, Only, In, Exists, Statuses, Idle
    <2>3. CallOK(c) /\ RowsRead(c)
      BY <2>2 DEF CallOK, RowsRead, Idle
    <2>. QED  BY <1>5, <2>1, <2>3, EndsRead DEF GoOffline
  <1>. QED  BY <1>1, <1>2, <1>3, <1>4, <1>5

\* The steps of a handler on one row.
LEMMA EndsRows ==
    ASSUME EndsInv, NEW w \in Workers, NEW i \in ShiftId
    PROVE  /\ InsertShift(w, i) => EndsInv'
           /\ \A to \in Statuses : Transition(w, i, to) => EndsInv'
           /\ WriteStatus(w, i) => EndsInv'
           /\ Complete(w, i) => EndsInv'
           /\ Delete(w, i) => EndsInv'
           /\ DeleteRow(w, i) => EndsInv'
  <1>. TypeOK /\ CallOK(call[w]) /\ RowsRead(call[w])
    BY DEF EndsInv
  <1>0. CallOK(Idle) /\ RowsRead(Idle) /\ Idle.at # "complete"
    BY DEF CallOK, RowsRead, Idle
  <1>. USE DEF Goto
  <1>1. ASSUME InsertShift(w, i) PROVE EndsInv'
    <2>. DEFINE row == [status |-> call[w].to, start |-> call[w].from, end |-> call[w].until]
    <2>1. TypeOK'
      BY <1>1, RowStepTyped
    <2>2. /\ row # NoShift
          /\ row.start <= row.end
          /\ row.status # "completed"
          /\ shifts[i] = NoShift
      BY <1>1 DEF InsertShift, CallOK, NoShift
    <2>. HIDE DEF row
    <2>3. Write(i, row) /\ call' = [call EXCEPT ![w] = Idle] /\ UNCHANGED now
      BY <1>1 DEF InsertShift, row
    <2>. QED  BY <1>0, <2>1, <2>2, <2>3, EndsWrite
  <1>2. ASSUME NEW to \in Statuses, Transition(w, i, to) PROVE EndsInv'
    <2>. DEFINE c == [Idle EXCEPT !.at = IF to = "completed" THEN "complete" ELSE "write",
                                  !.to = to, !.rows = Only({i})]
    <2>1. TypeOK'
      BY <1>2, RowStepTyped
    <2>2. \A j \in Read(c) : j = i /\ shifts[j] = c.rows[j] /\ shifts[j] # NoShift
      BY <1>2 DEF Read, Only, Idle
    <2>3. CallOK(c)
      BY <1>2 DEF Transition, Allowed, CallOK, Idle
    <2>4. RowsRead(c)
      BY <2>2 DEF RowsRead
    <2>. QED  BY <1>2, <2>1, <2>3, <2>4, EndsRead DEF Transition
  <1>3. ASSUME WriteStatus(w, i) PROVE EndsInv'
    <2>1. TypeOK'
      BY <1>3, RowStepTyped
    <2>2. CASE ~Exists(i)
      BY <1>0, <1>3, <2>1, <2>2, EndsRead DEF WriteStatus
    <2>3. CASE Exists(i)
      <3>. DEFINE row == [shifts[i] EXCEPT !.status = call[w].to]
      <3>1. shifts[i] \in Shift /\ shifts[i].start <= shifts[i].end
        BY <2>3, ShiftTyped DEF EndsInv
      <3>2. /\ row.start = shifts[i].start
            /\ row.end = shifts[i].end
            /\ row.status \in {"active", "cancelled"}
            /\ row # NoShift
        BY <1>3, <3>1 DEF WriteStatus, CallOK, Shift, NoShift
      <3>. HIDE DEF row
      <3>3. Write(i, row) /\ call' = [call EXCEPT ![w] = Idle] /\ UNCHANGED now
        BY <1>3, <2>3 DEF WriteStatus, row
      <3>. QED  BY <1>0, <2>1, <2>3, <3>1, <3>2, <3>3, EndsWrite
    <2>. QED  BY <2>2, <2>3
  <1>4. ASSUME Complete(w, i) PROVE EndsInv'
    <2>1. TypeOK'
      BY <1>4, RowStepTyped
    <2>2. CASE ~Exists(i)
      BY <1>0, <1>4, <2>1, <2>2, EndsRead DEF Complete
    <2>3. CASE Exists(i)
      <3>. DEFINE old == call[w].rows[i]
                  row == [shifts[i] EXCEPT !.status = "completed", !.end = ActualEnd(old, @)]
      <3>1. shifts[i] \in Shift /\ old \in Shift /\ shifts[i].start <= shifts[i].end
        BY <1>4, <2>3, ShiftTyped DEF EndsInv, Complete, Read, TypeOK, Call
      <3>2. shifts[i].start = old.start /\ (shifts[i].end = old.end \/ Real(shifts[i]))
        BY <1>4, <2>3 DEF Complete, RowsRead
      <3>3. row.status = "completed" /\ row.start = shifts[i].start /\ row # NoShift
        BY <3>1 DEF Shift, NoShift
      <3>4. row.end = ActualEnd(old, shifts[i].end)
        BY <3>1 DEF Shift
      <3>5. Real(row)
        BY <3>1, <3>2, <3>3, <3>4 DEF Real, ActualEnd, Shift, TypeOK
      <3>6. row.start <= row.end
        BY <3>5 DEF Real
      <3>7. PICK c \in {Idle, [call[w] EXCEPT !.rows[i] = NoShift]} :
               call' = [call EXCEPT ![w] = c]
        BY <1>4, <2>3 DEF Complete
      <3>8. CallOK(c)
        BY <1>0, <3>7, <1>4 DEF Complete, CallOK, TypeOK, Call
      <3>9. /\ c.at = "complete" => call[w].at = "complete"
            /\ c.at = "complete" =>
                 \A j \in Read(c) : j \in Read(call[w]) /\ c.rows[j] = call[w].rows[j]
        BY <1>0, <3>7, <1>4 DEF Complete, Read, TypeOK, Call
      <3>10. Write(i, row) /\ UNCHANGED now
        BY <1>4, <2>3 DEF Complete
      <3>. HIDE DEF row
      <3>. QED  BY <2>1, <2>3, <3>3, <3>5, <3>6, <3>7, <3>8, <3>9, <3>10, EndsWrite
    <2>. QED  BY <2>2, <2>3
  <1>5. ASSUME Delete(w, i) PROVE EndsInv'
    <2>. DEFINE c == [Idle EXCEPT !.at = "delete", !.rows = Only({i})]
    <2>1. TypeOK'
      BY <1>5, RowStepTyped
    <2>2. CallOK(c) /\ RowsRead(c)
      BY DEF CallOK, RowsRead, Idle
    <2>. QED  BY <1>5, <2>1, <2>2, EndsRead DEF Delete
  <1>6. ASSUME DeleteRow(w, i) PROVE EndsInv'
    <2>1. TypeOK'
      BY <1>6, RowStepTyped
    <2>2. Deleted # NoShift /\ Deleted.status \notin Statuses
      BY DEF Deleted, NoShift, Statuses
    <2>3. Deleted.status # "completed"
      BY <2>2 DEF Statuses
    <2>. QED  BY <1>0, <1>6, <2>1, <2>2, <2>3, EndsWrite DEF DeleteRow
  <1>. QED  BY <1>1, <1>2, <1>3, <1>4, <1>5, <1>6

\* Every step keeps the strengthening.
LEMMA EndsInductive == EndsInv /\ [Next]_vars => EndsInv'
  <1>. SUFFICES ASSUME EndsInv, [Next]_vars PROVE EndsInv'
    OBVIOUS
  <1>1. CASE UNCHANGED vars
    BY <1>1 DEF vars, EndsInv, TypeOK, RecordedEnd, In, Exists, CallOK, RowsRead, Read, Real
  <1>2. CASE Tick \/ ChangeMember
    BY <1>2, EndsOutside
  <1>3. ASSUME NEW w \in Workers,
               \/ \E from, until \in 0 .. MaxTime : Create(w, from, until)
               \/ GoOnline(w) \/ FindScheduled(w) \/ FindNext(w) \/ GoOffline(w)
        PROVE  EndsInv'
    BY <1>3, EndsReads
  <1>4. ASSUME NEW w \in Workers, NEW i \in ShiftId,
               \/ InsertShift(w, i)
               \/ \E to \in Statuses : Transition(w, i, to)
               \/ WriteStatus(w, i) \/ Complete(w, i) \/ Delete(w, i) \/ DeleteRow(w, i)
        PROVE  EndsInv'
    BY <1>4, EndsRows
  <1>. QED  BY <1>1, <1>2, <1>3, <1>4 DEF Next

\* However many dispatchers and riders' requests interleave, a completed shift
\* claims no time that has not passed and does not end before it starts
\* (complete in internal/modules/shifts).
THEOREM EndsAreReal == Spec => []RecordedEnd
  <1>1. Init => EndsInv
    BY InitTyped DEF Init, EndsInv, Exists, NoShift, Statuses, CallOK, RowsRead, Idle,
                     RecordedEnd, In
  <1>2. EndsInv => RecordedEnd
    BY DEF EndsInv
  <1>. QED  BY <1>1, <1>2, EndsInductive, PTL DEF Spec

\* The rows, the clock and what every handler in flight holds keep their types,
\* whatever interleaves.
THEOREM TypeCorrect == Spec => []TypeOK
  <1>1. Init => EndsInv
    BY InitTyped DEF Init, EndsInv, Exists, NoShift, Statuses, CallOK, RowsRead, Idle,
                     RecordedEnd, In
  <1>2. EndsInv => TypeOK
    BY DEF EndsInv
  <1>. QED  BY <1>1, <1>2, EndsInductive, PTL DEF Spec

-----------------------------------------------------------------------------
(* Overlap, with one handler at a time *)

OneAtATime == \A v, w \in Workers : v = w

\* A handler that only reads and checks what it goes on with.
LEMMA OverlapRead ==
    ASSUME OneAtATime, OverlapInv, NEW w \in Workers, NEW c, TypeOK',
           call' = [call EXCEPT ![w] = c], UNCHANGED shifts, CallOK(c), Checked(c)
    PROVE  OverlapInv'
  <1>1. \A v \in Workers : call'[v] = c
    BY DEF OneAtATime, OverlapInv, TypeOK
  <1>2. NoOverlap'
    BY DEF OverlapInv, NoOverlap, Live, In
  <1>3. \A v \in Workers : CallOK(call'[v]) /\ Checked(call[v])'
    BY <1>1 DEF Checked, In, Live, NoneIn, Read
  <1>. QED  BY <1>2, <1>3 DEF OverlapInv

\* A handler whose last step writes row i.
LEMMA OverlapWrite ==
    ASSUME OneAtATime, OverlapInv, NEW w \in Workers, TypeOK',
           NEW c, call' = [call EXCEPT ![w] = c], CallOK(c),
           c.at = "complete" \/ c = Idle,
           NEW i \in ShiftId, NEW row, Write(i, row),
           row.status \in {"scheduled", "active"} =>
              \A j \in Live : j # i => ~Overlap(row, shifts[j]) /\ ~Overlap(shifts[j], row),
           c.at = "complete" => \A j \in Read(c) : j # i /\ shifts[j].status = "active"
    PROVE  OverlapInv'
  <1>1. shifts'[i] = row /\ \A j \in ShiftId : j # i => shifts'[j] = shifts[j]
    BY DEF OverlapInv, TypeOK, Write
  <1>2. \A v \in Workers : call'[v] = c
    BY DEF OneAtATime, OverlapInv, TypeOK
  <1>3. NoOverlap'
    <2>. SUFFICES ASSUME NEW j \in ShiftId, NEW k \in ShiftId, j # k,
                         (j \in Live)', (k \in Live)'
                  PROVE  ~Overlap(shifts'[j], shifts'[k])
      BY DEF NoOverlap, Live, In
    <2>1. CASE j # i /\ k # i
      BY <1>1, <2>1 DEF OverlapInv, NoOverlap, Live, In
    <2>2. CASE j = i
      BY <1>1, <2>2 DEF Live, In
    <2>3. CASE k = i
      BY <1>1, <2>3 DEF Live, In
    <2>. QED  BY <2>1, <2>2, <2>3
  <1>4. ASSUME NEW v \in Workers PROVE CallOK(call'[v]) /\ Checked(call[v])'
    <2>1. CASE c = Idle
      BY <1>2, <2>1 DEF Checked, CallOK, Idle
    <2>2. CASE c.at = "complete"
      BY <1>1, <1>2, <2>2 DEF Checked, Read
    <2>. QED  BY <2>1, <2>2
  <1>. QED  BY <1>3, <1>4 DEF OverlapInv

\* The steps of a handler that only read.
LEMMA OverlapReads ==
    ASSUME OneAtATime, OverlapInv, NEW w \in Workers
    PROVE  /\ \A from, until \in 0 .. MaxTime : Create(w, from, until) => OverlapInv'
           /\ GoOnline(w) => OverlapInv'
           /\ FindScheduled(w) => OverlapInv'
           /\ FindNext(w) => OverlapInv'
           /\ GoOffline(w) => OverlapInv'
  <1>. TypeOK /\ CallOK(call[w]) /\ Checked(call[w])
    BY DEF OverlapInv
  <1>. USE DEF Goto
  <1>1. ASSUME NEW from \in 0 .. MaxTime, NEW until \in 0 .. MaxTime, Create(w, from, until)
        PROVE  OverlapInv'
    <2>. DEFINE c == [Idle EXCEPT !.at = "insert", !.to = "scheduled", !.from = from, !.until = until]
    <2>1. TypeOK'
      BY <1>1, HandlerTyped
    <2>2. CallOK(c) /\ Checked(c)
      BY <1>1, ShiftsAssumption DEF Create, CallOK, Checked, Idle
    <2>. QED  BY <1>1, <2>1, <2>2, OverlapRead DEF Create
  <1>2. ASSUME GoOnline(w) PROVE OverlapInv'
    <2>. DEFINE c == [Idle EXCEPT !.at = "scheduled", !.to = "active", !.from = now]
    <2>1. TypeOK'
      BY <1>2, HandlerTyped
    <2>2. CallOK(c) /\ Checked(c)
      BY <1>2 DEF GoOnline, CallOK, Checked, Idle
    <2>. QED  BY <1>2, <2>1, <2>2, OverlapRead DEF GoOnline
  <1>3. ASSUME FindScheduled(w) PROVE OverlapInv'
    <2>1. TypeOK'
      BY <1>3, HandlerTyped
    <2>2. ASSUME NEW i \in Startable(call[w].from)
          PROVE  LET c == [call[w] EXCEPT !.at = "write", !.rows = Only({i})]
                 IN  CallOK(c) /\ Checked(c)
      <3>. DEFINE c == [call[w] EXCEPT !.at = "write", !.rows = Only({i})]
      <3>1. c.at = "write" /\ c.to = "active" /\ c.rows = Only({i})
        BY <1>3 DEF FindScheduled, CallOK, TypeOK, Call
      <3>2. \A j \in Read(c) : shifts[j].status = "scheduled"
        BY <2>2, <3>1 DEF Read, Only, Startable, In
      <3>. QED  BY <3>1, <3>2 DEF CallOK, Checked
    <2>3. ASSUME Startable(call[w].from) = {}
          PROVE  LET c == [call[w] EXCEPT !.at = "next"] IN CallOK(c) /\ Checked(c)
      <3>. DEFINE c == [call[w] EXCEPT !.at = "next"]
      <3>1. c.at = "next" /\ c.to = "active" /\ c.from = call[w].from
        BY <1>3 DEF FindScheduled, CallOK, TypeOK, Call
      <3>2. In({"active"}) = {}
        BY <1>3 DEF FindScheduled, Checked
      <3>3. ASSUME NEW i \in Live
            PROVE  shifts[i].start > call[w].from \/ shifts[i].end <= call[w].from
        <4>1. i \in In({"scheduled"}) /\ shifts[i] \in Shift
          BY <3>2, <3>3, ShiftTyped DEF Live, In, Exists, Statuses
        <4>2. ~(shifts[i].start <= call[w].from + Early /\ shifts[i].end > call[w].from)
          BY <2>3, <4>1 DEF Startable
        <4>. QED  BY <4>1, <4>2, ShiftsAssumption DEF Shift, TypeOK, Call
      <3>. QED  BY <3>1, <3>2, <3>3 DEF CallOK, Checked
    <2>. QED  BY <1>3, <2>1, <2>2, <2>3, OverlapRead DEF FindScheduled
  <1>4. ASSUME FindNext(w) PROVE OverlapInv'
    <2>1. TypeOK'
      BY <1>4, HandlerTyped
    <2>. DEFINE t    == call[w].from
                ends == {t + OpenEnded} \cup {shifts[i].start : i \in Upcoming(t)}
    <2>2. PICK e \in ends :
             /\ \A f \in ends : e <= f
             /\ call' = [call EXCEPT ![w] = [call[w] EXCEPT !.at = "insert", !.until = e]]
      BY <1>4 DEF FindNext
    <2>. DEFINE c == [call[w] EXCEPT !.at = "insert", !.until = e]
    <2>3. c.at = "insert" /\ c.to = "active" /\ c.from = t /\ c.until = e /\ t \in Nat
      BY <1>4 DEF FindNext, CallOK, TypeOK, Call
    <2>4. \A i \in Upcoming(t) : t < shifts[i].start /\ shifts[i].start \in Nat
      BY ShiftTyped DEF Upcoming, In, Exists, Statuses, Shift
    <2>5. t <= e /\ e \in Nat
      BY <2>2, <2>3, <2>4, ShiftsAssumption
    <2>6. NoneIn(t, e)
      <3>. SUFFICES ASSUME NEW i \in Live
                    PROVE  e <= shifts[i].start \/ shifts[i].end <= t
        BY <2>3, <2>5, ShiftTyped DEF NoneIn, Overlap, Live, In, Exists, Statuses, Shift
      <3>1. i \in In({"scheduled"})
        BY <1>4 DEF FindNext, Checked, Live, In
      <3>2. shifts[i].start > t \/ shifts[i].end <= t
        BY <1>4 DEF FindNext, Checked
      <3>. QED  BY <2>2, <3>1, <3>2 DEF Upcoming
    <2>7. CallOK(c) /\ Checked(c)
      BY <2>3, <2>5, <2>6 DEF CallOK, Checked
    <2>. QED  BY <1>4, <2>1, <2>2, <2>7, OverlapRead DEF FindNext
  <1>5. ASSUME GoOffline(w) PROVE OverlapInv'
    <2>. DEFINE c == [Idle EXCEPT !.at = "complete", !.to = "completed",
                                  !.rows = Only(In({"active"}))]
    <2>1. TypeOK'
      BY <1>5, HandlerTyped
    <2>2. \A i \in Read(c) : shifts[i].status = "active"
      BY DEF Read, Only, In, Idle
    <2>3. CallOK(c) /\ Checked(c)
      BY <2>2 DEF CallOK, Checked, Idle
    <2>. QED  BY <1>5, <2>1, <2>3, OverlapRead DEF GoOffline
  <1>. QED  BY <1>1, <1>2, <1>3, <1>4, <1>5

\* The steps of a handler on one row.
LEMMA OverlapRows ==
    ASSUME OneAtATime, OverlapInv, NEW w \in Workers, NEW i \in ShiftId
    PROVE  /\ InsertShift(w, i) => OverlapInv'
           /\ \A to \in Statuses : Transition(w, i, to) => OverlapInv'
           /\ WriteStatus(w, i) => OverlapInv'
           /\ Complete(w, i) => OverlapInv'
           /\ Delete(w, i) => OverlapInv'
           /\ DeleteRow(w, i) => OverlapInv'
  <1>. TypeOK /\ CallOK(call[w]) /\ Checked(call[w])
    BY DEF OverlapInv
  <1>0. CallOK(Idle) /\ Checked(Idle) /\ Idle.at # "complete"
    BY DEF CallOK, Checked, Idle
  <1>. USE DEF Goto
  <1>1. ASSUME InsertShift(w, i) PROVE OverlapInv'
    <2>. DEFINE row == [status |-> call[w].to, start |-> call[w].from, end |-> call[w].until]
    <2>1. TypeOK'
      BY <1>1, RowStepTyped
    <2>2. \A j \in Live : ~Overlap(row, shifts[j]) /\ ~Overlap(shifts[j], row)
      BY <1>1 DEF InsertShift, Checked, NoneIn, Overlap
    <2>3. Write(i, row) /\ call' = [call EXCEPT ![w] = Idle]
      BY <1>1 DEF InsertShift
    <2>. HIDE DEF row
    <2>. QED  BY <1>0, <2>1, <2>2, <2>3, OverlapWrite
  <1>2. ASSUME NEW to \in Statuses, Transition(w, i, to) PROVE OverlapInv'
    <2>. DEFINE c == [Idle EXCEPT !.at = IF to = "completed" THEN "complete" ELSE "write",
                                  !.to = to, !.rows = Only({i})]
    <2>1. TypeOK'
      BY <1>2, RowStepTyped
    <2>2. \A j \in Read(c) : j = i
      BY DEF Read, Only, Idle
    <2>3. CallOK(c) /\ Checked(c)
      BY <1>2, <2>2 DEF Transition, Allowed, CallOK, Checked, Idle
    <2>. QED  BY <1>2, <2>1, <2>3, OverlapRead DEF Transition
  <1>3. ASSUME WriteStatus(w, i) PROVE OverlapInv'
    <2>. DEFINE row == [shifts[i] EXCEPT !.status = call[w].to]
    <2>1. TypeOK'
      BY <1>3, RowStepTyped
    <2>2. shifts[i].status = "scheduled"
      BY <1>3 DEF WriteStatus, Checked
    <2>3. shifts[i] \in Shift /\ Exists(i) /\ i \in Live
      BY <2>2, ShiftTyped DEF Exists, Statuses, Live, In
    <2>4. row.start = shifts[i].start /\ row.end = shifts[i].end
      BY <2>3 DEF Shift
    <2>5. \A j \in Live : j # i => ~Overlap(row, shifts[j]) /\ ~Overlap(shifts[j], row)
      BY <2>3, <2>4 DEF OverlapInv, NoOverlap, Overlap
    <2>6. Write(i, row) /\ call' = [call EXCEPT ![w] = Idle]
      BY <1>3, <2>3 DEF WriteStatus
    <2>. HIDE DEF row
    <2>. QED  BY <1>0, <2>1, <2>5, <2>6, OverlapWrite
  <1>4. ASSUME Complete(w, i) PROVE OverlapInv'
    <2>. DEFINE row == [shifts[i] EXCEPT !.status = "completed",
                                         !.end = ActualEnd(call[w].rows[i], @)]
    <2>1. TypeOK'
      BY <1>4, RowStepTyped
    <2>2. shifts[i].status = "active"
      BY <1>4 DEF Complete, Checked
    <2>3. shifts[i] \in Shift /\ Exists(i)
      BY <2>2, ShiftTyped DEF Exists, Statuses
    <2>4. row.status = "completed"
      BY <2>3 DEF Shift
    <2>5. PICK c \in {Idle, [call[w] EXCEPT !.rows[i] = NoShift]} :
             call' = [call EXCEPT ![w] = c]
      BY <1>4, <2>3 DEF Complete
    <2>6. CallOK(c) /\ (c.at = "complete" \/ c = Idle)
      BY <1>0, <1>4, <2>5 DEF Complete, CallOK, TypeOK, Call
    <2>7. c.at = "complete" => \A j \in Read(c) : j # i /\ j \in Read(call[w])
      BY <1>0, <2>5 DEF Read, TypeOK, Call
    <2>8. c.at = "complete" => \A j \in Read(c) : j # i /\ shifts[j].status = "active"
      BY <1>4, <2>7 DEF Complete, Checked
    <2>9. Write(i, row)
      BY <1>4, <2>3 DEF Complete
    <2>. HIDE DEF row
    <2>. QED  BY <2>1, <2>4, <2>5, <2>6, <2>8, <2>9, OverlapWrite
  <1>5. ASSUME Delete(w, i) PROVE OverlapInv'
    <2>. DEFINE c == [Idle EXCEPT !.at = "delete", !.rows = Only({i})]
    <2>1. TypeOK'
      BY <1>5, RowStepTyped
    <2>2. \A j \in Read(c) : j = i
      BY DEF Read, Only, Idle
    <2>3. CallOK(c) /\ Checked(c)
      BY <1>5, <2>2 DEF Delete, CallOK, Checked, Idle
    <2>. QED  BY <1>5, <2>1, <2>3, OverlapRead DEF Delete
  <1>6. ASSUME DeleteRow(w, i) PROVE OverlapInv'
    <2>1. TypeOK'
      BY <1>6, RowStepTyped
    <2>2. Deleted.status \notin {"scheduled", "active"}
      BY DEF Deleted
    <2>. QED  BY <1>0, <1>6, <2>1, <2>2, OverlapWrite DEF DeleteRow
  <1>. QED  BY <1>1, <1>2, <1>3, <1>4, <1>5, <1>6

\* Every step keeps the strengthening.
LEMMA OverlapInductive ==
    ASSUME OneAtATime
    PROVE  OverlapInv /\ [Next]_vars => OverlapInv'
  <1>. SUFFICES ASSUME OverlapInv, [Next]_vars PROVE OverlapInv'
    OBVIOUS
  <1>1. CASE UNCHANGED <<shifts, call>> /\ TypeOK'
    BY <1>1 DEF OverlapInv, NoOverlap, Live, In, CallOK, Checked, NoneIn, Read
  <1>2. CASE UNCHANGED vars
    BY <1>1, <1>2 DEF vars, OverlapInv, TypeOK
  <1>3. CASE Tick \/ ChangeMember
    BY <1>1, <1>3, OutsideTyped DEF OverlapInv, Tick, ChangeMember
  <1>4. ASSUME NEW w \in Workers,
               \/ \E from, until \in 0 .. MaxTime : Create(w, from, until)
               \/ GoOnline(w) \/ FindScheduled(w) \/ FindNext(w) \/ GoOffline(w)
        PROVE  OverlapInv'
    BY <1>4, OverlapReads
  <1>5. ASSUME NEW w \in Workers, NEW i \in ShiftId,
               \/ InsertShift(w, i)
               \/ \E to \in Statuses : Transition(w, i, to)
               \/ WriteStatus(w, i) \/ Complete(w, i) \/ Delete(w, i) \/ DeleteRow(w, i)
        PROVE  OverlapInv'
    BY <1>5, OverlapRows
  <1>. QED  BY <1>2, <1>3, <1>4, <1>5 DEF Next

\* The invariant holds when requests for a rider do not interleave.
LEMMA OverlapInvariant ==
    ASSUME OneAtATime
    PROVE  Spec => []OverlapInv
  <1>1. Init => OverlapInv
    BY InitTyped DEF Init, OverlapInv, NoShift, CallOK, Checked, Idle, NoOverlap, Live, In
  <1>. QED  BY <1>1, OverlapInductive, PTL DEF Spec

\* When the requests for a rider do not interleave, the shifts of the rider
\* never overlap, for every length of shift, early start and number of shifts:
\* the overlap check of Create and the open-ended shift of GoOnline agree.
THEOREM ShiftsDoNotOverlap ==
    ASSUME OneAtATime
    PROVE  Spec => []NoOverlap
  <1>1. OverlapInv => NoOverlap
    BY DEF OverlapInv
  <1>. QED  BY <1>1, OverlapInvariant, PTL

\* When the requests for a rider do not interleave, a shift that has run is
\* never deleted, cancelled or scheduled again (Delete, transition).
THEOREM WorkedShiftsStay ==
    ASSUME OneAtATime
    PROVE  Spec => WorkedShiftKept
  <1>1. ASSUME OverlapInv, [Next]_vars
        PROVE  [\A i \in In({"active", "completed"}) :
                   shifts'[i].status \in {shifts[i].status, "completed"}]_vars
    <2>. SUFFICES ASSUME Next, NEW k \in In({"active", "completed"})
                  PROVE  shifts'[k].status \in {shifts[k].status, "completed"}
      BY <1>1
    <2>. TypeOK /\ k \in ShiftId /\ shifts[k].status \in {"active", "completed"}
      BY <1>1 DEF OverlapInv, In
    <2>1. CASE UNCHANGED shifts
      BY <2>1
    <2>2. ASSUME NEW w \in Workers, NEW i \in ShiftId, InsertShift(w, i)
          PROVE  shifts'[k] = shifts[k]
      BY <2>2 DEF InsertShift, Write, TypeOK, NoShift
    <2>3. ASSUME NEW w \in Workers, NEW i \in ShiftId, WriteStatus(w, i)
          PROVE  shifts'[k] = shifts[k]
      BY <1>1, <2>3 DEF OverlapInv, Checked, WriteStatus, Write, TypeOK
    <2>4. ASSUME NEW w \in Workers, NEW i \in ShiftId, Complete(w, i)
          PROVE  shifts'[k] = shifts[k] \/ shifts'[k].status = "completed"
      <3>1. shifts[k] \in Shift
        BY ShiftTyped DEF Exists, Statuses
      <3>. QED  BY <2>4, <3>1 DEF Complete, Write, TypeOK, Shift
    <2>5. ASSUME NEW w \in Workers, NEW i \in ShiftId, DeleteRow(w, i)
          PROVE  shifts'[k] = shifts[k]
      BY <1>1, <2>5 DEF OverlapInv, Checked, NeverRan, DeleteRow, Write, TypeOK
    <2>. QED  BY <2>1, <2>2, <2>3, <2>4, <2>5
                 DEF Next, Tick, ChangeMember, Create, GoOnline, FindScheduled, FindNext,
                     GoOffline, Transition, Delete
  <1>. QED  BY <1>1, OverlapInvariant, PTL DEF Spec, WorkedShiftKept
=============================================================================
