---------------------------- MODULE RiderShifts ----------------------------
(***************************************************************************)
(* The shifts of one rider: internal/modules/shifts. A dispatcher creates, *)
(* starts, ends, cancels and deletes shifts, the rider goes online and     *)
(* offline. The service keeps no lock and opens no transaction, and no     *)
(* index keeps shifts apart, so every query and every write is an action   *)
(* of its own; only the look at the rider's fleet status, which no property*)
(* is about, is taken with the query after it. Writes go by primary key    *)
(* and do not look at the row again.                                       *)
(*                                                                         *)
(* Riders share no shifts, so one is modelled. Time is counted in steps of *)
(* the 30 minutes a rider may be early.                                    *)
(***************************************************************************)
EXTENDS Naturals

CONSTANTS
    Workers,        \* handler invocations that can be in flight together
    ShiftId,        \* primary keys of rider_shifts; bounds the rows
    Early,          \* earlyStart
    OpenEnded,      \* openEndedShift
    Longest,        \* the longest shift a dispatcher may create (24 hours)
    MaxTime         \* bound: the clock, and the shifts asked for

ASSUME ShiftsAssumption ==
    /\ {Early, OpenEnded, Longest, MaxTime} \subseteq Nat
    /\ OpenEnded > 0

VARIABLES
    now,        \* the clock
    member,     \* fleet_members.status of the rider
    shifts,     \* rider_shifts
    call        \* the handler each worker is running

vars == <<now, member, shifts, call>>

-----------------------------------------------------------------------------
(* State *)

Statuses == {"scheduled", "active", "completed", "cancelled"}

Shift == [status : Statuses, start : Nat, end : Nat]

NoShift == [status |-> "none", start |-> 0, end |-> 0]

\* A key is never used again.
Deleted == [status |-> "deleted", start |-> 0, end |-> 0]

Steps == {"idle", "scheduled", "next", "insert", "write", "delete", "complete"}

NoRows == [i \in ShiftId |-> NoShift]

\* at: the next statement; to: the status it writes; from, until: the shift to
\* insert, or the time a rider went online; rows: the rows read before.
Call == [at : Steps, to : Statuses \cup {"none"}, from : Nat, until : Nat,
         rows : [ShiftId -> Shift \cup {NoShift}]]

Idle == [at |-> "idle", to |-> "none", from |-> 0, until |-> 0, rows |-> NoRows]

TypeOK ==
    /\ now \in Nat
    /\ member \in {"active", "inactive"}
    /\ shifts \in [ShiftId -> Shift \cup {NoShift, Deleted}]
    /\ call \in [Workers -> Call]

Init ==
    /\ now = 0
    /\ member \in {"active", "inactive"}
    /\ shifts = [i \in ShiftId |-> NoShift]
    /\ call = [w \in Workers |-> Idle]

In(sts) == {i \in ShiftId : shifts[i].status \in sts}

\* Shifts that still count: scheduled or running.
Live == In({"scheduled", "active"})

Overlap(s, t) == s.start < t.end /\ t.start < s.end

\* checkOverlap passes.
NoneIn(from, until) ==
    \A i \in Live : ~Overlap(shifts[i], [start |-> from, end |-> until])

\* A variant that only sees shifts that have not begun.
NotBegun(t) ==
    {i \in In({"scheduled"}) : shifts[i].start > t /\ shifts[i].start <= t + Early}

\* Scheduled shifts the rider may start at t, and the ones still to come.
Startable(t) ==
    {i \in In({"scheduled"}) : shifts[i].start <= t + Early /\ shifts[i].end > t}

Upcoming(t) == {i \in In({"scheduled"}) : shifts[i].start > t}

\* A query that returns the rows with keys in D.
Only(D) == [i \in ShiftId |-> IF i \in D THEN shifts[i] ELSE NoShift]

\* The rows a handler has read and not yet dealt with.
Read(c) == {i \in ShiftId : c.rows[i] # NoShift}

\* allowed: the shift state machine.
Allowed(from, to) ==
    \/ from = "scheduled" /\ to \in {"active", "cancelled"}
    \/ from = "active" /\ to = "completed"

Goto(w, c) == call' = [call EXCEPT ![w] = c]

\* UpdateOneID and DeleteOneID find the row.
Exists(i) == shifts[i].status \in Statuses

Write(i, row) == shifts' = [shifts EXCEPT ![i] = row]

-----------------------------------------------------------------------------
(* Time and the fleet *)

Tick ==
    /\ now < MaxTime
    /\ now' = now + 1
    /\ UNCHANGED <<member, shifts, call>>

\* The fleet module activates or suspends the rider.
ChangeMember ==
    /\ member' = IF member = "active" THEN "inactive" ELSE "active"
    /\ UNCHANGED <<now, shifts, call>>

-----------------------------------------------------------------------------
(* The dispatcher *)

\* Create up to its overlap check.
Create(w, from, until) ==
    /\ call[w] = Idle
    /\ from < until
    /\ until - from <= Longest
    /\ member = "active"
    /\ NoneIn(from, until)
    /\ Goto(w, [Idle EXCEPT !.at = "insert", !.to = "scheduled",
                            !.from = from, !.until = until])
    /\ UNCHANGED <<now, member, shifts>>

\* The row is inserted, for Create or GoOnline.
InsertShift(w, i) ==
    /\ call[w].at = "insert"
    /\ shifts[i] = NoShift
    /\ Write(i, [status |-> call[w].to, start |-> call[w].from, end |-> call[w].until])
    /\ Goto(w, Idle)
    /\ UNCHANGED <<now, member>>

\* transition loads the row and looks at its status: Start, End, Cancel and
\* SetStatus.
Transition(w, i, to) ==
    /\ call[w] = Idle
    /\ Exists(i)
    /\ Allowed(shifts[i].status, to)
    /\ Goto(w, [Idle EXCEPT !.at = IF to = "completed" THEN "complete" ELSE "write",
                            !.to = to, !.rows = Only({i})])
    /\ UNCHANGED <<now, member, shifts>>

\* row.Update().SetStatus(to), for transition or GoOnline.
WriteStatus(w, i) ==
    /\ call[w].at = "write"
    /\ i \in Read(call[w])
    /\ \/ Exists(i) /\ Write(i, [shifts[i] EXCEPT !.status = call[w].to])
       \/ ~Exists(i) /\ UNCHANGED shifts
    /\ Goto(w, Idle)
    /\ UNCHANGED <<now, member>>

\* A variant that ends an early-started shift before it begins.
EndNow(row, end) == IF now < row.end THEN now ELSE end

\* The end of a shift completed now: an early end is recorded, though not one
\* before the start; otherwise the end stays. row was read before.
ActualEnd(row, end) ==
    IF now >= row.end THEN end
    ELSE IF now < row.start THEN row.start
    ELSE now

\* complete, for one of the rows read. A row that is gone ends the handler.
Complete(w, i) ==
    /\ call[w].at = "complete"
    /\ i \in Read(call[w])
    /\ \/ /\ Exists(i)
          /\ Write(i, [shifts[i] EXCEPT !.status = "completed",
                                        !.end = ActualEnd(call[w].rows[i], @)])
          /\ Goto(w, IF Read(call[w]) = {i} THEN Idle
                     ELSE [call[w] EXCEPT !.rows[i] = NoShift])
       \/ /\ ~Exists(i)
          /\ Goto(w, Idle)
          /\ UNCHANGED shifts
    /\ UNCHANGED <<now, member>>

\* A variant that lets a worked shift go with the rest.
NotRunning(st) == st \in Statuses \ {"active"}

\* Delete is for shifts that never ran.
NeverRan(st) == st \in {"scheduled", "cancelled"}

\* Delete loads the row: only a shift that never ran.
Delete(w, i) ==
    /\ call[w] = Idle
    /\ NeverRan(shifts[i].status)
    /\ Goto(w, [Idle EXCEPT !.at = "delete", !.rows = Only({i})])
    /\ UNCHANGED <<now, member, shifts>>

DeleteRow(w, i) ==
    /\ call[w].at = "delete"
    /\ i \in Read(call[w])
    /\ Write(i, Deleted)
    /\ Goto(w, Idle)
    /\ UNCHANGED <<now, member>>

-----------------------------------------------------------------------------
(* The rider *)

\* GoOnline up to its look for a running shift.
GoOnline(w) ==
    /\ call[w] = Idle
    /\ member = "active"
    /\ In({"active"}) = {}
    /\ Goto(w, [Idle EXCEPT !.at = "scheduled", !.to = "active", !.from = now])
    /\ UNCHANGED <<now, member, shifts>>

\* GoOnline looks for the earliest scheduled shift that can start.
FindScheduled(w) ==
    /\ call[w].at = "scheduled"
    /\ LET t == call[w].from IN
       \/ \E i \in Startable(t) :
             /\ \A j \in Startable(t) : shifts[i].start <= shifts[j].start
             /\ Goto(w, [call[w] EXCEPT !.at = "write", !.rows = Only({i})])
       \/ /\ Startable(t) = {}
          /\ Goto(w, [call[w] EXCEPT !.at = "next"])
    /\ UNCHANGED <<now, member, shifts>>

\* An open-ended shift stops short of the next scheduled one.
FindNext(w) ==
    /\ call[w].at = "next"
    /\ LET t    == call[w].from
           ends == {t + OpenEnded} \cup {shifts[i].start : i \in Upcoming(t)}
       IN  \E e \in ends :
              /\ \A f \in ends : e <= f
              /\ Goto(w, [call[w] EXCEPT !.at = "insert", !.until = e])
    /\ UNCHANGED <<now, member, shifts>>

\* GoOffline loads the running shifts and completes each.
GoOffline(w) ==
    /\ call[w] = Idle
    /\ In({"active"}) # {}
    /\ Goto(w, [Idle EXCEPT !.at = "complete", !.to = "completed",
                            !.rows = Only(In({"active"}))])
    /\ UNCHANGED <<now, member, shifts>>

-----------------------------------------------------------------------------
Next ==
    \/ Tick
    \/ ChangeMember
    \/ \E w \in Workers :
          \/ \E from, until \in 0 .. MaxTime : Create(w, from, until)
          \/ GoOnline(w)
          \/ FindScheduled(w)
          \/ FindNext(w)
          \/ GoOffline(w)
          \/ \E i \in ShiftId :
                \/ InsertShift(w, i)
                \/ \E to \in Statuses : Transition(w, i, to)
                \/ WriteStatus(w, i)
                \/ Complete(w, i)
                \/ Delete(w, i)
                \/ DeleteRow(w, i)

Spec == Init /\ [][Next]_vars

-----------------------------------------------------------------------------
(* Properties *)

\* "Shifts of one rider may not overlap" (service.go:128): whatever the order
\* in which shifts are created, started early, ended early, cancelled and
\* opened by going online, two that count share no time. It takes handlers
\* that do not interleave.
NoOverlap ==
    \A i, j \in Live : i # j => ~Overlap(shifts[i], shifts[j])

\* A completed shift never claims time that has not passed, and never ends
\* before it started, however late or often it is ended.
RecordedEnd ==
    \A i \in In({"completed"}) :
        /\ shifts[i].start <= shifts[i].end
        /\ shifts[i].end <= now \/ shifts[i].end = shifts[i].start

\* "Worked shifts are history" (service.go:180): a shift that has run is only
\* ever completed, never deleted, cancelled or scheduled again. It takes
\* handlers that do not interleave.
WorkedShiftKept ==
    [][\A i \in In({"active", "completed"}) :
          shifts'[i].status \in {shifts[i].status, "completed"}]_vars

-----------------------------------------------------------------------------
(* The inductive strengthenings behind the proofs *)

\* What a handler in flight is about to write.
CallOK(c) ==
    /\ c.at = "insert" => c.to \in {"scheduled", "active"} /\ c.from <= c.until
    /\ c.at = "scheduled" \/ c.at = "next" => c.to = "active"
    /\ c.at = "write" => c.to \in {"active", "cancelled"}

\* An end that is real for a shift that is over.
Real(s) == s.start <= s.end /\ (s.end <= now \/ s.end = s.start)

\* A row read before it is completed is there or was deleted; it has kept its
\* start, and its end too unless somebody else completed it meanwhile.
RowsRead(c) ==
    c.at = "complete" =>
        \A i \in Read(c) :
            /\ shifts[i] # NoShift
            /\ Exists(i) => /\ shifts[i].start = c.rows[i].start
                            /\ shifts[i].end = c.rows[i].end \/ Real(shifts[i])

EndsInv ==
    /\ TypeOK
    /\ \A i \in ShiftId : Exists(i) => shifts[i].start <= shifts[i].end
    /\ \A w \in Workers : CallOK(call[w]) /\ RowsRead(call[w])
    /\ RecordedEnd

\* What a handler has checked still holds, when no other one runs.
Checked(c) ==
    /\ c.at = "scheduled" => In({"active"}) = {}
    /\ c.at = "next" =>
          \A i \in Live : shifts[i].start > c.from \/ shifts[i].end <= c.from
    /\ c.at = "next" => In({"active"}) = {}
    /\ c.at = "insert" => NoneIn(c.from, c.until)
    /\ c.at = "write" => \A i \in Read(c) : shifts[i].status = "scheduled"
    /\ c.at = "complete" => \A i \in Read(c) : shifts[i].status = "active"
    /\ c.at = "delete" => \A i \in Read(c) : NeverRan(shifts[i].status)

OverlapInv ==
    /\ TypeOK
    /\ \A w \in Workers : CallOK(call[w]) /\ Checked(call[w])
    /\ NoOverlap
=============================================================================
