---------------------------- MODULE DispatchChoice ----------------------------
(***************************************************************************)
(* Who is offered a pending job: DispatchTask and the batch scheduler       *)
(* (internal/modules/dispatch), while riders come and go. A dispatch reads  *)
(* the riders, their positions, how old those are and who declined one      *)
(* after the other, and assigns by what it read. What an assignment then    *)
(* does to the job is TaskLifecycle's.                                      *)
(*                                                                         *)
(* A rider's distance to the pickup is fixed, and within the radius.        *)
(***************************************************************************)
EXTENDS Integers, FiniteSets

CONSTANTS
    Riders,
    Distance,       \* of each rider to the pickup
    Covering,       \* riders on a shift that lists the job's zone
    SearchLimit     \* how many positions a search returns

ASSUME RidersAssumption ==
    /\ IsFiniteSet(Riders)
    /\ Distance \in [Riders -> Nat]
    /\ Covering \subseteq Riders
    /\ SearchLimit \in Nat

VARIABLES
    fix,        \* each rider's position in Redis: none, fresh or stale
    cleared,    \* active riders whose vehicle may carry jobs
    declined,   \* riders who gave the job back
    task,       \* the rider who has the job, or "pending"
    run,        \* the dispatch in progress
    steady,     \* ghost: who could have been chosen all the time since it began
    since       \* ghost: who declined since it began

vars == <<fix, cleared, declined, task, run, steady, since>>

-----------------------------------------------------------------------------
(* State *)

Fix == {"none", "fresh", "stale"}

\* none: no dispatch. listed, found and filtered: the step reached. batch: the job is
\* one of a group of the batch scheduler. crowded: the search did not return every
\* position.
Run == [step : {"none", "listed", "found", "filtered"}, batch : BOOLEAN,
        riders : SUBSET Riders, crowded : BOOLEAN]

NoRun == [step |-> "none", batch |-> FALSE, riders |-> {}, crowded |-> FALSE]

TypeOK ==
    /\ fix \in [Riders -> Fix]
    /\ cleared \subseteq Riders
    /\ declined \subseteq Riders
    /\ task \in {{}} \cup {{r} : r \in Riders}
    /\ run \in Run
    /\ steady \subseteq Riders
    /\ since \subseteq Riders

Init ==
    /\ fix = [r \in Riders |-> "none"]
    /\ cleared = {}
    /\ declined = {}
    /\ task = {}
    /\ run = NoRun
    /\ steady = {}
    /\ since = {}

Pending == task = {}

Free(r) == fix[r] = "fresh" /\ r \in cleared /\ r \notin declined

\* What every step does to the ghosts.
Observe ==
    /\ steady' = IF run' = NoRun THEN {} ELSE {r \in steady : Free(r)'}
    /\ since' = IF run' = NoRun THEN {} ELSE since \cup (declined' \ declined)

-----------------------------------------------------------------------------
(* Riders *)

\* UpdateRiderLocation
ReportPosition(r) ==
    /\ fix' = [fix EXCEPT ![r] = "fresh"]
    /\ UNCHANGED <<cleared, declined, task, run>>
    /\ Observe

\* The last fix gets older than maxFixAge: the position itself never expires.
GoQuiet(r) ==
    /\ fix[r] = "fresh"
    /\ fix' = [fix EXCEPT ![r] = "stale"]
    /\ UNCHANGED <<cleared, declined, task, run>>
    /\ Observe

\* MarkOffline
GoOffline(r) ==
    /\ fix[r] # "none"
    /\ fix' = [fix EXCEPT ![r] = "none"]
    /\ UNCHANGED <<cleared, declined, task, run>>
    /\ Observe

\* An approval, a suspension, an insurance that is recorded or runs out.
Clear(r) ==
    /\ cleared' = IF r \in cleared THEN cleared \ {r} ELSE cleared \cup {r}
    /\ UNCHANGED <<fix, declined, task, run>>
    /\ Observe

\* A dispatcher assigns the job, or the rider claims it.
TakeByHand(r) ==
    /\ Pending
    /\ r \in cleared
    /\ task' = {r}
    /\ UNCHANGED <<fix, cleared, declined, run>>
    /\ Observe

Decline(r) ==
    /\ r \in task
    /\ task' = {}
    /\ declined' = declined \cup {r}
    /\ UNCHANGED <<fix, cleared, run>>
    /\ Observe

-----------------------------------------------------------------------------
(* A dispatch *)

\* The job is pending; ListDispatchable.
Begin(batch) ==
    /\ run = NoRun
    /\ Pending
    /\ cleared # {}
    /\ run' = [step |-> "listed", batch |-> batch, riders |-> cleared, crowded |-> FALSE]
    /\ steady' = {r \in Riders : Free(r)}
    /\ since' = {}
    /\ UNCHANGED <<fix, cleared, declined, task>>

Placed == {r \in Riders : fix[r] # "none"}

\* Fault: one position fewer than asked for.
FoundFewer ==
    {r \in Placed :
        Cardinality({s \in Placed : Distance[s] < Distance[r]}) < SearchLimit - 1}

\* The nearest positions, of whomever they are.
Found ==
    {r \in Placed :
        Cardinality({s \in Placed : Distance[s] < Distance[r]}) < SearchLimit}

\* findNearestRiders, or fallbackHaversine when the search fails.
Search ==
    /\ run.step = "listed"
    /\ \/ run' = [run EXCEPT !.step = "found", !.riders = @ \cap Found,
                             !.crowded = Cardinality(Placed) > SearchLimit]
       \/ run' = [run EXCEPT !.step = "found", !.riders = @ \cap Placed]
    /\ UNCHANGED <<fix, cleared, declined, task>>
    /\ Observe

\* Fault: those who declined are not left out.
Unheard == {}

\* DispatchTask leaves out who declined here, the batch only before it assigns.
LeftOut == IF run.batch THEN {} ELSE declined

\* freshCandidates
Filter ==
    /\ run.step = "found"
    /\ run' = [run EXCEPT !.step = "filtered",
                          !.riders = {r \in @ \ LeftOut : fix[r] = "fresh"}]
    /\ UNCHANGED <<fix, cleared, declined, task>>
    /\ Observe

Prefers(r, s) ==
    IF ~run.batch /\ (r \in Covering) # (s \in Covering) THEN r \in Covering
    ELSE Distance[r] < Distance[s]

\* Fault: distance only.
Nearer == {r \in run.riders : \A s \in run.riders : Distance[r] <= Distance[s]}

\* preferZoneRiders over riders sorted by distance.
Choice == {r \in run.riders : \A s \in run.riders : ~Prefers(s, r)}

Taken(r) == run.batch => r \notin declined

\* AssignTask checks the rider and the job again.
Assign(r) ==
    /\ run.step = "filtered"
    /\ r \in Choice
    /\ Taken(r)
    /\ r \in cleared
    /\ Pending
    /\ task' = {r}
    /\ run' = NoRun
    /\ UNCHANGED <<fix, cleared, declined>>
    /\ Observe

\* Nobody is left: the dispatcher is told (notifyDispatchFailed), or the batch goes
\* on with its next group.
Refuse ==
    /\ run.step = "filtered"
    /\ run.riders = {}
    /\ run' = NoRun
    /\ UNCHANGED <<fix, cleared, declined, task>>
    /\ Observe

\* The job or the rider is not what it was, or the rider of the batch had declined
\* this job: the job stays as it is and nobody is told.
Drop(r) ==
    /\ run.step = "filtered"
    /\ r \in Choice
    /\ ~Taken(r) \/ r \notin cleared \/ ~Pending
    /\ run' = NoRun
    /\ UNCHANGED <<fix, cleared, declined, task>>
    /\ Observe

-----------------------------------------------------------------------------
(* Specification *)

Next ==
    \/ \E r \in Riders :
           \/ ReportPosition(r) \/ GoQuiet(r) \/ GoOffline(r) \/ Clear(r)
           \/ TakeByHand(r) \/ Decline(r)
           \/ Assign(r) \/ Drop(r)
    \/ \E batch \in BOOLEAN : Begin(batch)
    \/ Search
    \/ Filter
    \/ Refuse

Spec == Init /\ [][Next]_vars

-----------------------------------------------------------------------------
(* Properties *)

Chosen == IF task = {} /\ run # NoRun /\ run' = NoRun THEN task' ELSE {}

\* Among the riders who could have had the job all the while, nobody who covers the
\* zone, or is nearer, is passed over, unless positions of others filled the search
\* (DispatchTask: "nearest first; riders whose active shift covers the drop-off zone
\* go ahead").
BestIsChosen ==
    [][\A r \in Chosen, s \in steady : Prefers(s, r) => run.crowded]_vars

\* A dispatch gives up for want of riders only if nobody could have had the job all
\* the while, or the search was crowded out (DispatchTask, findNearestRiders).
NobodyOverlooked ==
    [][Refuse => steady = {} \/ run.crowded]_vars

\* A rider who turned the job down is given it again by the machine only if he did
\* so while this dispatch was under way (DispatchTask: "never a rider who already
\* declined this job").
DeclinedIsHeard ==
    [][\A r \in Chosen : r \in declined => r \in since]_vars

=============================================================================
