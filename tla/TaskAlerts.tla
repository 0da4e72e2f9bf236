----------------------------- MODULE TaskAlerts -----------------------------
(***************************************************************************)
(* The alerts about one task that is late: the SLA monitor of each replica  *)
(* (internal/modules/tasks/sla_monitor.go) and the dispatcher's feed        *)
(* (internal/modules/notifications/service.go).                            *)
(*                                                                         *)
(* One replica per five minutes scans. A scan that takes longer overlaps    *)
(* the next one, so two of them may work on the task at once.               *)
(* A scan takes the thousand tasks that are late the longest: fewer are late *)
(* here, so that the task is among them.                                    *)
(***************************************************************************)
EXTENDS Integers

CONSTANTS
    Scans,      \* scans that may overlap
    MaxLost     \* bound: steps lost to a crash, an error or an outage

VARIABLES
    late,       \* how late the task is: 0, then one step per escalation level
    open,       \* the task is not in a terminal status
    claimed,    \* levels claimed in Redis, each for thirty days
    scan,       \* what each scan is doing with the task
    unread,     \* unread sla_breach notifications about the task
    alerts,     \* how many were ever created
    lost        \* how many were lost so far

vars == <<late, open, claimed, scan, unread, alerts, lost>>

-----------------------------------------------------------------------------
(* State *)

\* breached, and the three escalationThresholds after it: warning, critical and
\* escalated.
Levels == 1 .. 4

Step == {"idle", "listed", "claimed", "absent"}

TypeOK ==
    /\ late \in 0 .. 4
    /\ open \in BOOLEAN
    /\ claimed \subseteq Levels
    /\ scan \in [Scans -> Step]
    /\ unread \in 0 .. alerts
    /\ alerts \in Nat
    /\ lost \in 0 .. MaxLost

Init ==
    /\ late = 0
    /\ open = TRUE
    /\ claimed = {}
    /\ scan = [s \in Scans |-> "idle"]
    /\ unread = 0
    /\ alerts = 0
    /\ lost = 0

Overdue == open /\ late \in Levels

-----------------------------------------------------------------------------
(* A scan *)

\* checkBreaches reads the overdue tasks.
List(s) ==
    /\ scan[s] = "idle"
    /\ Overdue
    /\ scan' = [scan EXCEPT ![s] = "listed"]
    /\ UNCHANGED <<late, open, claimed, unread, alerts, lost>>

\* Fault: one claim for the task, whatever the level.
TakenForTask == claimed # {}

\* ClaimOnce on the task and its EscalationLevel, as it is by now.
Taken == late \in claimed

Claim(s) ==
    /\ scan[s] = "listed"
    /\ claimed' = claimed \cup {late}
    /\ scan' = [scan EXCEPT ![s] = IF Taken THEN "idle" ELSE "claimed"]
    /\ UNCHANGED <<late, open, unread, alerts, lost>>

\* CreateDeduped looks for an unread alert about the task.
LookForAlert(s) ==
    /\ scan[s] = "claimed"
    /\ scan' = [scan EXCEPT ![s] = IF unread > 0 THEN "idle" ELSE "absent"]
    /\ UNCHANGED <<late, open, claimed, unread, alerts, lost>>

CreateAlert(s) ==
    /\ scan[s] = "absent"
    /\ scan' = [scan EXCEPT ![s] = "idle"]
    /\ unread' = unread + 1
    /\ alerts' = alerts + 1
    /\ UNCHANGED <<late, open, claimed, lost>>

\* A restart, or an error that is only logged: the claim stays.
Lose(s) ==
    /\ scan[s] # "idle"
    /\ lost < MaxLost
    /\ lost' = lost + 1
    /\ scan' = [scan EXCEPT ![s] = "idle"]
    /\ UNCHANGED <<late, open, claimed, unread, alerts>>

-----------------------------------------------------------------------------
(* The task, the dispatcher and the clock *)

\* A level lasts three scans or more, so it passes unclaimed only in an outage.
Tick ==
    /\ open /\ late < 4
    /\ late' = late + 1
    /\ \/ late \in claimed \cup {0} /\ UNCHANGED lost
       \/ lost < MaxLost /\ lost' = lost + 1
    /\ UNCHANGED <<open, claimed, scan, unread, alerts>>

Finish ==
    /\ open
    /\ open' = FALSE
    /\ UNCHANGED <<late, claimed, scan, unread, alerts, lost>>

\* MarkRead of one alert.
MarkRead ==
    /\ unread > 0
    /\ unread' = unread - 1
    /\ UNCHANGED <<late, open, claimed, scan, alerts, lost>>

MarkAllRead ==
    /\ unread > 1
    /\ unread' = 0
    /\ UNCHANGED <<late, open, claimed, scan, alerts, lost>>

-----------------------------------------------------------------------------
(* Specification *)

Scan(s) == List(s) \/ Claim(s) \/ LookForAlert(s) \/ CreateAlert(s)

Next ==
    \/ \E s \in Scans : Scan(s) \/ Lose(s)
    \/ Tick
    \/ Finish
    \/ MarkRead
    \/ MarkAllRead

\* The ticker of some replica fires every five minutes, and time passes.
Fairness == WF_vars(Tick) /\ \A s \in Scans : WF_vars(Scan(s))

Spec == Init /\ [][Next]_vars /\ Fairness

-----------------------------------------------------------------------------
(* Properties *)

\* An order that stays open and late reaches the dispatcher, even if the alert of
\* every level but one is lost after its claim (checkBreaches).
LateOrderHeard == Overdue ~> (~open \/ alerts > 0)

=============================================================================
