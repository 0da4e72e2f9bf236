-------------------------- MODULE VehicleInsurance --------------------------
(***************************************************************************)
(* The insurance of one vehicle: who records it, the hourly monitor, and    *)
(* what both mean for the rider's jobs (internal/modules/fleet/insurance.go,*)
(* insurance_monitor.go and UpdateVehicle in service.go).                   *)
(*                                                                         *)
(* Time counts calendar days. A policy covers its whole expiry day, so it   *)
(* has expired when the day is over; the last second of the day, which the  *)
(* code already counts as after it, is left out. A handler that writes the  *)
(* metadata writes all of it, as it was when the vehicle was read.          *)
(***************************************************************************)
EXTENDS Integers

CONSTANTS
    Clerks,         \* requests that record a policy and can be in flight together
    MaxDay,         \* bound: the last day of the model
    ReminderDays,   \* the tenant's insurance_reminder_days
    Lookback,       \* expiredLookback, in days
    MaxNotices      \* bound: how many notices of a kind are counted

ASSUME DaysAssumption == MaxDay \in Nat

VARIABLES
    now,        \* the current day
    vehicle,    \* the row
    clerk,      \* the policy each clerk is recording
    monitor,    \* the vehicle the monitor is working on
    notices,    \* notices sent about the policy on the vehicle, of each kind
    byHand,     \* ghost: whether an admin put the vehicle out of service last
    overtaken,  \* ghost: a status or its reason was written for an outdated row
    unmarked    \* ghost: the marker of a notice was not kept

vars == <<now, vehicle, clerk, monitor, notices, byHand, overtaken, unmarked>>

-----------------------------------------------------------------------------
(* State *)

Day == 0 .. MaxDay

NoDate == -1

Date == Day \cup {NoDate}

Status == {"active", "inactive", "maintenance"}

\* deactivated: metadata.inactive_reason is insurance_expired. remindedFor and
\* noticeFor: the markers inside metadata.insurance.
Vehicle == [motor : BOOLEAN, status : Status, expiry : Date, deactivated : BOOLEAN,
            remindedFor : Date, noticeFor : Date]

Kind == {"expiring", "expired"}

\* no; yes; or marked: yes, when the monitor had deactivated the vehicle before.
ByHand == {"no", "yes", "marked"}

\* The tenant's two blocking rules, which may change at any time.
Rules == [blockUninsured : BOOLEAN, blockExpired : BOOLEAN]

\* The policy to record, and what the row read before says: whether it is to be
\* reactivated, and its reason.
Clerk == [expiry : Date, back : BOOLEAN, deactivated : BOOLEAN]

\* What to send, whether to deactivate, and the row's metadata as it was read.
Monitor == [kind : Kind \cup {"none"}, off : BOOLEAN, expiry : Date, deactivated : BOOLEAN,
            remindedFor : Date, noticeFor : Date]

TypeOK ==
    /\ now \in Day
    /\ vehicle \in Vehicle
    /\ clerk \in [Clerks -> Clerk]
    /\ monitor \in Monitor
    /\ notices \in [Kind -> Nat]
    /\ byHand \in ByHand
    /\ overtaken \in BOOLEAN
    /\ unmarked \in BOOLEAN

NewVehicle(motor, expiry) ==
    [motor |-> motor, status |-> "active", expiry |-> expiry, deactivated |-> FALSE,
     remindedFor |-> NoDate, noticeFor |-> NoDate]

IdleClerk == [expiry |-> NoDate, back |-> FALSE, deactivated |-> FALSE]

IdleMonitor == [kind |-> "none", off |-> FALSE, expiry |-> NoDate, deactivated |-> FALSE,
                remindedFor |-> NoDate, noticeFor |-> NoDate]

Init ==
    /\ now = 0
    /\ \E motor \in BOOLEAN, expiry \in Date : vehicle = NewVehicle(motor, expiry)
    /\ clerk = [c \in Clerks |-> IdleClerk]
    /\ monitor = IdleMonitor
    /\ notices = [k \in Kind |-> 0]
    /\ byHand = "no"
    /\ overtaken = FALSE
    /\ unmarked = FALSE

Insured(v) == v.expiry # NoDate

Expired(v) == Insured(v) /\ v.expiry < now

-----------------------------------------------------------------------------
(* The rule for jobs, twice *)

\* VehicleBlock: what stops the vehicle, asked for one rider.
VehicleBlock(v, p) ==
    CASE v.status # "active" -> "vehicle_inactive"
      [] v.status = "active" /\ v.motor /\ ~Insured(v) /\ p.blockUninsured -> "no_insurance"
      [] v.status = "active" /\ v.motor /\ Expired(v) /\ p.blockExpired -> "insurance_expired"
      [] OTHER -> ""

\* A variant that forgets that a bicycle needs no insurance.
DispatchableAnyType(v, p) ==
    /\ v.status = "active"
    /\ p.blockUninsured => Insured(v)
    /\ p.blockExpired => ~Expired(v)

\* DispatchablePredicate: the same in SQL, asked for the whole fleet.
Dispatchable(v, p) ==
    /\ v.status = "active"
    /\ p.blockUninsured => ~v.motor \/ Insured(v)
    /\ p.blockExpired => ~v.motor \/ ~Insured(v) \/ v.expiry >= now

-----------------------------------------------------------------------------
(* Requests *)

Tick ==
    /\ now < MaxDay
    /\ now' = now + 1
    /\ UNCHANGED <<vehicle, clerk, monitor, notices, byHand, overtaken, unmarked>>

\* UpdateVehicle writes the columns of the request only: the inactive_reason of a
\* vehicle the monitor had deactivated stays where it is.
UpdateStatus(status) ==
    /\ status # vehicle.status
    /\ vehicle' = [vehicle EXCEPT !.status = status]
    /\ byHand' = CASE status = "active" -> "no"
                  [] status # "active" /\ vehicle.deactivated -> "marked"
                  [] OTHER -> "yes"
    /\ UNCHANGED <<now, clerk, monitor, notices, overtaken, unmarked>>

UpdateVehicleType ==
    /\ vehicle' = [vehicle EXCEPT !.motor = ~vehicle.motor]
    /\ UNCHANGED <<now, clerk, monitor, notices, byHand, overtaken, unmarked>>

\* Variants: a renewal never reactivates, or reactivates whatever is inactive.
NeverReactivated(v) == FALSE
WheneverInactive(v) == v.status = "inactive"

Reactivated(v) == v.status = "inactive" /\ v.deactivated

\* RecordInsurance validates the certificate and loads the vehicle.
ReadForRecord(c, expiry) ==
    /\ clerk[c] = IdleClerk
    /\ expiry >= now
    /\ clerk' = [clerk EXCEPT ![c] = [expiry |-> expiry, back |-> Reactivated(vehicle),
                                     deactivated |-> vehicle.deactivated]]
    /\ UNCHANGED <<now, vehicle, monitor, notices, byHand, overtaken, unmarked>>

\* applyInsurance
WriteRecord(c) ==
    /\ clerk[c] # IdleClerk
    /\ LET seen == clerk[c] IN
       /\ vehicle' = [vehicle EXCEPT
             !.expiry = seen.expiry,
             !.remindedFor = NoDate,
             !.noticeFor = NoDate,
             !.deactivated = seen.deactivated /\ ~seen.back,
             !.status = IF seen.back THEN "active" ELSE @]
       /\ overtaken' = (overtaken \/ seen.deactivated # vehicle.deactivated
                                  \/ seen.back # Reactivated(vehicle))
    /\ notices' = [k \in Kind |-> 0]
    /\ clerk' = [clerk EXCEPT ![c] = IdleClerk]
    /\ UNCHANGED <<now, monitor, byHand, unmarked>>

-----------------------------------------------------------------------------
(* The monitor: one replica holds the claim of the hour *)

\* A variant that reminds in every pass.
NeverReminded(v) == FALSE

Reminded(v) == v.remindedFor = v.expiry

\* checkInsurance reads the vehicle and the rule on expired policies.
Scan(kind, blockExpired) ==
    LET off == blockExpired /\ vehicle.motor /\ vehicle.status = "active" /\ kind = "expired"
    IN /\ monitor = IdleMonitor
       /\ Insured(vehicle)
       /\ \/ /\ kind = "expiring"
             /\ ~Expired(vehicle)
             /\ vehicle.expiry - now <= ReminderDays
             /\ ~Reminded(vehicle)
          \/ /\ kind = "expired"
             /\ Expired(vehicle)
             /\ vehicle.expiry + Lookback >= now
             /\ vehicle.noticeFor # vehicle.expiry \/ off
       /\ monitor' = [kind |-> kind, off |-> off, expiry |-> vehicle.expiry,
                      deactivated |-> vehicle.deactivated,
                      remindedFor |-> vehicle.remindedFor, noticeFor |-> vehicle.noticeFor]
       /\ UNCHANGED <<now, vehicle, clerk, notices, byHand, overtaken, unmarked>>

\* The expiry notice is not repeated when only the deactivation is left to do.
NoticeDue == monitor.kind = "expiring" \/ monitor.noticeFor # monitor.expiry

\* notifyInsurance, which may fail.
Notify(sent) ==
    /\ monitor # IdleMonitor
    /\ sent => NoticeDue /\ notices[monitor.kind] < MaxNotices
    /\ notices' = IF sent THEN [notices EXCEPT ![monitor.kind] = @ + 1] ELSE notices
    /\ monitor' = IdleMonitor
    /\ UNCHANGED <<now, clerk, byHand>>

\* saveInsuranceMeta: all of the metadata, and the status when it deactivates.
Save(sent) ==
    /\ Notify(sent)
    /\ monitor.kind = "expiring" => sent
    /\ vehicle' = [vehicle EXCEPT
          !.remindedFor = IF monitor.kind = "expiring" THEN monitor.expiry ELSE monitor.remindedFor,
          !.noticeFor = IF monitor.kind = "expired" /\ sent THEN monitor.expiry ELSE monitor.noticeFor,
          !.deactivated = monitor.deactivated \/ monitor.off,
          !.status = IF monitor.off THEN "inactive" ELSE @]
    /\ overtaken' = (overtaken \/ monitor.deactivated # vehicle.deactivated
                       \/ (monitor.off /\ (vehicle.status # "active" \/ ~Expired(vehicle))))
    /\ unmarked' = (unmarked \/ vehicle.expiry # monitor.expiry
                             \/ vehicle.remindedFor # monitor.remindedFor
                             \/ vehicle.noticeFor # monitor.noticeFor)

\* Nothing is saved: a reminder that could not be sent, a replica that stops, an
\* update that fails.
NotSaved(sent) ==
    /\ Notify(sent)
    /\ unmarked' = (unmarked \/ sent)
    /\ UNCHANGED <<vehicle, overtaken>>

-----------------------------------------------------------------------------
Next ==
    \/ Tick
    \/ \E status \in Status : UpdateStatus(status)
    \/ UpdateVehicleType
    \/ \E c \in Clerks :
          \/ \E expiry \in Day : ReadForRecord(c, expiry)
          \/ WriteRecord(c)
    \/ \E kind \in Kind, blockExpired \in BOOLEAN : Scan(kind, blockExpired)
    \/ \E sent \in BOOLEAN : Save(sent) \/ NotSaved(sent)

Spec == Init /\ [][Next]_vars

-----------------------------------------------------------------------------
(* Properties *)

\* The rule for one rider and the query for the fleet never disagree, whatever
\* the rules, the vehicle and the day ("It must agree with DispatchablePredicate,
\* which applies the same rule in SQL", insurance.go:168).
OneRuleForJobs == \A p \in Rules : Dispatchable(vehicle, p) <=> VehicleBlock(vehicle, p) = ""

\* A vehicle with a running policy that no admin took off is on the road,
\* however often it lapsed and was renewed: only a monitor or a renewal that
\* wrote for an outdated row leaves an insured vehicle off jobs.
InsuredVehicleWorks ==
    byHand = "no" /\ ~overtaken /\ Insured(vehicle) /\ ~Expired(vehicle)
        => \A p \in Rules : VehicleBlock(vehicle, p) = ""

\* "A vehicle an admin set inactive by hand stays inactive" (insurance.go:36)
\* through every lapse and renewal, when the monitor had not taken it off before.
HandInactiveStays == byHand = "yes" /\ ~overtaken => vehicle.status # "active"

\* "each policy gets one reminder and one expiry notice" (insurance.go:82),
\* over every pass and every publish that failed, unless a marker was lost.
OneNoticeEach == ~unmarked => \A k \in Kind : notices[k] <= 1
=============================================================================
