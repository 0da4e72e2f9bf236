---------------------------- MODULE RiderAccount ----------------------------
(***************************************************************************)
(* One person on the way to being a rider: the local user row, the fleet    *)
(* membership, the driver role and the cached answer that the tenant runs a *)
(* fleet. The writers are the fleet desk (internal/modules/fleet/service.go,*)
(* onboard.go, employment.go), the rider's own profile                      *)
(* (identity/service.go, vehicle.go), sign-ins and auth-api's events        *)
(* (identity/events.go, fleet/rekey.go), and the hourly clean-up            *)
(* (fleet/cleanup.go).                                                      *)
(*                                                                         *)
(* A user row is known by its key: a stub has a random one until the auth   *)
(* account is known, a legacy stub was linked without being moved. Events   *)
(* have a consumer each and are delivered again after any failure, so each  *)
(* may be handled at any time, in any order and more than once. Emails are  *)
(* the same in every letter; the status shown on a user row has no reader   *)
(* here and is left out. The tenant has no other rider.                     *)
(***************************************************************************)
EXTENDS FiniteSets

CONSTANTS
    Requests    \* handlers that take several steps and can be in flight together

VARIABLES
    user,       \* the key of the person's user row
    member,     \* the fleet_members row
    granted,    \* the user row has the driver role
    gate,       \* the cached answer of HasActiveFleet
    filler,     \* an answer read from the database and not yet cached
    call,       \* the handlers in flight
    approved,   \* ghost: the membership was put to work and never taken off by the business
    ungranted   \* ghost: the last grant was cut off, or went to a key that was gone

vars == <<user, member, granted, gate, filler, call, approved, ungranted>>

-----------------------------------------------------------------------------
(* State *)

Key == {"none", "stub", "legacy", "auth"}

Status == {"none", "pending", "pending_review", "active", "inactive", "suspended", "rejected"}

Vehicle == {"none", "own", "company"}

\* old: created more than StaleRiderAge ago. worked: has task assignments, whose
\* foreign key keeps the row.
Member == [status : Status, staff : BOOLEAN, old : BOOLEAN, worked : BOOLEAN, vehicle : Vehicle]

NoMember == [status |-> "none", staff |-> FALSE, old |-> FALSE, worked |-> FALSE, vehicle |-> "none"]

NewMember(status, staff) == [NoMember EXCEPT !.status = status, !.staff = staff]

Answer == {"unknown", "yes", "no"}

\* The member's status, vehicle and user_id as they were read. save and review are
\* the rider's profile, without a review or with one.
Call == [op : {"idle", "save", "review", "employment", "grant", "cleanup", "cleanupMember"},
         status : Status, vehicle : Vehicle, key : Key]

Idle == [op |-> "idle", status |-> "none", vehicle |-> "none", key |-> "none"]

TypeOK ==
    /\ user \in Key
    /\ member \in Member
    /\ granted \in BOOLEAN
    /\ gate \in Answer
    /\ filler \in Answer
    /\ call \in [Requests -> Call]
    /\ approved \in BOOLEAN
    /\ ungranted \in BOOLEAN

\* A rider linked before 2026-10-18 keeps the random key until the next sign-in.
Init ==
    /\ user \in {"none", "legacy"}
    /\ member = IF user = "legacy" THEN NewMember("pending", FALSE) ELSE NoMember
    /\ granted = FALSE
    /\ gate = "unknown"
    /\ filler = "unknown"
    /\ call = [r \in Requests |-> Idle]
    /\ approved = FALSE
    /\ ungranted = FALSE

Exists == member.status # "none"

Linked == user \in {"auth", "legacy"}

SetStatus(status) == member' = [member EXCEPT !.status = status]

\* The handler goes on with the row it has read.
Goto(r, op) ==
    call' = [call EXCEPT ![r] = [op |-> op, status |-> member.status,
                                 vehicle |-> member.vehicle, key |-> user]]

Granting(r, key) ==
    call' = [call EXCEPT ![r] = [op |-> "grant", status |-> "active", vehicle |-> "none", key |-> key]]

Return(r) == call' = [call EXCEPT ![r] = Idle]

\* The membership is deleted: what still works on it fails at its next write.
DropMember ==
    /\ member' = NoMember
    /\ approved' = FALSE
    /\ call' = [r \in Requests |-> IF call[r].op = "grant" THEN call[r] ELSE Idle]

\* statusChanged: InvalidateFleetGate, after the write and at the end of the handler.
StatusChanged == gate' = "unknown"

-----------------------------------------------------------------------------
(* The user row *)

\* A variant that leaves the role grants behind.
GrantsLeft(g) == FALSE

\* RekeyUser moves the role grants with the row.
GrantsMoved(g) == g

\* RekeyUser, one transaction: the row, its membership and its grants.
Rekey ==
    /\ user' = "auth"
    /\ granted' = GrantsMoved(granted)

\* handleUserCreated, for a person who belongs to logistics when there is no stub.
UserCreated ==
    /\ ~Linked
    /\ IF user = "stub" THEN Rekey ELSE user' = "auth" /\ UNCHANGED granted
    /\ UNCHANGED <<member, gate, filler, call, approved, ungranted>>

\* EnsureUserFromToken
SignIn ==
    /\ user # "auth"
    /\ IF user = "none" THEN user' = "auth" /\ UNCHANGED granted ELSE Rekey
    /\ UNCHANGED <<member, gate, filler, call, approved, ungranted>>

\* handleUserDeactivated; it does not touch the cached answer.
UserDeactivated ==
    /\ Linked
    /\ member.status = "active"
    /\ SetStatus("inactive")
    /\ UNCHANGED <<user, granted, gate, filler, call, approved, ungranted>>

\* removeLocalUser, for auth.user.deleted or a user revoked from logistics. It
\* looks for the membership under the auth id.
UserDeleted ==
    /\ \/ user = "auth"
       \/ user = "legacy" /\ ~Exists /\ ~granted
    /\ user' = "none"
    /\ DropMember
    /\ granted' = FALSE
    /\ ungranted' = FALSE
    /\ UNCHANGED <<gate, filler>>

-----------------------------------------------------------------------------
(* The fleet desk *)

\* InviteMemberByEmail commits the stub before it writes the membership.
CreateStub ==
    /\ user = "none"
    /\ user' = "stub"
    /\ UNCHANGED <<member, granted, gate, filler, call, approved, ungranted>>

\* InviteMember: staff start active and get the driver role.
InviteMember(r, staff) ==
    /\ call[r] = Idle
    /\ user # "none"
    /\ ~Exists
    /\ member' = NewMember(IF staff THEN "active" ELSE "pending", staff)
    /\ IF staff THEN Granting(r, user) ELSE UNCHANGED call
    /\ approved' = staff
    /\ UNCHANGED <<user, granted, gate, filler, ungranted>>

\* OnboardInternalRider: saveOnboarded is one transaction that writes the user
\* under the auth id, with a company vehicle or without.
Onboard(r, vehicle) ==
    /\ call[r] = Idle
    /\ ~Exists
    /\ vehicle # "own"
    /\ IF user \in {"stub", "legacy"} THEN Rekey ELSE user' = "auth" /\ UNCHANGED granted
    /\ member' = [NewMember("active", TRUE) EXCEPT !.vehicle = vehicle]
    /\ Granting(r, "auth")
    /\ approved' = TRUE
    /\ UNCHANGED <<gate, filler, ungranted>>

\* ApproveMember asks for no particular status. The role goes to the user_id it read.
ApproveMember(r) ==
    /\ call[r] = Idle
    /\ Exists
    /\ SetStatus("active")
    /\ Granting(r, user)
    /\ approved' = TRUE
    /\ UNCHANGED <<user, granted, gate, filler, ungranted>>

\* ensureDriverRole, then statusChanged. A grant to a key that is gone violates
\* the foreign key and is only logged.
GrantDriverRole(r) ==
    /\ call[r].op = "grant"
    /\ LET found == user = call[r].key IN
       /\ granted' = (granted \/ found)
       /\ ungranted' = ~found
    /\ StatusChanged
    /\ Return(r)
    /\ UNCHANGED <<user, member, filler, approved>>

SuspendMember ==
    /\ Exists
    /\ SetStatus("suspended")
    /\ StatusChanged
    /\ approved' = FALSE
    /\ UNCHANGED <<user, granted, filler, call, ungranted>>

RejectMember ==
    /\ Exists
    /\ SetStatus("rejected")
    /\ StatusChanged
    /\ approved' = FALSE
    /\ UNCHANGED <<user, granted, filler, call, ungranted>>

\* DeleteMember: the role stays.
DeleteMember ==
    /\ Exists
    /\ ~member.worked
    /\ DropMember
    /\ StatusChanged
    /\ UNCHANGED <<user, granted, filler, ungranted>>

NeedsKYC(status) == status \in {"pending", "pending_review"}

\* SetEmployment reads the member, then writes the terms; a rider who becomes
\* staff while waiting for review is activated.
ReadEmployment(r) ==
    /\ call[r] = Idle
    /\ Exists
    /\ Goto(r, "employment")
    /\ UNCHANGED <<user, member, granted, gate, filler, approved, ungranted>>

WriteEmployment(r, staff) ==
    LET activate == staff /\ NeedsKYC(call[r].status) IN
    /\ call[r].op = "employment"
    /\ member' = [member EXCEPT !.staff = staff, !.status = IF activate THEN "active" ELSE @]
    /\ approved' = (approved \/ activate)
    /\ IF activate THEN Granting(r, call[r].key) ELSE Return(r)
    /\ UNCHANGED <<user, granted, gate, filler, ungranted>>

\* AssignVehicle links one of the business's vehicles or unlinks.
AssignVehicle(vehicle) ==
    /\ Exists
    /\ vehicle # "own"
    /\ vehicle # member.vehicle
    /\ member' = [member EXCEPT !.vehicle = vehicle]
    /\ UNCHANGED <<user, granted, gate, filler, call, approved, ungranted>>

-----------------------------------------------------------------------------
(* The rider *)

\* UpdateRiderProfile begins with Apply, which commits on its own.
Apply ==
    /\ Linked
    /\ ~Exists
    /\ member' = NewMember("pending", FALSE)
    /\ UNCHANGED <<user, granted, gate, filler, call, approved, ungranted>>

\* A variant that sends a suspended rider to review with the others.
ReviewUnlessActive(status, kycChanged) == status = "active" => kycChanged

NeedsKYCReview(status, kycChanged) ==
    /\ status # "suspended"
    /\ status = "active" => kycChanged

\* The transaction reads the member and decides on a review ...
ReadProfile(r, kycChanged) ==
    /\ call[r] = Idle
    /\ Linked
    /\ Exists
    /\ Goto(r, IF ~member.staff /\ NeedsKYCReview(member.status, kycChanged) THEN "review" ELSE "save")
    /\ UNCHANGED <<user, member, granted, gate, filler, approved, ungranted>>

\* ... and writes it by key, with the rider's own vehicle when it had none.
WriteProfile(r, plate) ==
    /\ call[r].op \in {"save", "review"}
    /\ member' = [member EXCEPT
          !.status = IF call[r].op = "review" THEN "pending_review" ELSE @,
          !.vehicle = IF plate /\ call[r].vehicle = "none" THEN "own" ELSE @]
    /\ Return(r)
    /\ UNCHANGED <<user, granted, gate, filler, approved, ungranted>>

\* A job in the rider's hands: TaskLifecycle.
TakeJob ==
    /\ member.status = "active"
    /\ ~member.worked
    /\ member' = [member EXCEPT !.worked = TRUE]
    /\ UNCHANGED <<user, granted, gate, filler, call, approved, ungranted>>

-----------------------------------------------------------------------------
(* The clean-up *)

\* Seven days go by after the row was created, and not within one clean-up.
GrowOld ==
    /\ Exists
    /\ ~member.old
    /\ \A r \in Requests : call[r].op \notin {"cleanup", "cleanupMember"}
    /\ member' = [member EXCEPT !.old = TRUE]
    /\ UNCHANGED <<user, granted, gate, filler, call, approved, ungranted>>

\* cleanupStaleRiders queries the applications, then deletes them one by one.
ScanStale(r) ==
    /\ call[r] = Idle
    /\ member.status \in {"pending", "pending_review"}
    /\ member.old
    /\ Goto(r, "cleanup")
    /\ UNCHANGED <<user, member, granted, gate, filler, approved, ungranted>>

\* The vehicle it read goes first, whoever owns it, and with it the link to it.
DeleteStaleVehicle(r) ==
    /\ call[r].op = "cleanup"
    /\ member' = [member EXCEPT !.vehicle = IF @ = call[r].vehicle THEN "none" ELSE @]
    /\ call' = [call EXCEPT ![r].op = "cleanupMember"]
    /\ UNCHANGED <<user, granted, gate, filler, approved, ungranted>>

\* The member by key, which fails for one with assignments.
DeleteStaleMember(r) ==
    /\ call[r].op = "cleanupMember"
    /\ \/ ~member.worked /\ DropMember
       \/ member.worked /\ Return(r) /\ UNCHANGED <<member, approved>>
    /\ UNCHANGED <<user, granted, gate, filler, ungranted>>

\* A request is cut off or a replica stops.
Abandon(r) ==
    /\ call[r] # Idle
    /\ ungranted' = (ungranted \/ call[r].op = "grant")
    /\ Return(r)
    /\ UNCHANGED <<user, member, granted, gate, filler, approved>>

-----------------------------------------------------------------------------
(* The cached answer *)

\* HasActiveFleet misses the cache and asks the database.
ReadFleet ==
    /\ gate = "unknown"
    /\ filler = "unknown"
    /\ filler' = IF member.status = "active" THEN "yes" ELSE "no"
    /\ UNCHANGED <<user, member, granted, gate, call, approved, ungranted>>

CacheAnswer ==
    /\ filler # "unknown"
    /\ gate' = filler
    /\ filler' = "unknown"
    /\ UNCHANGED <<user, member, granted, call, approved, ungranted>>

\* A variant without a time to live.
KeptForGood(answer) == FALSE

\* fleetGateTTL ends for either answer.
EndsWithTTL(answer) == answer # "unknown"

ExpireAnswer ==
    /\ EndsWithTTL(gate)
    /\ gate' = "unknown"
    /\ UNCHANGED <<user, member, granted, filler, call, approved, ungranted>>

-----------------------------------------------------------------------------
Next ==
    \/ UserCreated \/ SignIn \/ UserDeactivated \/ UserDeleted
    \/ CreateStub \/ SuspendMember \/ RejectMember \/ DeleteMember
    \/ \E vehicle \in Vehicle : AssignVehicle(vehicle)
    \/ Apply \/ TakeJob \/ GrowOld
    \/ \E r \in Requests :
          \/ \E staff \in BOOLEAN : InviteMember(r, staff) \/ WriteEmployment(r, staff)
          \/ \E vehicle \in Vehicle : Onboard(r, vehicle)
          \/ ApproveMember(r) \/ GrantDriverRole(r) \/ ReadEmployment(r)
          \/ \E kycChanged \in BOOLEAN : ReadProfile(r, kycChanged)
          \/ \E plate \in BOOLEAN : WriteProfile(r, plate)
          \/ ScanStale(r) \/ DeleteStaleVehicle(r) \/ DeleteStaleMember(r)
          \/ Abandon(r)
    \/ ReadFleet \/ CacheAnswer \/ ExpireAnswer

\* Redis ends an entry when its time is up, and a query that was answered is cached.
GateFairness == WF_vars(ExpireAnswer) /\ WF_vars(CacheAnswer)

Spec == Init /\ [][Next]_vars /\ GateFairness

-----------------------------------------------------------------------------
(* Properties *)

\* A suspended rider is never released by a profile save, a change of terms or an
\* account event ("a suspended rider stays suspended", identity/service.go:264):
\* only the desk, or the end of the account, ends a suspension, or a handler
\* that had read the row before it.
SuspensionSticks ==
    [][member.status = "suspended" /\ member'.status # "suspended" =>
          \/ RejectMember \/ DeleteMember \/ UserDeleted
          \/ \E r \in Requests :
                \/ ApproveMember(r)
                \/ call[r].op # "idle" /\ call[r].status # "suspended" /\ call'[r] # call[r]]_vars

\* An active rider has the role that lets them work, under the key their
\* membership points to, whenever the sign-in moved the row: only a grant that
\* was cut off or overtaken by the move leaves one without.
RoleFollowsRider ==
    member.status = "active" /\ ~ungranted
        => granted \/ \E r \in Requests : call[r].op = "grant"

\* A tenant that has an active rider for good is not refused its deliveries for
\* good, whatever answer was on its way to the cache ("activating a rider drops
\* it", fleet_gate.go:50).
FleetGateRecovers == <>[](member.status = "active") => <>[](gate # "no")

\* The clean-up takes applications "that have not been reviewed" (cleanup.go:22):
\* a rider the business put to work keeps the membership and the vehicle.
ApprovedRiderKept ==
    [][approved /\ (\E r \in Requests : DeleteStaleVehicle(r) \/ DeleteStaleMember(r))
          => UNCHANGED <<member.status, member.vehicle>>]_vars
=============================================================================
