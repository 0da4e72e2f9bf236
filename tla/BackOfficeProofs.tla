----------------------- MODULE BackOfficeProofs -----------------------
(***************************************************************************)
(* Theorems about the components MCBackOffice puts side by side: the       *)
(* insurance of a vehicle, for any number of clerks and days; the account  *)
(* of a rider; the purge of a tenant; and the types of all of them.        *)
(***************************************************************************)
EXTENDS MCBackOffice, Sequences, FiniteSetTheorems, TLAPS

-----------------------------------------------------------------------------
(* Types *)

LEMMA TypeInit == Init => TypeOK
<1> SUFFICES ASSUME Init PROVE TypeOK
  OBVIOUS
<1>1. now \in Day
  BY DaysAssumption DEF Init, Day
<1>2. vehicle \in Vehicle
  <2> PICK motor \in BOOLEAN, expiry \in Date : vehicle = NewVehicle(motor, expiry)
    BY DEF Init
  <2> QED BY DEF NewVehicle, Vehicle, Status, Date, NoDate
<1>3. clerk \in [Clerks -> Clerk]
  BY DEF Init, Clerk, IdleClerk, Date, NoDate
<1>4. monitor \in Monitor
  BY DEF Init, Monitor, IdleMonitor, Date, NoDate, Kind
<1>5. notices \in [Kind -> Nat] /\ byHand \in ByHand
  BY DEF Init, ByHand
<1> QED BY <1>1, <1>2, <1>3, <1>4, <1>5 DEF Init, TypeOK

LEMMA TypeRequests ==
    ASSUME TypeOK,
           \/ Tick
           \/ \E status \in Status : UpdateStatus(status)
           \/ UpdateVehicleType
    PROVE  TypeOK'
<1>1. CASE Tick
  BY <1>1, DaysAssumption DEF Tick, TypeOK, Day
<1>2. CASE \E status \in Status : UpdateStatus(status)
  BY <1>2 DEF UpdateStatus, TypeOK, Vehicle, ByHand
<1>3. CASE UpdateVehicleType
  BY <1>3 DEF UpdateVehicleType, TypeOK, Vehicle
<1> QED BY <1>1, <1>2, <1>3

LEMMA TypeRecord ==
    ASSUME TypeOK, NEW c \in Clerks,
           \/ \E expiry \in Day : ReadForRecord(c, expiry)
           \/ WriteRecord(c)
    PROVE  TypeOK'
<1>1. CASE \E expiry \in Day : ReadForRecord(c, expiry)
  <2> PICK expiry \in Day : ReadForRecord(c, expiry)
    BY <1>1
  <2> Reactivated(vehicle) \in BOOLEAN
    BY DEF Reactivated, TypeOK, Vehicle
  <2> [expiry |-> expiry, back |-> Reactivated(vehicle),
       deactivated |-> vehicle.deactivated] \in Clerk
    BY DEF Clerk, Date, TypeOK, Vehicle
  <2> QED BY DEF ReadForRecord, TypeOK
<1>2. CASE WriteRecord(c)
  <2>1. clerk[c] \in Clerk /\ IdleClerk \in Clerk
    BY DEF TypeOK, Clerk, IdleClerk, Date, NoDate
  <2>2. vehicle' \in Vehicle
    BY <1>2, <2>1 DEF WriteRecord, TypeOK, Vehicle, Clerk, Status, Date, NoDate
  <2>3. overtaken' \in BOOLEAN
    BY <1>2, <2>1 DEF WriteRecord, TypeOK
  <2>4. clerk' \in [Clerks -> Clerk]
    BY <1>2, <2>1 DEF WriteRecord, TypeOK
  <2>5. notices' \in [Kind -> Nat]
    BY <1>2 DEF WriteRecord
  <2> QED BY <1>2, <2>2, <2>3, <2>4, <2>5 DEF WriteRecord, TypeOK
<1> QED BY <1>1, <1>2

LEMMA TypeMonitor ==
    ASSUME TypeOK,
           \/ \E kind \in Kind, blockExpired \in BOOLEAN : Scan(kind, blockExpired)
           \/ \E sent \in BOOLEAN : Save(sent) \/ NotSaved(sent)
    PROVE  TypeOK'
<1>1. ASSUME NEW kind \in Kind, NEW blockExpired \in BOOLEAN, Scan(kind, blockExpired)
      PROVE  TypeOK'
  BY <1>1 DEF Scan, TypeOK, Monitor, Vehicle
<1>2. ASSUME NEW sent \in BOOLEAN, Notify(sent)
      PROVE  now' \in Day /\ monitor' \in Monitor /\ notices' \in [Kind -> Nat] /\ byHand' \in ByHand
             /\ clerk' \in [Clerks -> Clerk]
  <2>1. IdleMonitor \in Monitor
    BY DEF Monitor, IdleMonitor, Kind, Date, NoDate
  <2>2. CASE sent
    <3>1. notices' = [notices EXCEPT ![monitor.kind] = @ + 1]
      BY <1>2, <2>2 DEF Notify
    <3>2. notices' \in [Kind -> Nat]
      <4> CASE monitor.kind \in Kind
        BY <3>1 DEF TypeOK
      <4> CASE monitor.kind \notin Kind
        BY <3>1 DEF TypeOK
      <4> QED OBVIOUS
    <3> QED BY <1>2, <2>1, <3>2 DEF Notify, TypeOK
  <2>3. CASE ~sent
    BY <1>2, <2>1, <2>3 DEF Notify, TypeOK
  <2> QED BY <2>2, <2>3
<1>3. ASSUME NEW sent \in BOOLEAN, Save(sent)
      PROVE  TypeOK'
  <2>1. vehicle' \in Vehicle
    <3> DEFINE reminded == IF monitor.kind = "expiring" THEN monitor.expiry ELSE monitor.remindedFor
    <3> DEFINE noticed ==
          IF monitor.kind = "expired" /\ sent THEN monitor.expiry ELSE monitor.noticeFor
    <3> DEFINE off == monitor.deactivated \/ monitor.off
    <3> DEFINE status == IF monitor.off THEN "inactive" ELSE vehicle.status
    <3>1. reminded \in Date /\ noticed \in Date /\ off \in BOOLEAN /\ status \in Status
      BY DEF TypeOK, Monitor, Vehicle, Status
    <3>2. vehicle' = [vehicle EXCEPT !.remindedFor = reminded, !.noticeFor = noticed,
                                     !.deactivated = off, !.status = status]
      BY <1>3 DEF Save
    <3> HIDE DEF reminded, noticed, off, status
    <3> QED BY <3>1, <3>2 DEF TypeOK, Vehicle
  <2>2. overtaken' \in BOOLEAN /\ unmarked' \in BOOLEAN
    BY <1>3 DEF Save, TypeOK
  <2> QED BY <1>2, <1>3, <2>1, <2>2 DEF Save, TypeOK
<1>4. ASSUME NEW sent \in BOOLEAN, NotSaved(sent)
      PROVE  TypeOK'
  BY <1>2, <1>4 DEF NotSaved, TypeOK
<1> QED BY <1>1, <1>3, <1>4

LEMMA TypeNext == TypeOK /\ [Next]_vars => TypeOK'
<1> SUFFICES ASSUME TypeOK, [Next]_vars PROVE TypeOK'
  OBVIOUS
<1>1. CASE UNCHANGED vars
  BY <1>1 DEF vars, TypeOK
<1>2. CASE Next
  BY <1>2, TypeRequests, TypeRecord, TypeMonitor DEF Next
<1> QED BY <1>1, <1>2

\* The variables keep their types, whatever the clerks and the monitor do to the
\* vehicle's metadata between them.
THEOREM TypeCorrect == Spec => []TypeOK
<1> QED BY TypeInit, TypeNext, PTL DEF Spec

-----------------------------------------------------------------------------
(* One rule for jobs *)

\* VehicleBlock and DispatchablePredicate agree on every vehicle, day and rule.
THEOREM RulesAgree == Spec => []OneRuleForJobs
<1>1. TypeOK => OneRuleForJobs
  BY DEF TypeOK, OneRuleForJobs, Dispatchable, VehicleBlock, Insured, Expired, Vehicle, Rules,
     Status, Date, Day, NoDate
<1> QED BY <1>1, TypeCorrect, PTL
-----------------------------------------------------------------------------
(* On and off jobs *)

\* Why a vehicle is off jobs when every write was made for the row as it is: the
\* monitor took it off for a policy that is still the expired one, or an admin did.
OffForAReason ==
    ~overtaken =>
        /\ byHand = "no" => \/ vehicle.status = "active"
                            \/ Reactivated(vehicle) /\ Expired(vehicle)
        /\ byHand = "yes" => vehicle.status # "active" /\ ~vehicle.deactivated

LEMMA OffNext == TypeOK /\ OffForAReason /\ [Next]_vars => OffForAReason'
<1> SUFFICES ASSUME TypeOK, OffForAReason, [Next]_vars, ~overtaken'
             PROVE  /\ byHand' = "no" => \/ vehicle'.status = "active"
                                         \/ Reactivated(vehicle)' /\ Expired(vehicle)'
                    /\ byHand' = "yes" => vehicle'.status # "active" /\ ~vehicle'.deactivated
  BY DEF OffForAReason
<1> USE DEF OffForAReason
<1>1. CASE Tick
  BY <1>1 DEF Tick, Reactivated, Expired, Insured, TypeOK, Vehicle, Day, Date, NoDate
<1>2. ASSUME NEW status \in Status, UpdateStatus(status)
      PROVE  /\ byHand' = "no" => \/ vehicle'.status = "active"
                                  \/ Reactivated(vehicle)' /\ Expired(vehicle)'
             /\ byHand' = "yes" => vehicle'.status # "active" /\ ~vehicle'.deactivated
  BY <1>2 DEF UpdateStatus, TypeOK, Vehicle
<1>3. CASE UpdateVehicleType
  BY <1>3 DEF UpdateVehicleType, Reactivated, Expired, Insured, TypeOK, Vehicle
<1>4. ASSUME NEW c \in Clerks, WriteRecord(c)
      PROVE  /\ byHand' = "no" => \/ vehicle'.status = "active"
                                  \/ Reactivated(vehicle)' /\ Expired(vehicle)'
             /\ byHand' = "yes" => vehicle'.status # "active" /\ ~vehicle'.deactivated
  <2>1. /\ ~overtaken
        /\ clerk[c].deactivated = vehicle.deactivated
        /\ clerk[c].back = Reactivated(vehicle)
    BY <1>4 DEF WriteRecord
  <2>2. /\ vehicle'.status = IF clerk[c].back THEN "active" ELSE vehicle.status
        /\ vehicle'.deactivated = (clerk[c].deactivated /\ ~clerk[c].back)
        /\ byHand' = byHand
    BY <1>4 DEF WriteRecord, TypeOK, Vehicle
  <2> QED BY <2>1, <2>2 DEF Reactivated
<1>5. ASSUME NEW sent \in BOOLEAN, Save(sent)
      PROVE  /\ byHand' = "no" => \/ vehicle'.status = "active"
                                  \/ Reactivated(vehicle)' /\ Expired(vehicle)'
             /\ byHand' = "yes" => vehicle'.status # "active" /\ ~vehicle'.deactivated
  <2>1. /\ ~overtaken
        /\ monitor.deactivated = vehicle.deactivated
        /\ monitor.off => vehicle.status = "active" /\ Expired(vehicle)
    BY <1>5 DEF Save
  <2>2. /\ vehicle'.status = IF monitor.off THEN "inactive" ELSE vehicle.status
        /\ vehicle'.deactivated = (monitor.deactivated \/ monitor.off)
        /\ vehicle'.expiry = vehicle.expiry
        /\ byHand' = byHand /\ now' = now
    BY <1>5 DEF Save, Notify, TypeOK, Vehicle
  <2> QED BY <2>1, <2>2 DEF Reactivated, Expired, Insured
<1>6. CASE UNCHANGED <<now, vehicle, byHand, overtaken>>
  BY <1>6 DEF Reactivated, Expired, Insured
<1>7. CASE \E c \in Clerks, expiry \in Day : ReadForRecord(c, expiry)
  BY <1>6, <1>7 DEF ReadForRecord
<1>8. CASE \E kind \in Kind, blockExpired \in BOOLEAN : Scan(kind, blockExpired)
  BY <1>6, <1>8 DEF Scan
<1>9. CASE \E sent \in BOOLEAN : NotSaved(sent)
  BY <1>6, <1>9 DEF NotSaved, Notify
<1> QED BY <1>1, <1>2, <1>3, <1>4, <1>5, <1>6, <1>7, <1>8, <1>9 DEF Next, vars

LEMMA OffAlways == Spec => []OffForAReason
<1>1. Init => OffForAReason
  BY DEF Init, OffForAReason, NewVehicle
<1> QED BY <1>1, OffNext, TypeCorrect, PTL DEF Spec

\* A vehicle with a running policy that nobody took off by hand carries jobs, after
\* any number of lapses, deactivations and renewals (applyInsurance).
THEOREM InsuredVehiclesWork == Spec => []InsuredVehicleWorks
<1>1. TypeOK /\ OffForAReason => InsuredVehicleWorks
  BY DEF TypeOK, OffForAReason, InsuredVehicleWorks, VehicleBlock, Vehicle, Reactivated
<1> QED BY <1>1, TypeCorrect, OffAlways, PTL

\* No renewal puts a vehicle on the road that an admin took off.
THEOREM HandInactiveStaysOff == Spec => []HandInactiveStays
<1>1. OffForAReason => HandInactiveStays
  BY DEF OffForAReason, HandInactiveStays
<1> QED BY <1>1, OffAlways, PTL
-----------------------------------------------------------------------------
(* Notices *)

\* A notice sent is marked on the policy it is about, and the monitor is about to
\* send only what was never sent.
NoticesMarked ==
    /\ monitor # IdleMonitor => monitor.kind \in Kind
    /\ ~unmarked =>
        /\ \/ notices["expiring"] = 0
           \/ notices["expiring"] = 1 /\ vehicle.remindedFor = vehicle.expiry
        /\ \/ notices["expired"] = 0
           \/ notices["expired"] = 1 /\ vehicle.noticeFor = vehicle.expiry
        /\ monitor # IdleMonitor /\ NoticeDue => notices[monitor.kind] = 0

LEMMA NoticesNext == TypeOK /\ NoticesMarked /\ [Next]_vars => NoticesMarked'
<1> SUFFICES ASSUME TypeOK, NoticesMarked, [Next]_vars PROVE NoticesMarked'
  OBVIOUS
<1>1. CASE UNCHANGED <<vehicle, notices, monitor, unmarked>>
  BY <1>1 DEF NoticesMarked, NoticeDue
<1>2. ASSUME NEW status \in Status, UpdateStatus(status) PROVE NoticesMarked'
  <2> /\ vehicle'.expiry = vehicle.expiry
      /\ vehicle'.remindedFor = vehicle.remindedFor
      /\ vehicle'.noticeFor = vehicle.noticeFor
      /\ UNCHANGED <<notices, monitor, unmarked>>
    BY <1>2 DEF UpdateStatus, TypeOK, Vehicle
  <2> QED BY DEF NoticesMarked, NoticeDue
<1>3. CASE UpdateVehicleType
  <2> /\ vehicle'.expiry = vehicle.expiry
      /\ vehicle'.remindedFor = vehicle.remindedFor
      /\ vehicle'.noticeFor = vehicle.noticeFor
      /\ UNCHANGED <<notices, monitor, unmarked>>
    BY <1>3 DEF UpdateVehicleType, TypeOK, Vehicle
  <2> QED BY DEF NoticesMarked, NoticeDue
<1>4. ASSUME NEW c \in Clerks, WriteRecord(c) PROVE NoticesMarked'
  BY <1>4 DEF WriteRecord, NoticesMarked, NoticeDue, Kind
<1>5. ASSUME NEW kind \in Kind, NEW blockExpired \in BOOLEAN, Scan(kind, blockExpired)
      PROVE  NoticesMarked'
  BY <1>5 DEF Scan, NoticesMarked, NoticeDue, Reminded, Kind, TypeOK, Monitor, Vehicle
<1>6. ASSUME NEW sent \in BOOLEAN, Save(sent) PROVE NoticesMarked'
  <2>1. CASE unmarked'
    BY <1>6, <2>1 DEF Save, Notify, NoticesMarked
  <2>2. CASE ~unmarked'
    <3>1. /\ ~unmarked
          /\ vehicle.expiry = monitor.expiry
          /\ vehicle.remindedFor = monitor.remindedFor
          /\ vehicle.noticeFor = monitor.noticeFor
      BY <1>6, <2>2 DEF Save
    <3>2. /\ monitor.kind \in Kind
          /\ sent => notices[monitor.kind] = 0
          /\ notices' = IF sent THEN [notices EXCEPT ![monitor.kind] = @ + 1] ELSE notices
          /\ monitor' = IdleMonitor
          /\ monitor.kind = "expiring" => sent
      BY <1>6, <3>1 DEF Save, Notify, NoticesMarked
    <3>3. /\ vehicle'.expiry = vehicle.expiry
          /\ vehicle'.remindedFor =
                IF monitor.kind = "expiring" THEN monitor.expiry ELSE monitor.remindedFor
          /\ vehicle'.noticeFor =
                IF monitor.kind = "expired" /\ sent THEN monitor.expiry ELSE monitor.noticeFor
      BY <1>6 DEF Save, TypeOK, Vehicle
    <3>4. CASE monitor.kind = "expiring"
      BY <3>1, <3>2, <3>3, <3>4 DEF NoticesMarked, TypeOK, Kind
    <3>5. CASE monitor.kind = "expired"
      BY <3>1, <3>2, <3>3, <3>5 DEF NoticesMarked, TypeOK, Kind
    <3> QED BY <3>2, <3>4, <3>5 DEF Kind
  <2> QED BY <2>1, <2>2
<1>7. ASSUME NEW sent \in BOOLEAN, NotSaved(sent) PROVE NoticesMarked'
  BY <1>7 DEF NotSaved, Notify, NoticesMarked, NoticeDue, IdleMonitor
<1>8. CASE Tick
  BY <1>1, <1>8 DEF Tick
<1>9. CASE \E c \in Clerks, expiry \in Day : ReadForRecord(c, expiry)
  BY <1>1, <1>9 DEF ReadForRecord
<1> QED BY <1>1, <1>2, <1>3, <1>4, <1>5, <1>6, <1>7, <1>8, <1>9 DEF Next, vars

\* However often the monitor passes, a publish fails or the expiry is renewed, a
\* policy gets one notice of each kind as long as no marker is lost.
THEOREM NoticesSentOnce == Spec => []OneNoticeEach
<1>1. Init => NoticesMarked
  BY DEF Init, NoticesMarked, Kind
<1>2. TypeOK /\ NoticesMarked => OneNoticeEach
  BY DEF NoticesMarked, OneNoticeEach, Kind
<1> QED BY <1>1, <1>2, NoticesNext, TypeCorrect, PTL DEF Spec

-----------------------------------------------------------------------------
(* A rider's account *)

\* A step of a handler leaves the calls of the others alone.
LEMMA AccountCalls ==
    ASSUME Account!TypeOK, NEW r \in Requests, NEW key \in Account!Key, NEW op,
           op \in {"save", "review", "employment", "cleanup"}
    PROVE  /\ Account!Goto(r, op) => call' \in [Requests -> Account!Call]
           /\ Account!Granting(r, key) => call' \in [Requests -> Account!Call]
           /\ Account!Return(r) => call' \in [Requests -> Account!Call]
  BY DEF Account!TypeOK, Account!Goto, Account!Granting, Account!Return, Account!Call,
         Account!Member, Account!Status, Account!Vehicle, Account!Key, Account!Idle

\* The values the rows start with.
LEMMA AccountNewRows ==
    /\ Account!NoMember \in Account!Member
    /\ \A status \in Account!Status, staff \in BOOLEAN :
          Account!NewMember(status, staff) \in Account!Member
    /\ Account!Idle \in Account!Call
<1>1. Account!NoMember \in Account!Member
  BY DEF Account!NoMember, Account!Member, Account!Status, Account!Vehicle
<1>2. \A status \in Account!Status, staff \in BOOLEAN :
         Account!NewMember(status, staff) \in Account!Member
  BY <1>1 DEF Account!NewMember, Account!Member
<1>3. Account!Idle \in Account!Call
  BY DEF Account!Idle, Account!Call, Account!Status, Account!Vehicle, Account!Key
<1> QED BY <1>1, <1>2, <1>3

\* The rows the handlers write are rows.
LEMMA AccountRows ==
    ASSUME Account!TypeOK
    PROVE  /\ \A status \in Account!Status : Account!SetStatus(status) => member' \in Account!Member
           /\ Account!DropMember =>
                 /\ member' \in Account!Member
                 /\ approved' \in BOOLEAN
                 /\ call' \in [Requests -> Account!Call]
           /\ Account!Rekey => user' \in Account!Key /\ granted' \in BOOLEAN
<1>1. ASSUME NEW status \in Account!Status, Account!SetStatus(status)
      PROVE  member' \in Account!Member
  BY <1>1 DEF Account!SetStatus, Account!TypeOK, Account!Member
<1>2. ASSUME Account!DropMember
      PROVE  /\ member' \in Account!Member
             /\ approved' \in BOOLEAN
             /\ call' \in [Requests -> Account!Call]
  BY <1>2, AccountNewRows DEF Account!DropMember, Account!TypeOK
<1>3. ASSUME Account!Rekey PROVE user' \in Account!Key /\ granted' \in BOOLEAN
  BY <1>3 DEF Account!Rekey, Account!Key, Account!GrantsMoved, Account!TypeOK
<1> QED BY <1>1, <1>2, <1>3

\* The user row and its events.
LEMMA AccountTypeUser ==
    ASSUME Account!TypeOK,
           Account!UserCreated \/ Account!SignIn \/ Account!UserDeactivated \/ Account!UserDeleted
    PROVE  Account!TypeOK'
<1>1. CASE Account!UserCreated \/ Account!SignIn
  BY <1>1, AccountRows DEF Account!TypeOK, Account!UserCreated, Account!SignIn, Account!Key
<1>2. CASE Account!UserDeactivated
  BY <1>2, AccountRows DEF Account!TypeOK, Account!UserDeactivated, Account!Status
<1>3. CASE Account!UserDeleted
  BY <1>3, AccountRows DEF Account!TypeOK, Account!UserDeleted, Account!Key
<1> QED BY <1>1, <1>2, <1>3

\* What the desk does in one step.
LEMMA AccountTypeDesk ==
    ASSUME Account!TypeOK,
           \/ Account!CreateStub \/ Account!SuspendMember \/ Account!RejectMember
           \/ Account!DeleteMember \/ Account!Apply \/ Account!TakeJob \/ Account!GrowOld
           \/ \E v \in Account!Vehicle : Account!AssignVehicle(v)
    PROVE  Account!TypeOK'
<1>1. CASE Account!CreateStub \/ Account!DeleteMember
  BY <1>1, AccountRows
  DEF Account!TypeOK, Account!CreateStub, Account!DeleteMember, Account!Key,
      Account!StatusChanged, Account!Answer
<1>2. CASE Account!SuspendMember \/ Account!RejectMember
  BY <1>2, AccountRows
  DEF Account!TypeOK, Account!SuspendMember, Account!RejectMember, Account!Status,
      Account!StatusChanged, Account!Answer
<1>3. CASE Account!Apply
  BY <1>3, AccountNewRows DEF Account!TypeOK, Account!Apply, Account!Status
<1>4. CASE \/ Account!TakeJob \/ Account!GrowOld
           \/ \E v \in Account!Vehicle : Account!AssignVehicle(v)
  BY <1>4 DEF Account!TypeOK, Account!TakeJob, Account!GrowOld, Account!AssignVehicle,
     Account!Member
<1> QED BY <1>1, <1>2, <1>3, <1>4

\* The steps of a handler that takes several.
LEMMA AccountTypeHandler ==
    ASSUME Account!TypeOK, NEW r \in Requests,
           \/ \E staff \in BOOLEAN : \/ Account!InviteMember(r, staff)
                                     \/ Account!WriteEmployment(r, staff)
           \/ \E v \in Account!Vehicle : Account!Onboard(r, v)
           \/ Account!ApproveMember(r) \/ Account!GrantDriverRole(r) \/ Account!ReadEmployment(r)
           \/ \E kycChanged \in BOOLEAN : Account!ReadProfile(r, kycChanged)
           \/ \E plate \in BOOLEAN : Account!WriteProfile(r, plate)
           \/ Account!ScanStale(r) \/ Account!DeleteStaleVehicle(r)
           \/ Account!DeleteStaleMember(r) \/ Account!Abandon(r)
    PROVE  Account!TypeOK'
<1>1. ASSUME NEW staff \in BOOLEAN, Account!InviteMember(r, staff) PROVE Account!TypeOK'
  <2>1. member' \in Account!Member
    BY <1>1, AccountNewRows DEF Account!InviteMember, Account!Status
  <2>2. call' \in [Requests -> Account!Call]
    BY <1>1, AccountCalls DEF Account!InviteMember, Account!TypeOK
  <2> QED BY <1>1, <2>1, <2>2 DEF Account!InviteMember, Account!TypeOK
<1>2. ASSUME NEW staff \in BOOLEAN, Account!WriteEmployment(r, staff) PROVE Account!TypeOK'
  <2>1. member' \in Account!Member
    BY <1>2 DEF Account!WriteEmployment, Account!Status, Account!Member, Account!TypeOK
  <2>2. call' \in [Requests -> Account!Call]
    BY <1>2, AccountCalls DEF Account!WriteEmployment, Account!TypeOK, Account!Call
  <2>3. approved' \in BOOLEAN
    BY <1>2 DEF Account!WriteEmployment, Account!TypeOK, Account!NeedsKYC
  <2> QED BY <1>2, <2>1, <2>2, <2>3 DEF Account!WriteEmployment, Account!TypeOK
<1>3. ASSUME NEW v \in Account!Vehicle, Account!Onboard(r, v) PROVE Account!TypeOK'
  <2>1. member' \in Account!Member
    BY <1>3, AccountNewRows DEF Account!Onboard, Account!Status, Account!Member
  <2>2. call' \in [Requests -> Account!Call]
    BY <1>3, AccountCalls DEF Account!Onboard, Account!TypeOK, Account!Key
  <2>3. user' \in Account!Key /\ granted' \in BOOLEAN
    BY <1>3, AccountRows DEF Account!Onboard, Account!TypeOK, Account!Key
  <2> QED BY <1>3, <2>1, <2>2, <2>3 DEF Account!Onboard, Account!TypeOK
<1>4. CASE Account!ApproveMember(r)
  BY <1>4, AccountRows, AccountCalls DEF Account!ApproveMember, Account!TypeOK, Account!Status
<1>5. CASE Account!GrantDriverRole(r)
  BY <1>5, AccountCalls
  DEF Account!GrantDriverRole, Account!TypeOK, Account!StatusChanged, Account!Answer
<1>6. CASE \/ Account!ReadEmployment(r) \/ Account!ScanStale(r)
           \/ \E kycChanged \in BOOLEAN : Account!ReadProfile(r, kycChanged)
  <2>0. \A op \in {"save", "review", "employment", "cleanup"} :
           Account!Goto(r, op) => call' \in [Requests -> Account!Call]
    BY AccountCalls DEF Account!TypeOK
  <2>1. call' \in [Requests -> Account!Call]
    BY <1>6, <2>0 DEF Account!ReadEmployment, Account!ScanStale, Account!ReadProfile
  <2> QED BY <1>6, <2>1
    DEF Account!ReadEmployment, Account!ScanStale, Account!ReadProfile, Account!TypeOK
<1>7. ASSUME NEW plate \in BOOLEAN, Account!WriteProfile(r, plate) PROVE Account!TypeOK'
  <2>1. member' \in Account!Member
    BY <1>7 DEF Account!WriteProfile, Account!TypeOK, Account!Member, Account!Status,
       Account!Vehicle
  <2> QED BY <1>7, <2>1, AccountCalls DEF Account!WriteProfile, Account!TypeOK
<1>8. CASE Account!DeleteStaleVehicle(r)
  BY <1>8 DEF Account!DeleteStaleVehicle, Account!TypeOK, Account!Member, Account!Vehicle,
     Account!Call
<1>9. CASE Account!DeleteStaleMember(r) \/ Account!Abandon(r)
  BY <1>9, AccountRows, AccountCalls
  DEF Account!DeleteStaleMember, Account!Abandon, Account!TypeOK
<1> QED BY <1>1, <1>2, <1>3, <1>4, <1>5, <1>6, <1>7, <1>8, <1>9

LEMMA AccountTypeNext ==
    Account!TypeOK /\ [Account!Next]_accountVars => Account!TypeOK'
<1> SUFFICES ASSUME Account!TypeOK, [Account!Next]_accountVars PROVE Account!TypeOK'
  OBVIOUS
<1>1. CASE UNCHANGED accountVars
  BY <1>1 DEF accountVars, Account!TypeOK
<1>2. CASE Account!ReadFleet \/ Account!CacheAnswer \/ Account!ExpireAnswer
  BY <1>2 DEF Account!ReadFleet, Account!CacheAnswer, Account!ExpireAnswer, Account!TypeOK,
     Account!Answer
<1>3. CASE Account!Next
  BY <1>2, <1>3, AccountTypeUser, AccountTypeDesk, AccountTypeHandler DEF Account!Next
<1> QED BY <1>1, <1>3

LEMMA AccountTypeInit == Account!Init => Account!TypeOK
<1> SUFFICES ASSUME Account!Init PROVE Account!TypeOK
  OBVIOUS
<1>1. member \in Account!Member
  BY AccountNewRows DEF Account!Init, Account!Status
<1> QED
  BY <1>1, AccountNewRows DEF Account!Init, Account!TypeOK, Account!Key, Account!Answer

\* Whoever hands out the role, RoleFollowsRider is kept: it is its own invariant.
LEMMA RoleNext ==
    Account!TypeOK /\ RoleFollowsRider /\ [Account!Next]_accountVars => RoleFollowsRider'
<1> SUFFICES ASSUME Account!TypeOK, RoleFollowsRider, [Account!Next]_accountVars
             PROVE  RoleFollowsRider'
  OBVIOUS
<1> USE DEF RoleFollowsRider, Account!RoleFollowsRider
<1> DEFINE Granting(r) == call[r].op = "grant"
<1>1. CASE UNCHANGED accountVars
  BY <1>1 DEF accountVars
\* The steps that neither give a rider the status nor end a grant.
<1>2. CASE \/ Account!CreateStub \/ Account!SuspendMember \/ Account!RejectMember
           \/ Account!UserDeactivated \/ Account!TakeJob \/ Account!GrowOld
           \/ \E v \in Account!Vehicle : Account!AssignVehicle(v)
           \/ Account!ReadFleet \/ Account!CacheAnswer \/ Account!ExpireAnswer
  BY <1>2 DEF Account!CreateStub, Account!SuspendMember, Account!RejectMember,
     Account!UserDeactivated, Account!TakeJob, Account!GrowOld, Account!AssignVehicle,
     Account!ReadFleet, Account!CacheAnswer, Account!ExpireAnswer, Account!SetStatus,
     Account!TypeOK, Account!Member
<1>3. CASE Account!UserCreated \/ Account!SignIn
  BY <1>3 DEF Account!UserCreated, Account!SignIn, Account!Rekey, Account!GrantsMoved
<1>4. CASE Account!UserDeleted \/ Account!DeleteMember \/ Account!Apply
  <2>1. member'.status # "active"
    <3>1. Account!NoMember.status # "active"
      BY DEF Account!NoMember
    <3>2. Account!NewMember("pending", FALSE).status # "active"
      BY DEF Account!NoMember, Account!NewMember
    <3> QED
      BY <1>4, <3>1, <3>2
      DEF Account!UserDeleted, Account!DeleteMember, Account!Apply, Account!DropMember
  <2> QED BY <2>1
\* The steps of one handler.
<1>5. ASSUME NEW r \in Requests, NEW staff \in BOOLEAN, Account!InviteMember(r, staff)
      PROVE  RoleFollowsRider'
  <2>1. CASE staff
    BY <1>5, <2>1 DEF Account!InviteMember, Account!Granting, Account!TypeOK
  <2>2. CASE ~staff
    BY <1>5, <2>2 DEF Account!InviteMember, Account!NewMember, Account!NoMember
  <2> QED BY <2>1, <2>2
<1>6. ASSUME NEW r \in Requests, NEW staff \in BOOLEAN, Account!WriteEmployment(r, staff)
      PROVE  RoleFollowsRider'
  <2>1. CASE staff /\ Account!NeedsKYC(call[r].status)
    BY <1>6, <2>1 DEF Account!WriteEmployment, Account!Granting, Account!TypeOK
  <2>2. CASE ~(staff /\ Account!NeedsKYC(call[r].status))
    <3>1. member'.status = member.status
      BY <1>6, <2>2 DEF Account!WriteEmployment, Account!TypeOK, Account!Member
    <3>2. \A q \in Requests : Granting(q) => Granting(q)'
      BY <1>6, <2>2 DEF Account!WriteEmployment, Account!Return, Account!TypeOK
    <3> QED BY <1>6, <3>1, <3>2 DEF Account!WriteEmployment
  <2> QED BY <2>1, <2>2
<1>7. ASSUME NEW r \in Requests, NEW v \in Account!Vehicle, Account!Onboard(r, v)
      PROVE  RoleFollowsRider'
  BY <1>7 DEF Account!Onboard, Account!Granting, Account!TypeOK
<1>8. ASSUME NEW r \in Requests, Account!ApproveMember(r) PROVE RoleFollowsRider'
  BY <1>8 DEF Account!ApproveMember, Account!Granting, Account!TypeOK
<1>9. ASSUME NEW r \in Requests, Account!GrantDriverRole(r) PROVE RoleFollowsRider'
  BY <1>9 DEF Account!GrantDriverRole, Account!TypeOK
<1>10. ASSUME NEW r \in Requests,
              \/ Account!ReadEmployment(r) \/ Account!ScanStale(r)
              \/ \E kycChanged \in BOOLEAN : Account!ReadProfile(r, kycChanged)
       PROVE  RoleFollowsRider'
  <2>1. \A q \in Requests : Granting(q) => Granting(q)'
    BY <1>10 DEF Account!ReadEmployment, Account!ScanStale, Account!ReadProfile, Account!Goto,
       Account!Idle, Account!TypeOK
  <2> QED
    BY <1>10, <2>1 DEF Account!ReadEmployment, Account!ScanStale, Account!ReadProfile
<1>11. ASSUME NEW r \in Requests,
              \/ \E plate \in BOOLEAN : Account!WriteProfile(r, plate)
              \/ Account!DeleteStaleVehicle(r)
       PROVE  RoleFollowsRider'
  <2>1. \A q \in Requests : Granting(q) => Granting(q)'
    BY <1>11 DEF Account!WriteProfile, Account!DeleteStaleVehicle, Account!Return,
       Account!TypeOK
  <2>2. member'.status = "active" => member.status = "active"
    BY <1>11 DEF Account!WriteProfile, Account!DeleteStaleVehicle, Account!TypeOK,
       Account!Member
  <2> QED
    BY <1>11, <2>1, <2>2 DEF Account!WriteProfile, Account!DeleteStaleVehicle
<1>12. ASSUME NEW r \in Requests, Account!DeleteStaleMember(r) PROVE RoleFollowsRider'
  <2>1. CASE Account!DropMember
    BY <1>12, <2>1 DEF Account!DropMember, Account!NoMember
  <2>2. CASE Account!Return(r) /\ UNCHANGED member
    <3>1. \A q \in Requests : Granting(q) => Granting(q)'
      BY <1>12, <2>2 DEF Account!DeleteStaleMember, Account!Return, Account!TypeOK
    <3> QED BY <1>12, <2>2, <3>1 DEF Account!DeleteStaleMember
  <2> QED BY <1>12, <2>1, <2>2 DEF Account!DeleteStaleMember
<1>13. ASSUME NEW r \in Requests, Account!Abandon(r) PROVE RoleFollowsRider'
  <2>1. CASE call[r].op = "grant"
    BY <1>13, <2>1 DEF Account!Abandon
  <2>2. CASE call[r].op # "grant"
    BY <1>13, <2>2 DEF Account!Abandon, Account!Return, Account!TypeOK
  <2> QED BY <2>1, <2>2
<1> QED
  BY <1>1, <1>2, <1>3, <1>4, <1>5, <1>6, <1>7, <1>8, <1>9, <1>10, <1>11, <1>12, <1>13
  DEF Account!Next

\* The steps of an account, without the fairness its liveness needs.
AccountSteps == Account!Init /\ [][Account!Next]_accountVars

LEMMA AccountSafe == Account!Spec => AccountSteps
BY PTL DEF AccountSteps, Account!Spec, Account!vars, accountVars

LEMMA AccountTypesOf == AccountSteps => []Account!TypeOK
BY AccountTypeInit, AccountTypeNext, PTL DEF AccountSteps

\* The variables of an account keep their types, for any number of handlers.
THEOREM AccountTypes == Account!Spec => []Account!TypeOK
<1> QED
  BY AccountSafe, AccountTypesOf, PTL

LEMMA RoleAlways == AccountSteps => []RoleFollowsRider
<1>1. Account!Init => RoleFollowsRider
  BY DEF Account!Init, RoleFollowsRider, Account!RoleFollowsRider, Account!NewMember,
     Account!NoMember
<1> QED
  BY <1>1, RoleNext, AccountTypesOf, PTL DEF AccountSteps

\* However many handlers are in flight and wherever the sign-in moves the row, an
\* active rider has the driver role or is about to get it, unless a grant was cut
\* off or went to a key that was gone.
THEOREM RiderHasTheRole == Account!Spec => []RoleFollowsRider
<1> QED
  BY AccountSafe, RoleAlways, PTL

\* What a handler is to do to the status was decided on one that was not suspended.
DecidedBefore ==
    \A r \in Requests :
        call[r].op \in {"review", "cleanup", "cleanupMember"} => call[r].status # "suspended"

LEMMA DecidedNext ==
    Account!TypeOK /\ DecidedBefore /\ [Account!Next]_accountVars => DecidedBefore'
<1> SUFFICES ASSUME Account!TypeOK, DecidedBefore, [Account!Next]_accountVars,
                    NEW q \in Requests,
                    call'[q].op \in {"review", "cleanup", "cleanupMember"}
             PROVE  call'[q].status # "suspended"
  BY DEF DecidedBefore
<1> DEFINE Kept == call'[q].op = call[q].op /\ call'[q].status = call[q].status
<1>1. Kept => call'[q].status # "suspended"
  BY DEF DecidedBefore
<1>2. CASE UNCHANGED accountVars
  BY <1>1, <1>2 DEF accountVars
<1>3. CASE \/ Account!UserCreated \/ Account!SignIn \/ Account!UserDeactivated
           \/ Account!CreateStub \/ Account!SuspendMember \/ Account!RejectMember
           \/ Account!Apply \/ Account!TakeJob \/ Account!GrowOld
           \/ \E v \in Account!Vehicle : Account!AssignVehicle(v)
           \/ Account!ReadFleet \/ Account!CacheAnswer \/ Account!ExpireAnswer
  BY <1>1, <1>3 DEF Account!UserCreated, Account!SignIn, Account!UserDeactivated,
     Account!CreateStub, Account!SuspendMember, Account!RejectMember, Account!Apply,
     Account!TakeJob, Account!GrowOld, Account!AssignVehicle, Account!ReadFleet,
     Account!CacheAnswer, Account!ExpireAnswer
<1>4. CASE Account!DropMember
  BY <1>1, <1>4 DEF Account!DropMember, Account!Idle
<1>5. ASSUME NEW r \in Requests,
             \/ \E staff \in BOOLEAN : \/ Account!InviteMember(r, staff)
                                       \/ Account!WriteEmployment(r, staff)
             \/ \E v \in Account!Vehicle : Account!Onboard(r, v)
             \/ Account!ApproveMember(r) \/ Account!GrantDriverRole(r)
             \/ \E plate \in BOOLEAN : Account!WriteProfile(r, plate)
             \/ Account!DeleteStaleMember(r) \/ Account!Abandon(r)
      PROVE  call'[q].status # "suspended"
  <2>1. \/ Account!Return(r) \/ Account!DropMember \/ UNCHANGED call
        \/ \E key : Account!Granting(r, key)
    BY <1>5 DEF Account!InviteMember, Account!WriteEmployment, Account!Onboard,
       Account!ApproveMember, Account!GrantDriverRole, Account!WriteProfile,
       Account!DeleteStaleMember, Account!Abandon
  <2>2. CASE Account!Return(r) \/ \E key : Account!Granting(r, key)
    BY <1>1, <2>2 DEF Account!Return, Account!Granting, Account!Idle, Account!TypeOK
  <2> QED BY <1>1, <1>4, <2>1, <2>2
<1>6. ASSUME NEW r \in Requests,
             \/ Account!ReadEmployment(r) \/ Account!ScanStale(r)
             \/ \E kycChanged \in BOOLEAN : Account!ReadProfile(r, kycChanged)
      PROVE  call'[q].status # "suspended"
  <2>1. CASE q # r
    BY <1>1, <1>6, <2>1
    DEF Account!ReadEmployment, Account!ScanStale, Account!ReadProfile, Account!Goto,
        Account!TypeOK
  <2>2. CASE q = r
    BY <1>6, <2>2
    DEF Account!ReadEmployment, Account!ScanStale, Account!ReadProfile, Account!Goto,
        Account!NeedsKYCReview, Account!TypeOK
  <2> QED BY <2>1, <2>2
<1>7. ASSUME NEW r \in Requests, Account!DeleteStaleVehicle(r)
      PROVE  call'[q].status # "suspended"
  BY <1>7 DEF Account!DeleteStaleVehicle, Account!TypeOK, Account!Call, DecidedBefore
<1> QED
  BY <1>2, <1>3, <1>4, <1>5, <1>6, <1>7
  DEF Account!Next, Account!UserDeleted, Account!DeleteMember

\* A step that ends a suspension is the desk's, the end of the account, or that of
\* a handler that read the row before.
LEMMA EndsSuspension ==
    ASSUME Account!TypeOK, DecidedBefore, Account!Next,
           member.status = "suspended", member'.status # "suspended"
    PROVE  \/ Account!RejectMember \/ Account!DeleteMember \/ Account!UserDeleted
           \/ \E r \in Requests :
                 \/ Account!ApproveMember(r)
                 \/ call[r].op # "idle" /\ call[r].status # "suspended" /\ call'[r] # call[r]
<1> DEFINE Overtaken(r) ==
               call[r].op # "idle" /\ call[r].status # "suspended" /\ call'[r] # call[r]
<1>1. ~\/ Account!UserCreated \/ Account!SignIn \/ Account!UserDeactivated
       \/ Account!CreateStub \/ Account!SuspendMember \/ Account!Apply
       \/ Account!TakeJob \/ Account!GrowOld
       \/ \E v \in Account!Vehicle : Account!AssignVehicle(v)
       \/ Account!ReadFleet \/ Account!CacheAnswer \/ Account!ExpireAnswer
  BY DEF Account!UserCreated, Account!SignIn, Account!UserDeactivated, Account!CreateStub,
     Account!SuspendMember, Account!SetStatus, Account!Apply, Account!Exists, Account!TakeJob,
     Account!GrowOld, Account!AssignVehicle, Account!ReadFleet, Account!CacheAnswer,
     Account!ExpireAnswer, Account!TypeOK, Account!Member
<1>2. ASSUME NEW r \in Requests,
             \/ \E staff \in BOOLEAN : Account!InviteMember(r, staff)
             \/ \E v \in Account!Vehicle : Account!Onboard(r, v)
             \/ Account!GrantDriverRole(r) \/ Account!ReadEmployment(r)
             \/ \E kycChanged \in BOOLEAN : Account!ReadProfile(r, kycChanged)
             \/ Account!ScanStale(r) \/ Account!DeleteStaleVehicle(r) \/ Account!Abandon(r)
      PROVE  FALSE
  BY <1>2 DEF Account!InviteMember, Account!Onboard, Account!Exists, Account!GrantDriverRole,
     Account!ReadEmployment, Account!ReadProfile, Account!ScanStale,
     Account!DeleteStaleVehicle, Account!Abandon, Account!TypeOK, Account!Member
<1>3. ASSUME NEW r \in Requests, NEW staff \in BOOLEAN, Account!WriteEmployment(r, staff)
      PROVE  Overtaken(r)
  <2>1. staff /\ Account!NeedsKYC(call[r].status)
    BY <1>3 DEF Account!WriteEmployment, Account!TypeOK, Account!Member
  <2>2. call[r].op = "employment" /\ call'[r].op = "grant"
    BY <1>3, <2>1 DEF Account!WriteEmployment, Account!Granting, Account!TypeOK
  <2> QED BY <2>1, <2>2 DEF Account!NeedsKYC
<1>4. ASSUME NEW r \in Requests, NEW plate \in BOOLEAN, Account!WriteProfile(r, plate)
      PROVE  Overtaken(r)
  <2>1. call[r].op = "review"
    BY <1>4 DEF Account!WriteProfile, Account!TypeOK, Account!Member
  <2>2. call'[r].op = "idle"
    BY <1>4 DEF Account!WriteProfile, Account!Return, Account!Idle, Account!TypeOK
  <2> QED BY <2>1, <2>2 DEF DecidedBefore
<1>5. ASSUME NEW r \in Requests, Account!DeleteStaleMember(r) PROVE Overtaken(r)
  <2>1. call[r].op = "cleanupMember" /\ call'[r].op = "idle"
    BY <1>5 DEF Account!DeleteStaleMember, Account!DropMember, Account!Return, Account!Idle,
       Account!TypeOK
  <2> QED BY <2>1 DEF DecidedBefore
<1> QED BY <1>1, <1>2, <1>3, <1>4, <1>5 DEF Account!Next

LEMMA SuspensionKept == AccountSteps => SuspensionSticks
<1>1. Account!Init => DecidedBefore
  BY DEF Account!Init, DecidedBefore, Account!Idle
<1>2. Account!TypeOK /\ DecidedBefore /\ [Account!Next]_accountVars =>
        [member.status = "suspended" /\ member'.status # "suspended" =>
          \/ Account!RejectMember \/ Account!DeleteMember \/ Account!UserDeleted
          \/ \E r \in Requests :
                \/ Account!ApproveMember(r)
                \/ call[r].op # "idle" /\ call[r].status # "suspended"
                   /\ call'[r] # call[r]]_accountVars
  BY EndsSuspension
<1> QED
  BY <1>1, <1>2, AccountTypesOf, DecidedNext, PTL
  DEF AccountSteps, Account!vars, accountVars, SuspensionSticks, Account!SuspensionSticks

\* A profile save, a change of terms, an account event or the clean-up never
\* releases a suspended rider, for any number of handlers that read the row while
\* the desk suspends him.
THEOREM SuspendedStaysSuspended == Account!Spec => SuspensionSticks
<1> QED
  BY AccountSafe, SuspensionKept, PTL

-----------------------------------------------------------------------------
(* The purge of a tenant *)

\* The tables, what they refer to, and the roots their rows hang on.
LEMMA PurgeTables ==
    /\ Purge!Table = {"task_events", "task_steps", "task_assignments", "proof_of_deliveries",
                      "rider_ratings", "chain_of_custodies", "telemetry_points",
                      "user_role_assignments", "tasks", "telemetry_streams", "shipments",
                      "fleet_members", "vehicles", "fleets", "shifts", "users", "tenants"}
    /\ \A u \in Purge!Table : Purge!Refers[u] \subseteq Purge!Table
    /\ \A u \in Purge!Scoped : /\ u \in Purge!Table
                               /\ Purge!RootOf[u] \in Purge!Refers[u]
                               /\ Purge!RootOf[u] \in Purge!Roots
<1>1. Purge!Table = {"task_events", "task_steps", "task_assignments", "proof_of_deliveries",
                      "rider_ratings", "chain_of_custodies", "telemetry_points",
                      "user_role_assignments", "tasks", "telemetry_streams", "shipments",
                      "fleet_members", "vehicles", "fleets", "shifts", "users", "tenants"}
  BY DEF Purge!Table, Purge!Refers
<1>2. \A u \in Purge!Table : Purge!Refers[u] \subseteq Purge!Table
  BY <1>1 DEF Purge!Refers
<1>3. ASSUME NEW u \in Purge!Scoped
      PROVE  u \in Purge!Table /\ Purge!RootOf[u] \in Purge!Refers[u]
  BY <1>1 DEF Purge!Scoped, Purge!RootOf, Purge!Refers
<1>4. \A u \in Purge!Scoped : Purge!RootOf[u] \in Purge!Roots
  BY DEF Purge!Roots
<1> QED BY <1>1, <1>2, <1>3, <1>4

\* Children before parents.
LEMMA PurgeOrder ==
    /\ Len(Purge!Order) = 17
    /\ \A k \in 1 .. 17 : Purge!Order[k] \in Purge!Table
    /\ \A k \in 1 .. 17, u \in Purge!Table :
          Purge!Order[k] \in Purge!Refers[u] => \E i \in 1 .. k - 1 : Purge!Order[i] = u
<1>1. Len(Purge!Order) = 17
  BY DEF Purge!Order
<1>2. \A k \in 1 .. 17 : Purge!Order[k] \in Purge!Table
  BY PurgeTables DEF Purge!Order
<1>3. ASSUME NEW k \in 1 .. 17
      PROVE  /\ Purge!Order[k] = "tasks" => k = 9
             /\ Purge!Order[k] = "telemetry_streams" => k = 10
             /\ Purge!Order[k] = "shipments" => k = 11
             /\ Purge!Order[k] = "fleet_members" => k = 12
             /\ Purge!Order[k] = "fleets" => k = 14
             /\ Purge!Order[k] = "users" => k = 16
             /\ Purge!Order[k] = "tenants" => k = 17
  BY DEF Purge!Order
<1>4. /\ Purge!Order[1] = "task_events" /\ Purge!Order[2] = "task_steps"
      /\ Purge!Order[3] = "task_assignments" /\ Purge!Order[4] = "proof_of_deliveries"
      /\ Purge!Order[5] = "rider_ratings" /\ Purge!Order[6] = "chain_of_custodies"
      /\ Purge!Order[7] = "telemetry_points" /\ Purge!Order[8] = "user_role_assignments"
      /\ Purge!Order[12] = "fleet_members" /\ Purge!Order[13] = "vehicles"
      /\ Purge!Order[16] = "users"
  BY DEF Purge!Order
<1>5. ASSUME NEW k \in 1 .. 17, NEW u \in Purge!Table, Purge!Order[k] \in Purge!Refers[u]
      PROVE  \E i \in 1 .. k - 1 : Purge!Order[i] = u
  <2>1. CASE u \in {"task_events", "task_steps", "task_assignments", "proof_of_deliveries"}
    BY <1>3, <1>4, <1>5, <2>1 DEF Purge!Refers
  <2>2. CASE u \in {"rider_ratings", "chain_of_custodies", "telemetry_points"}
    BY <1>3, <1>4, <1>5, <2>2 DEF Purge!Refers
  <2>3. CASE u \in {"user_role_assignments", "fleet_members", "vehicles", "users"}
    BY <1>3, <1>4, <1>5, <2>3 DEF Purge!Refers
  <2>4. CASE u \in {"tasks", "telemetry_streams", "shipments", "fleets", "shifts", "tenants"}
    BY <1>5, <2>4 DEF Purge!Refers
  <2> QED BY <2>1, <2>2, <2>3, <2>4, PurgeTables
<1> QED BY <1>1, <1>2, <1>5

\* A table is reached by its own column of Row.
LEMMA PurgeRow ==
    \A r \in Purge!Row : r[1] \in Purge!Table /\ r = <<r[1], r[2]>>
  BY DEF Purge!Row

\* The event is pending while its purge runs, and is not begun a sixth time.
PurgeTypes ==
    /\ Purge!TypeOK
    /\ Purge!Running => pending
    /\ pending /\ ~Purge!Running => deliveries < Purge!MaxDeliver

LEMMA PurgeTypesNext == PurgeTypes /\ [Purge!Next]_purgeVars => PurgeTypes'
<1> SUFFICES ASSUME PurgeTypes, [Purge!Next]_purgeVars PROVE PurgeTypes'
  OBVIOUS
<1> USE BackOfficeAssumption
<1> USE DEF PurgeTypes, Purge!TypeOK, Purge!Running, Purge!MaxDeliver
<1>1. CASE UNCHANGED purgeVars
  BY <1>1 DEF purgeVars
<1>2. CASE Purge!Begin
  <2>1. roots' \subseteq Purge!Roots \X {"old", "new"}
    BY <1>2, PurgeRow DEF Purge!Begin, Purge!Row, Purge!Batch
  <2>2. deliveries' \in 0 .. 5 /\ step' = 1 /\ pending' = pending
    BY <1>2 DEF Purge!Begin
  <2>3. pending' \in BOOLEAN /\ disturbed' \in BOOLEAN
    BY <1>2 DEF Purge!Begin
  <2>4. /\ rows' \subseteq Purge!Row /\ step' \in 0 .. 18 /\ gone' \subseteq Purge!Row
        /\ inserts' \in 0 .. MaxInserts /\ faults' \in 0 .. MaxFaults
    BY <1>2 DEF Purge!Begin
  <2>5. Purge!TypeOK'
    BY <2>1, <2>2, <2>3, <2>4
  <2>6. pending'
    BY <1>2 DEF Purge!Begin
  <2> QED BY <2>2, <2>5, <2>6
<1>3. CASE Purge!DeleteTable
  <2>1. gone' \subseteq Purge!Row
    BY <1>3 DEF Purge!DeleteTable, Purge!Victims, Purge!Visible
  <2> QED BY <1>3, <2>1, PurgeOrder DEF Purge!DeleteTable
<1>4. ASSUME Purge!Rollback, Purge!Running, faults' \in 0 .. MaxFaults PROVE PurgeTypes'
  <2>1. Purge!TypeOK'
    BY <1>4 DEF Purge!Rollback, Purge!Again
  <2>2. step' = 0 /\ (pending' => deliveries' < 5)
    BY <1>4 DEF Purge!Rollback, Purge!Again
  <2> QED BY <2>1, <2>2
<1>5. CASE Purge!Fail
  BY <1>4, <1>5 DEF Purge!Fail
<1>6. CASE Purge!Outage
  BY <1>4, <1>6 DEF Purge!Outage
<1>7. ASSUME NEW acked \in BOOLEAN, Purge!Commit(acked) PROVE PurgeTypes'
  <2>1. rows' \subseteq Purge!Row
    BY <1>7 DEF Purge!Commit, Purge!Visible
  <2>2. faults' \in 0 .. MaxFaults
    BY <1>7 DEF Purge!Commit
  <2>3. pending' \in {FALSE, Purge!Again}
    BY <1>7 DEF Purge!Commit
  <2>4. Purge!Again \in BOOLEAN
    BY DEF Purge!Again
  <2>5. disturbed' \in BOOLEAN
    BY <1>7 DEF Purge!Commit
  <2>6. pending' \in BOOLEAN /\ disturbed' \in BOOLEAN
    BY <2>3, <2>4, <2>5
  <2>7. /\ roots' = {} /\ step' = 0 /\ gone' = {} /\ deliveries' \in 0 .. 5
        /\ inserts' \in 0 .. MaxInserts
    BY <1>7 DEF Purge!Commit
  <2>8. Purge!TypeOK'
    BY <2>1, <2>2, <2>6, <2>7
  <2>9. step' = 0 /\ (pending' => deliveries' < 5)
    BY <1>7 DEF Purge!Commit, Purge!Again
  <2> QED BY <2>8, <2>9
<1>8. ASSUME NEW r \in Purge!Row, Purge!Insert(r) PROVE PurgeTypes'
  BY <1>8 DEF Purge!Insert
<1> QED BY <1>1, <1>2, <1>3, <1>5, <1>6, <1>7, <1>8 DEF Purge!Next

\* Every row finds the rows it refers to.
RefsHold(present) ==
    \A r \in present : \A t \in Purge!Refers[r[1]] :
        \E s \in present : s[1] = t /\ Purge!RefersTo(r, s)

\* What a purge has seen and done so far, as long as nobody inserted a row.
PurgeProgress ==
    ~disturbed /\ Purge!Running =>
        /\ roots = {r \in rows : r[1] \in Purge!Roots}
        /\ \A i \in 1 .. step - 1 : \A r \in Purge!Visible : r[1] # Purge!Order[i]

\* The committed rows and what the open transaction leaves of them are consistent.
PurgeInv == RefsHold(rows) /\ RefsHold(Purge!Visible) /\ PurgeProgress

\* A delete that no foreign key refuses leaves no row without what it refers to.
LEMMA DeleteKeepsRefs ==
    ASSUME PurgeTypes, RefsHold(Purge!Visible), Purge!DeleteTable
    PROVE  RefsHold(Purge!Visible')
<1> DEFINE gonner == Purge!Victims(Purge!Order[step])
<1>1. Purge!Visible' = Purge!Visible \ gonner
  BY DEF Purge!DeleteTable, Purge!Visible
<1>2. SUFFICES ASSUME NEW r \in Purge!Visible', NEW t \in Purge!Refers[r[1]]
               PROVE  \E s \in Purge!Visible' : s[1] = t /\ Purge!RefersTo(r, s)
  BY DEF RefsHold
<1>3. PICK s \in Purge!Visible : s[1] = t /\ Purge!RefersTo(r, s)
  BY <1>1 DEF RefsHold
<1>4. s \notin gonner
  BY <1>1, <1>3 DEF Purge!DeleteTable, Purge!Refused
<1> QED BY <1>1, <1>3, <1>4

\* An undisturbed purge leaves nothing in the table it deletes.
LEMMA DeleteEmptiesTable ==
    ASSUME PurgeTypes, PurgeInv, ~disturbed, step \in 1 .. 17, NEW r \in Purge!Visible,
           r[1] = Purge!Order[step]
    PROVE  r \in Purge!Victims(Purge!Order[step])
<1>1. roots = {x \in rows : x[1] \in Purge!Roots}
  BY DEF PurgeInv, PurgeProgress, Purge!Running
<1>2. ASSUME r[1] \in Purge!Scoped PROVE <<Purge!RootOf[r[1]], r[2]>> \in roots
  <2> DEFINE t == Purge!RootOf[r[1]]
  <2>1. t \in Purge!Refers[r[1]] /\ t \in Purge!Roots
    BY <1>2, PurgeTables
  <2>2. PICK s \in rows : s[1] = t /\ Purge!RefersTo(r, s)
    BY <2>1 DEF PurgeInv, RefsHold, Purge!Visible
  <2>3. s = <<t, r[2]>>
    BY <2>1, <2>2, PurgeRow DEF Purge!RefersTo, PurgeTypes, Purge!TypeOK
  <2> QED BY <1>1, <2>1, <2>2, <2>3
<1> QED BY <1>2 DEF Purge!Victims

LEMMA PurgeInvNext == PurgeTypes /\ PurgeInv /\ [Purge!Next]_purgeVars => PurgeInv'
<1> SUFFICES ASSUME PurgeTypes, PurgeInv, [Purge!Next]_purgeVars PROVE PurgeInv'
  OBVIOUS
<1>1. CASE UNCHANGED purgeVars
  BY <1>1 DEF purgeVars, PurgeInv, RefsHold, PurgeProgress, Purge!Visible, Purge!Running
<1>2. CASE Purge!Begin
  BY <1>2 DEF Purge!Begin, PurgeInv, RefsHold, PurgeProgress, Purge!Visible, Purge!Running
<1>3. CASE Purge!DeleteTable
  <2>1. RefsHold(Purge!Visible')
    BY <1>3, DeleteKeepsRefs DEF PurgeInv
  <2>2. RefsHold(rows)'
    BY <1>3 DEF Purge!DeleteTable, PurgeInv, RefsHold
  <2>3. ASSUME ~disturbed', NEW i \in 1 .. step' - 1, NEW r \in Purge!Visible'
        PROVE  r[1] # Purge!Order[i]
    <3>1. r \in Purge!Visible /\ r \notin Purge!Victims(Purge!Order[step])
      BY <1>3, <2>3 DEF Purge!DeleteTable, Purge!Visible
    <3>2. step \in 1 .. 17 /\ step' = step + 1 /\ ~disturbed
      BY <1>3, <2>3, PurgeOrder DEF Purge!DeleteTable
    <3>3. CASE i = step
      BY <3>1, <3>2, <3>3, DeleteEmptiesTable
    <3>4. CASE i \in 1 .. step - 1
      BY <3>1, <3>2, <3>4 DEF PurgeInv, PurgeProgress, Purge!Running
    <3> QED BY <3>2, <3>3, <3>4
  <2>4. PurgeProgress'
    BY <1>3, <2>3, PurgeOrder
    DEF Purge!DeleteTable, PurgeInv, PurgeProgress, Purge!Running
  <2> QED BY <2>1, <2>2, <2>4 DEF PurgeInv, RefsHold
<1>4. CASE Purge!Fail \/ Purge!Outage
  BY <1>4 DEF Purge!Fail, Purge!Outage, Purge!Rollback, PurgeInv, RefsHold, PurgeProgress,
     Purge!Visible, Purge!Running
<1>5. ASSUME NEW acked \in BOOLEAN, Purge!Commit(acked) PROVE PurgeInv'
  <2>1. rows' = Purge!Visible /\ Purge!Visible' = Purge!Visible /\ ~Purge!Running'
    BY <1>5 DEF Purge!Commit, Purge!Visible, Purge!Running
  <2> QED BY <2>1 DEF PurgeInv, RefsHold, PurgeProgress
<1>6. ASSUME NEW r \in Purge!Row, Purge!Insert(r) PROVE PurgeInv'
  <2>1. Purge!Visible' = Purge!Visible \cup {r} /\ rows' = rows \cup {r} /\ disturbed'
    BY <1>6 DEF Purge!Insert, Purge!Visible
  <2>2. \A t \in Purge!Refers[r[1]] : \E s \in Purge!Visible : s[1] = t /\ Purge!RefersTo(r, s)
    BY <1>6 DEF Purge!Insert
  <2>3. Purge!Visible \subseteq rows
    BY DEF Purge!Visible
  <2>4. RefsHold(rows)'
    BY <2>1, <2>2, <2>3 DEF PurgeInv, RefsHold
  <2>5. RefsHold(Purge!Visible)'
    BY <2>1, <2>2 DEF PurgeInv, RefsHold
  <2> QED BY <2>1, <2>4, <2>5 DEF PurgeInv, PurgeProgress
<1> QED BY <1>1, <1>2, <1>3, <1>4, <1>5, <1>6 DEF Purge!Next

LEMMA PurgeInit == Purge!Init => PurgeTypes /\ PurgeInv
<1> SUFFICES ASSUME Purge!Init PROVE PurgeTypes /\ PurgeInv
  OBVIOUS
<1>1. PurgeTypes
  <2>1. rows \subseteq Purge!Row
    BY DEF Purge!Init, Purge!Row, Purge!Batch
  <2>2. roots \subseteq Purge!Roots \X {"old", "new"} /\ gone \subseteq Purge!Row
    BY DEF Purge!Init
  <2>3. step = 0 /\ deliveries = 0 /\ inserts \in 0 .. MaxInserts /\ faults \in 0 .. MaxFaults
    BY BackOfficeAssumption DEF Purge!Init
  <2>4. pending \in BOOLEAN /\ disturbed \in BOOLEAN
    BY DEF Purge!Init
  <2> QED
    BY <2>1, <2>2, <2>3, <2>4
    DEF PurgeTypes, Purge!TypeOK, Purge!Running, Purge!MaxDeliver
<1>2. RefsHold(rows)
  <2> SUFFICES ASSUME NEW u \in Purge!Table, NEW t \in Purge!Refers[u]
               PROVE  \E s \in rows : s[1] = t /\ Purge!RefersTo(<<u, "old">>, s)
    BY DEF Purge!Init, RefsHold
  <2>1. <<t, "old">> \in rows
    BY PurgeTables DEF Purge!Init
  <2> QED BY <2>1 DEF Purge!RefersTo
<1>3. Purge!Visible = rows /\ ~Purge!Running
  BY DEF Purge!Init, Purge!Visible, Purge!Running
<1> QED BY <1>1, <1>2, <1>3 DEF PurgeInv, PurgeProgress

LEMMA PurgeAlways == Purge!Spec => [](PurgeTypes /\ PurgeInv)
<1> QED
  BY PurgeInit, PurgeTypesNext, PurgeInvNext, PTL DEF Purge!Spec, Purge!vars, purgeVars

\* Whatever rows the tenant has, and whatever fails and is delivered again, no
\* foreign key refuses a delete of a purge that nobody inserted a row into.
THEOREM ChildrenGoFirst == Purge!Spec => []OrderRespectsForeignKeys
<1>1. ASSUME PurgeTypes, PurgeInv PROVE OrderRespectsForeignKeys
  <2> SUFFICES ASSUME step \in 1 .. 17, ~disturbed,
                      NEW r \in Purge!Victims(Purge!Order[step]),
                      NEW s \in Purge!Visible \ Purge!Victims(Purge!Order[step]),
                      Purge!RefersTo(s, r)
               PROVE  FALSE
    BY PurgeOrder DEF OrderRespectsForeignKeys, Purge!OrderRespectsForeignKeys, Purge!Refused
  <2>1. s[1] \in Purge!Table /\ Purge!Order[step] \in Purge!Refers[s[1]]
    BY <1>1, PurgeRow
    DEF Purge!RefersTo, Purge!Victims, Purge!Visible, PurgeTypes, Purge!TypeOK
  <2>2. PICK i \in 1 .. step - 1 : Purge!Order[i] = s[1]
    BY <2>1, PurgeOrder
  <2> QED BY <1>1, <2>2 DEF PurgeInv, PurgeProgress, Purge!Running
<1> QED BY <1>1, PurgeAlways, PTL

-----------------------------------------------------------------------------
(* Types of the other components *)

\* What the mirror writes is an outlet or none.
LEMMA MirrorRows ==
    ASSUME Mirror!TypeOK
    PROVE  /\ Mirror!ArchiveOutlet \in Mirror!Outlet \cup {Mirror!NoOutlet}
           /\ \A o \in Mirror!Outlet : Mirror!UpsertOutlet(o) \in Mirror!Outlet \cup {Mirror!NoOutlet}
<1>1. row = Mirror!NoOutlet \/ row \in Mirror!Outlet
  BY DEF Mirror!TypeOK
<1>2. row \in Mirror!Outlet =>
         /\ [row EXCEPT !.archived = TRUE] \in Mirror!Outlet
         /\ row.pin \in Mirror!Pin
  BY DEF Mirror!Outlet
<1>3. Mirror!NoOutlet.pin \in Mirror!Pin
  BY DEF Mirror!NoOutlet, Mirror!Pin
<1>4. \A o \in Mirror!Outlet, pin \in Mirror!Pin : [o EXCEPT !.pin = pin] \in Mirror!Outlet
  BY DEF Mirror!Outlet
<1> QED
  BY <1>1, <1>2, <1>3, <1>4 DEF Mirror!ArchiveOutlet, Mirror!UpsertOutlet

LEMMA MirrorTypeNext == Mirror!TypeOK /\ [Mirror!Next]_mirrorVars => Mirror!TypeOK'
<1> SUFFICES ASSUME Mirror!TypeOK, [Mirror!Next]_mirrorVars PROVE Mirror!TypeOK'
  OBVIOUS
<1>1. CASE UNCHANGED mirrorVars
  BY <1>1 DEF mirrorVars, Mirror!TypeOK
<1>2. ASSUME NEW o \in Mirror!Outlet, Mirror!Change(o) PROVE Mirror!TypeOK'
  <2>1. events' \subseteq Mirror!Event
    BY <1>2 DEF Mirror!Change, Mirror!TypeOK, Mirror!Event, Mirror!Outlet
  <2>2. changes' \in 0 .. MaxChanges
    BY <1>2, BackOfficeAssumption DEF Mirror!Change, Mirror!TypeOK
  <2> QED BY <1>2, <2>1, <2>2 DEF Mirror!Change, Mirror!TypeOK
<1>3. ASSUME NEW e \in events, NEW acked \in BOOLEAN,
             Mirror!Handle(e, acked) \/ Mirror!Abandon(e)
      PROVE  Mirror!TypeOK'
  <2>1. e.outlet \in Mirror!Outlet
    BY DEF Mirror!TypeOK, Mirror!Event
  <2>2. row' \in Mirror!Outlet \cup {Mirror!NoOutlet}
    BY <1>3, <2>1, MirrorRows DEF Mirror!Handle, Mirror!Abandon, Mirror!TypeOK
  <2>3. events' \subseteq Mirror!Event
    BY <1>3 DEF Mirror!Handle, Mirror!Abandon, Mirror!TypeOK
  <2> QED BY <1>3, <2>2, <2>3 DEF Mirror!Handle, Mirror!Abandon, Mirror!TypeOK
<1>4. CASE Mirror!ReadList
  BY <1>4 DEF Mirror!ReadList, Mirror!Listed, Mirror!TypeOK
<1>5. CASE Mirror!WriteList
  <2>1. row' \in Mirror!Outlet \cup {Mirror!NoOutlet}
    BY <1>5, MirrorRows DEF Mirror!WriteList, Mirror!TypeOK
  <2> QED BY <1>5, <2>1 DEF Mirror!WriteList, Mirror!TypeOK
<1>6. CASE Mirror!GiveUp \/ Mirror!LearnTenant \/ Mirror!Purge \/ Mirror!ChangePlan
  BY <1>6 DEF Mirror!GiveUp, Mirror!LearnTenant, Mirror!Purge, Mirror!ChangePlan, Mirror!TypeOK
<1> QED
  BY <1>1, <1>2, <1>3, <1>4, <1>5, <1>6
  DEF Mirror!Next, Mirror!Edit, Mirror!Consume, Mirror!Redeliver

LEMMA MirrorTypeInit == Mirror!Init => Mirror!TypeOK
  BY BackOfficeAssumption DEF Mirror!Init, Mirror!TypeOK

\* A scan that listed the task has found it late.
AlertTypes ==
    /\ Alerts!TypeOK
    /\ \A s \in Scans : scan[s] # "idle" => late \in 1 .. 4

LEMMA AlertTypesNext == AlertTypes /\ [Alerts!Next]_alertVars => AlertTypes'
<1> SUFFICES ASSUME AlertTypes, [Alerts!Next]_alertVars PROVE AlertTypes'
  OBVIOUS
<1> USE DEF AlertTypes, Alerts!TypeOK, Alerts!Levels, Alerts!Step
<1>1. CASE UNCHANGED alertVars
  BY <1>1 DEF alertVars
<1>2. ASSUME NEW s \in Scans, Alerts!Scan(s) PROVE AlertTypes'
  <2>1. CASE Alerts!List(s)
    BY <2>1 DEF Alerts!List, Alerts!Overdue
  <2>2. CASE Alerts!Claim(s)
    BY <2>2 DEF Alerts!Claim
  <2>3. CASE Alerts!LookForAlert(s)
    BY <2>3 DEF Alerts!LookForAlert
  <2>4. CASE Alerts!CreateAlert(s)
    BY <2>4 DEF Alerts!CreateAlert
  <2> QED BY <1>2, <2>1, <2>2, <2>3, <2>4 DEF Alerts!Scan
<1>3. ASSUME NEW s \in Scans, Alerts!Lose(s) PROVE AlertTypes'
  BY <1>3, BackOfficeAssumption DEF Alerts!Lose
<1>4. CASE Alerts!Tick
  BY <1>4, BackOfficeAssumption DEF Alerts!Tick
<1>5. CASE Alerts!Finish
  BY <1>5 DEF Alerts!Finish
<1>6. CASE Alerts!MarkRead
  BY <1>6 DEF Alerts!MarkRead
<1>7. CASE Alerts!MarkAllRead
  BY <1>7 DEF Alerts!MarkAllRead
<1> QED BY <1>1, <1>2, <1>3, <1>4, <1>5, <1>6, <1>7 DEF Alerts!Next

LEMMA AlertTypesInit == Alerts!Init => AlertTypes
  BY BackOfficeAssumption DEF Alerts!Init, AlertTypes, Alerts!TypeOK, Alerts!Levels, Alerts!Step

\* Every writer that has not invalidated yet has changed the configuration once.
CacheTypes == Cache!TypeOK /\ dropping < config

LEMMA CacheTypesNext == CacheTypes /\ [Cache!Next]_cacheVars => CacheTypes'
  BY BackOfficeAssumption
  DEF CacheTypes, Cache!TypeOK, Cache!Config, cacheVars, Cache!Next, Cache!Edit,
      Cache!SavePlatformPolicy, Cache!Invalidate, Cache!LoseInvalidate, Cache!Load, Cache!Store,
      Cache!Expire

LEMMA CacheTypesInit == Cache!Init => CacheTypes
  BY BackOfficeAssumption DEF Cache!Init, CacheTypes, Cache!TypeOK, Cache!Config

\* The smaller of two ages.
LEMMA MinOfAges ==
    ASSUME NEW a \in Tracking!Age, NEW b \in Tracking!Age
    PROVE  Tracking!Min({a, b}) \in Tracking!Age
<1>1. a \in Int /\ b \in Int
  BY BackOfficeAssumption DEF Tracking!Age
<1>2. \E x \in {a, b} : \A y \in {a, b} : x <= y
  BY <1>1
<1> QED BY <1>2 DEF Tracking!Min

\* A request that is to save a point names a stream.
LEMMA TrackingTypeNext == Tracking!TypeOK /\ [Tracking!Next]_trackingVars => Tracking!TypeOK'
<1> SUFFICES ASSUME Tracking!TypeOK, [Tracking!Next]_trackingVars PROVE Tracking!TypeOK'
  OBVIOUS
<1> USE BackOfficeAssumption
<1> DEFINE Row == Tracking!Stream \cup {Tracking!NoStream}
<1>1. CASE UNCHANGED trackingVars
  BY <1>1 DEF trackingVars, Tracking!TypeOK
<1>0. /\ Tracking!Oldest \in Tracking!Age
      /\ 0 \in Tracking!Age
      /\ \A age \in Tracking!Age : Tracking!Older(age) \in Tracking!Age
  BY DEF Tracking!Oldest, Tracking!Age, Tracking!Older
<1>R. /\ Tracking!NewStream \in Row
      /\ \A x \in Row, age \in Tracking!Age : x # Tracking!NoStream =>
            /\ [x EXCEPT !.last = age] \in Row
            /\ [x EXCEPT !.status = "ended"] \in Row
            /\ x.last \in Tracking!Age /\ x.age \in Tracking!Age
  BY <1>0 DEF Tracking!Stream, Tracking!NewStream
<1>I. \A s \in Streams : <<"save", s>> \in Tracking!Ping
  BY DEF Tracking!Ping
<1>J. Tracking!Idle \in Tracking!Ping /\ <<"create">> \in Tracking!Ping
  BY DEF Tracking!Ping, Tracking!Idle
<1>2. ASSUME NEW p \in Pings, Tracking!Find(p) PROVE Tracking!TypeOK'
  BY <1>2, <1>I, <1>J
  DEF Tracking!Find, Tracking!Newest, Tracking!Active, Tracking!TypeOK
<1>3. ASSUME NEW p \in Pings, Tracking!Open(p) PROVE Tracking!TypeOK'
  BY <1>3, <1>R, <1>I DEF Tracking!Open, Tracking!TypeOK
<1>4. ASSUME NEW p \in Pings, NEW taken \in Tracking!Age, Tracking!SavePoint(p, taken)
      PROVE  Tracking!TypeOK'
  <2>1. ping' \in [Pings -> Tracking!Ping]
    BY <1>4, <1>J DEF Tracking!SavePoint, Tracking!TypeOK
  <2> DEFINE s == ping[p][2]
  <2>2. s \in Streams
    BY <1>4 DEF Tracking!SavePoint, Tracking!TypeOK, Tracking!Ping
  <2>3. CASE streams[s] = Tracking!NoStream
    BY <1>4, <2>1, <2>3 DEF Tracking!SavePoint, Tracking!TypeOK
  <2>4. CASE streams[s] # Tracking!NoStream
    <3> DEFINE age == Tracking!Min({streams[s].last, taken})
    <3>1. streams[s] \in Row /\ streams[s].last \in Tracking!Age
      BY <1>R, <2>2, <2>4 DEF Tracking!TypeOK
    <3>2. age \in Tracking!Age
      BY <3>1, MinOfAges
    <3>3. streams' = [streams EXCEPT ![s].last = age]
      BY <1>4, <2>4 DEF Tracking!SavePoint
    <3> HIDE DEF age
    <3>4. streams' \in [Streams -> Row]
      BY <1>R, <2>2, <2>4, <3>1, <3>2, <3>3 DEF Tracking!TypeOK
    <3> QED BY <1>4, <2>1, <3>4 DEF Tracking!SavePoint, Tracking!TypeOK
  <2> QED BY <2>3, <2>4
<1>5. ASSUME NEW p \in Pings, Tracking!Fail(p) PROVE Tracking!TypeOK'
  BY <1>5, <1>J DEF Tracking!Fail, Tracking!TypeOK
<1>6. CASE Tracking!EndStream \/ Tracking!EndStale
  <2>1. \A s \in Tracking!Active : s \in Streams /\ streams[s] # Tracking!NoStream
    BY DEF Tracking!Active, Tracking!NoStream
  <2>2. \A s \in Tracking!Active : [streams[s] EXCEPT !.status = "ended"] \in Row
    BY <1>R, <1>0, <2>1 DEF Tracking!TypeOK
  <2>3. streams' \in [Streams -> Row]
    BY <1>6, <2>2 DEF Tracking!EndStream, Tracking!EndStale, Tracking!TypeOK
  <2> QED BY <1>6, <2>3 DEF Tracking!EndStream, Tracking!EndStale, Tracking!TypeOK
<1>7. CASE Tracking!StartPrune \/ Tracking!StopPrune
  BY <1>7 DEF Tracking!StartPrune, Tracking!StopPrune, Tracking!TypeOK
<1>8. CASE Tracking!DropPoints
  <2>1. [Tracking!NoStream EXCEPT !.last = Tracking!Oldest] = Tracking!NoStream
    BY DEF Tracking!NoStream
  <2>2. \A s \in Streams : [streams[s] EXCEPT !.last = Tracking!Oldest] \in Row
    BY <1>R, <1>0, <2>1 DEF Tracking!TypeOK
  <2>3. streams' \in [Streams -> Row]
    BY <1>8, <2>2 DEF Tracking!DropPoints, Tracking!TypeOK
  <2> QED BY <1>8, <2>3 DEF Tracking!DropPoints, Tracking!TypeOK
<1>9. CASE Tracking!DropStreams
  BY <1>9 DEF Tracking!DropStreams, Tracking!TypeOK
<1>10. CASE Tracking!Tick
  <2>1. \A x \in Row : x # Tracking!NoStream =>
           [x EXCEPT !.age = Tracking!Older(@), !.last = Tracking!Older(@)] \in Row
    BY <1>0 DEF Tracking!Stream
  <2>2. streams' \in [Streams -> Row]
    BY <1>10, <2>1 DEF Tracking!Tick, Tracking!TypeOK
  <2> QED BY <1>10, <2>2 DEF Tracking!Tick, Tracking!TypeOK
<1> QED
  BY <1>1, <1>2, <1>3, <1>4, <1>5, <1>6, <1>7, <1>8, <1>9, <1>10
  DEF Tracking!Next, Tracking!Retain

LEMMA TrackingTypeInit == Tracking!Init => Tracking!TypeOK
  BY BackOfficeAssumption DEF Tracking!Init, Tracking!TypeOK, Tracking!Ping, Tracking!Idle

\* Whichever component moves, every variable keeps its type.
THEOREM EveryComponentTyped == MCSpec => []MCTypeOK
<1> DEFINE Inv == /\ focus \in Components /\ TypeOK /\ Account!TypeOK /\ Mirror!TypeOK
                  /\ AlertTypes /\ PurgeTypes /\ CacheTypes /\ Tracking!TypeOK
<1>1. MCInit => Inv
  BY TypeInit, AccountTypeInit, MirrorTypeInit, AlertTypesInit, PurgeInit, CacheTypesInit,
     TrackingTypeInit DEF MCInit
<1>2. Inv /\ [MCNext]_allVars => Inv'
  <2> SUFFICES ASSUME Inv, [MCNext]_allVars PROVE Inv'
    OBVIOUS
  <2>1. /\ [Next]_vars /\ [Account!Next]_accountVars /\ [Mirror!Next]_mirrorVars
        /\ [Alerts!Next]_alertVars /\ [Purge!Next]_purgeVars /\ [Cache!Next]_cacheVars
        /\ [Tracking!Next]_trackingVars /\ UNCHANGED focus
    BY DEF MCNext, allVars
  <2> QED
    BY <2>1, TypeNext, AccountTypeNext, MirrorTypeNext, AlertTypesNext, PurgeTypesNext,
       CacheTypesNext, TrackingTypeNext
<1>3. Inv => MCTypeOK
  BY DEF MCTypeOK, AlertTypes, PurgeTypes, CacheTypes
<1> QED BY <1>1, <1>2, <1>3, PTL DEF MCSpec

\* What is proved of the components holds of the composition, in which one of them
\* moves at a time.
THEOREM BackOfficeHolds ==
    MCSpec =>
        /\ []OneRuleForJobs /\ []InsuredVehicleWorks /\ []HandInactiveStays /\ []OneNoticeEach
        /\ []RoleFollowsRider /\ SuspensionSticks /\ []OrderRespectsForeignKeys
<1>1. MCInit => Init /\ Account!Init /\ Purge!Init
  BY DEF MCInit
<1>2. [MCNext]_allVars => [Next]_vars /\ [Account!Next]_accountVars /\ [Purge!Next]_purgeVars
  BY DEF MCNext, allVars
<1>3. MCSpec => Spec /\ AccountSteps /\ Purge!Spec
  BY <1>1, <1>2, PTL DEF MCSpec, Spec, AccountSteps, Purge!Spec, Purge!vars, purgeVars
<1> QED
  BY <1>3, RulesAgree, InsuredVehiclesWork, HandInactiveStaysOff, NoticesSentOnce, RoleAlways,
     SuspensionKept, ChildrenGoFirst, PTL
=============================================================================
