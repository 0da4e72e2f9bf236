SPECIFICATION MCSpec
CONSTANTS
    Clerks = {c1}
    MaxDay = 2
    ReminderDays = 1
    Lookback = 2
    MaxNotices = 2
    Requests = {r1}
    MaxChanges = 2
    Scans = {s1, s2}
    MaxLost = 3
    MaxInserts = 2
    MaxFaults = 2
    Readers = {r1, r2}
    MaxEdits = 3
    Pings = {p1, p2}
    Streams = {t1, t2}
    Retention = 2
    MaxStops = 1
INVARIANTS
    MCTypeOK
    OneRuleForJobs
    InsuredVehicleWorks
    HandInactiveStays
    OneNoticeEach
    RoleFollowsRider
    OrderRespectsForeignKeys
PROPERTIES
    SuspensionSticks
    FleetGateRecovers
    MirrorConverges
    LateOrderHeard
    QuotesCatchUp
    StreamsEnd
CHECK_DEADLOCK FALSE
