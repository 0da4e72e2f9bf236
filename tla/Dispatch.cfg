SPECIFICATION MCSpec
CONSTANTS
    Riders = {1, 2, 3}
    Distance <- MCDistance
    Covering = {3}
    SearchLimit = 2
    Points <- MCPoints
    OutletAt <- MCOutletAt
    AreaInputs <- MCAreaInputs
    Policies <- MCPolicies
    MaxAreas = 3
    RuleIds = {1, 2}
    RuleInputs <- MCRuleInputs
    MaxKm = 5
    Handlers = {h1, h2}
    MaxCodeAttempts = 2
INVARIANTS
    
    EachKmAtItsRate
    StampsFitStatus

    
    
    
CHECK_DEADLOCK FALSE
