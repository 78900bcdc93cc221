SPECIFICATION Spec
CONSTANTS
    Keys <- MCKeys
    Limit <- MCLimit
    WindowMs = 2
    MaxTrackedKeys = 1
    MaxTime = 2
    Users = {u1, u2}
    Nobody = Nobody
    Ttl = 1
    Mixes <- MCMixes
    MaxRequests = 3
INVARIANTS BudgetKept SessionsRightful AuditTrail SomebodyMoves

CHECK_DEADLOCK FALSE
