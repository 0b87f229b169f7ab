CONSTANTS
    Handles <- MCHandles
    Values <- MCValues
    CallHandleLimit = 3
    MaxCalls = 2
    MaxConns = 2
    MaxStarts = 1
    MaxSrvOps = 1
    AllowRefuse = TRUE
    UserCallsStale = TRUE
    CallPoints <- MCCallPointsRetry
    SrvInit <- MCSrvInit
    NoObj = NoObj
    NoCall = NoCall
    Absent = Absent
SPECIFICATION Spec
PROPERTY CallEventuallyResolved
CHECK_DEADLOCK FALSE
