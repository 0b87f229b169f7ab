CONSTANTS
    Handles <- MCHandles
    Values <- MCValues
    CallHandleLimit = 3
    MaxCalls = 2
    MaxConns = 2
    MaxStarts = 2
    MaxSrvOps = 1
    AllowRefuse = TRUE
    UserCallsStale = FALSE
    CallPoints <- MCCallPoints
    SrvInit <- MCSrvInit
    NoObj = NoObj
    NoCall = NoCall
    Absent = Absent
SPECIFICATION Spec
INVARIANT TypeOK
INVARIANT AckMatchesCall
PROPERTY CallEventuallyResolved
CHECK_DEADLOCK FALSE
INVARIANT MirrorConsistent
INVARIANT RegistryOnlyWhenConnected
INVARIANT PacketsResolve
