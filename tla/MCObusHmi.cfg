CONSTANTS
    b1 = b1
    b2 = b2
    b3 = b3
    f1 = f1
    f2 = f2
    f3 = f3
    d1 = d1
    d2 = d2
    Buses <- MCBuses
    FileOf <- MCFileOf
    DirOf <- MCDirOf
    Enabled0 <- MCEnabled0
    AutoReload <- MCAutoReload
    MaxItfs = 4
    MaxWds = 3
    MaxEdits = 2
    MaxTransports = 2
    MaxRx = 2
SPECIFICATION Spec
INVARIANTS
    BusesMatchRegistry
    StatusShowsConnection
    NoDeadTreeItem
PROPERTIES
    ReloadKeepsConnection
    DestroyReturns
CHECK_DEADLOCK FALSE
