CONSTANTS
    b1 = b1
    b2 = b2
    b3 = b3
    f1 = f1
    f2 = f2
    f3 = f3
    d1 = d1
    d2 = d2
    Buses <- MCBuses3
    FileOf <- MCFileOf3
    DirOf <- MCDirOf3
    Enabled0 <- MCEnabled03
    AutoReload <- MCAutoReload3
    MaxItfs = 6
    MaxWds = 4
    MaxEdits = 3
    MaxTransports = 2
    MaxRx = 0
SPECIFICATION Spec
PROPERTY WriteEventuallyNoticed
CHECK_DEADLOCK FALSE
