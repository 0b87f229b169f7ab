CONSTANTS
    MaxSocks = 3
    MaxPush = 1
SPECIFICATION Spec
PROPERTY StopReturns
CHECK_DEADLOCK FALSE
