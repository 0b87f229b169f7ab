CONSTANTS
    MaxSocks = 3
    MaxPush = 1
SPECIFICATION Spec
PROPERTY ConnEventsAlternate
CHECK_DEADLOCK FALSE
