CONSTANTS
    ObjDescs <- MCObjDescs
    BusEvtUids = {1}
    EnumItems <- MCEnumItems
    ServerEnum <- MCServerEnum
    Packets <- MCPacketsKnown
    Buses <- MCBuses
    None = None
SPECIFICATION Spec
INVARIANTS
    DecodeMatchesSpec
CHECK_DEADLOCK FALSE
