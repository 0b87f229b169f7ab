CONSTANTS
    ObjDescs <- MCObjDescs
    BusEvtUids = {1}
    EnumItems <- MCEnumItems
    ServerEnum <- MCServerEnum
    Packets <- MCPacketsFuture
    Buses <- MCBuses
    None = None
SPECIFICATION Spec
INVARIANTS

    ClientNeverCrashes
CHECK_DEADLOCK FALSE
