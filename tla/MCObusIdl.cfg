CONSTANTS
    pa = pa
    pb = pb
    mx = mx
    ev = ev
    ew = ew
    a1 = a1
    a2 = a2
    bz = bz
    None = None
    Idls <- MCIdls
SPECIFICATION Spec
INVARIANTS
    
    DescriptorsAgree
CHECK_DEADLOCK FALSE
