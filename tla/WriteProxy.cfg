SPECIFICATION FairSpec
CONSTANTS
    Requests = {"r1", "r2"}
    Bodies <- MCBodies
    MaxBody = 1
    Slices = {s1, s2}
    NoSlice = NoSlice
    Garbled = Garbled
INVARIANTS
    TypeOK
    SliceOneUser
    
PROPERTIES
    IsWriteSpec
    
CHECK_DEADLOCK FALSE
