SPECIFICATION Spec
CONSTANTS
    NFiles = 2
    NDIRECT = 1
    NINDIRECT = 2
    WB = 8
    FSSIZE = 15
    Machines <- SmallCache
    MaxStops = 1
    Values = {1}
    MkfsValue = 3
INVARIANT MkfsFileReadsBack
