SPECIFICATION Spec
VIEW View
CONSTANTS
    NFiles = 2
    NDIRECT = 1
    NINDIRECT = 2
    WB = 8
    FSSIZE = 14
    Machines <- MCMachines
    MaxStops = 1
    Values = {1}
    MkfsValue = 3
INVARIANTS TypeOK BlocksOwnedOnce NothingLeaks FilesReadBack CacheIsDisk HaltsOnlyWhenFull
PROPERTY ReadsDoNotWrite
