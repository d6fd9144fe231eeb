SPECIFICATION Spec
CONSTANTS
    AHCI_MAX_PORTS = 2
    NSlots = 2
    AHCI_IO_TIMEOUT = 2
    Lbas = {l1, l2}
    Values = {v1, v2}
    v1 = v1
    Disks <- MCDisks
    FreePages = {0, 3, 5, 8}
    NoRequest = NoRequest
INVARIANTS TypeOK DevicesReady
PROPERTIES NeverHangs ImplementsSectorStore
CHECK_DEADLOCK FALSE
