SPECIFICATION Spec
CONSTANTS
    Fan = 4
    NPD = 2
    MAX_PAGES = 24
    KernelPages = 6
    ModulePages = {8}
    Procs = {p1, p2}
    LinkPage = 28
    ImagePages = 1
    Breaks = {0, 2, 3, 383}
    MmioPage = 27
    NPorts = 1
    PortPages = 1
SYMMETRY Symmetry
INVARIANTS TypeOK KernelReachable MemoryKept FramesExclusive MappedUnlessFull
CHECK_DEADLOCK FALSE
