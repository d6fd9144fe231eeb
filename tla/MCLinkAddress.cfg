SPECIFICATION Spec
CONSTANTS
    Fan = 4
    NPD = 2
    MAX_PAGES = 26
    KernelPages = 6
    ModulePages = {8}
    Procs = {p1, p2}
    LinkPage = 20
    ImagePages = 1
    Breaks = {0, 2, 3}
    MmioPage = 27
    NPorts = 1
    PortPages = 1
SYMMETRY Symmetry
INVARIANT MemoryKept
CHECK_DEADLOCK FALSE
