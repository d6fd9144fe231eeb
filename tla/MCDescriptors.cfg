SPECIFICATION Spec
CONSTANTS
  NINODE = 2
  NINODES = 3
  Names <- MCNames
  Paths <- RootPaths
  Opens <- RootOpens
  Procs = {p1, p2}
  Boot = p1
  NOFILE = 3
  NSTD = 1
  MkfsDir = "a"
  Readme = "r"
  MaxLost = 1
INVARIANTS
  RefsExact
  TypeOK
PROPERTIES
  OpenFilesKeepTheirInode
