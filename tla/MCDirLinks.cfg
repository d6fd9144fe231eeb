SPECIFICATION Spec
CONSTANTS
  NINODE = 3
  NINODES = 4
  Names <- MCNames
  Paths <- TreePaths
  Opens <- TreeOpens
  Procs = {p1}
  Boot = p1
  NOFILE = 1
  NSTD = 0
  MkfsDir = "a"
  Readme = "r"
  MaxLost = 0
INVARIANT DirLinksAsMkfsCounts
