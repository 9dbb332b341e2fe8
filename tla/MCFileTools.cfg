SPECIFICATION Spec
CONSTANTS
  Calls = {c1, c2, c3}
  c1 = c1
  c3 = c3
  c2 = c2
  Names <- MCNames
  RootNames = {"d"}
  Inodes <- MCInodes
  Dirs <- MCDirs
  NoInode = NoInode
  Chunks <- MCChunks
  Binary = {"x"}
  Hole = "hole"
  Threshold = 1
  Requests <- MCRequests
  Links <- MCLinks
  Contents <- MCContents
SYMMETRY Symmetric
INVARIANTS
  TypeOK
  QuietCallsAreExact
  SteadyDstIsKept
  AppendsAreKept
