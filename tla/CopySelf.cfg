SPECIFICATION Spec
CONSTANTS
  Calls = {c1}
  c1 = c1
  Names <- MCNames
  RootNames = {"d"}
  Inodes <- MCInodes
  Dirs <- MCDirs
  NoInode = NoInode
  Chunks <- MCChunks
  Binary = {"x"}
  Hole = "hole"
  Threshold = 1
  Requests <- CopyOntoItself
  Links <- MCLinks
  Contents <- MCContents
PROPERTY
  CopyKeepsSource
