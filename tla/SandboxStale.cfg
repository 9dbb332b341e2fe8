SPECIFICATION Spec
CONSTANTS
  DotDotNames = {"..data"}
  MaxLinks = 2
  NoPath = NoPath
  Calls = {c1, c2}
  c1 = c1
  c2 = c2
  ConfigArgs <- MCArgs
  AllowRuntime = TRUE
  Cwd <- MCCwd
  RawPaths <- MCRaw
  RawDirs <- NoPaths
  MaxChanges = 1
  ClientAnswers <- OneChange
  NoAnswer = NoAnswer
  NotFileURI = NotFileURI
  FsStates <- StillTree
INVARIANT
  FreshRoots
