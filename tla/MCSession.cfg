SPECIFICATION SessionSpec
CONSTANTS
  DotDotNames = {}
  MaxLinks = 2
  NoPath <- MCNoPath
  Calls = {c1, c2}
  c1 = c1
  c2 = c2
  ConfigArgs <- MCArgs
  AllowRuntime = FALSE
  Cwd <- d
  RawPaths <- MCRaw
  RawDirs <- MCDirs
  Requests <- MCRequests
  MaxChanges = 1
  ClientAnswers <- MCAnswers
  NoAnswer = NoAnswer
  NotFileURI = NotFileURI
  FsStates <- MCTrees
INVARIANTS
  SessionTypeOK
  ListedIsThere
  UndisturbedIsExact
  MkdirsDoNotCollide
  ListedAreRoots
PROPERTIES
  ActsInside
  RootsAreNotRemoved
  CallsReturn
