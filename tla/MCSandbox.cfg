SPECIFICATION Spec
CONSTANTS
  DotDotNames = {"..data"}
  MaxLinks = 2
  NoPath = NoPath
  Calls = {c1, c2}
  c1 = c1
  c2 = c2
  ConfigArgs <- MCArgs
  AllowRuntime = TRUE
  Cwd <- MCCwd
  RawPaths <- MCRaw
  RawDirs <- MCDirs
  MaxChanges = 2
  ClientAnswers <- MCAnswers
  NoAnswer = NoAnswer
  NotFileURI = NotFileURI
  FsStates <- MCTrees
SYMMETRY Symmetric
INVARIANTS
  TypeOK
  AcceptedWasAllowed
  RefusedHadCause
  RootsArePhysical
PROPERTY
  RemoveIsFinal
