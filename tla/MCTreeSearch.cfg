SPECIFICATION FairSpec
CONSTANTS
  Names = {0, 1, 2, 3}
  Hidden = {0}
  Paths <- MCPaths
  Root <- MCRoot
  Inside <- MCInside
  Locked <- MCLocked
  Hits <- MCHits
  Binary = Binary
  Trees <- MCTrees
  Texts <- MCTexts
  Target <- MCTarget
  MaxLinks = 2
  Nowhere = Nowhere
  Requests <- MCRequests
  DefaultMaxResults = 3
  Touched <- MCTouched
  Ends <- MCEnds
  MaxChanges = 2
INVARIANTS
  TypeOK
  ReportIsOrdered
  SteadyFilesAreFound
  ReportedQualified
  QuietReplaceIsExact
PROPERTY
  CallsReturn
