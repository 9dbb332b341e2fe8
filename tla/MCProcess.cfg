SPECIFICATION FairSpec
CONSTANTS
  Requested <- MCRequested
  Second = 2
  DurationLimit = 8
  DefaultSeconds = 2
  Inputs = {0, 2}
  MayFork = TRUE
  PipeCapacity = 1
  MaxOutput = 2
  MaxTime = 4
INVARIANTS
  TypeOK
  ExitIsWhole
  NothingLeftBehind
  KilledForCause
  StartFailedHasCause
PROPERTY
  CallReturns
