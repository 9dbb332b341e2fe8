SPECIFICATION Spec
CONSTANTS
  Alphabet <- MCAlphabet
  GlobAtoms <- MCGlobAtoms
  Names <- MCNames
  Requests <- MCRequests
INVARIANTS
  TypeOK
  FoundAreDenoted
  GlobErrorsAreTrue
  CompiledAsMeant
  UnsupportedIsExact
