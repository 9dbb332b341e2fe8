SPECIFICATION Spec
CONSTANTS
  Alphabet <- MCAlphabet
  GlobAtoms <- MCGlobAtoms
  Names <- MCNames
  Requests <- MCRequests
INVARIANT
  PlainBracketIsRead
