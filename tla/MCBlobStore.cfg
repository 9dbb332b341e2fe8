SPECIFICATION FairSpec
CONSTANTS
  Callers = {c1, c2}
  Handles = {h1, h2}
  c1 = c1
  c2 = c2
  h1 = h1
  h2 = h2
  Blobs = {x, y}
  x = x
  y = y
  TTL <- MCTTL
  MaxTime <- MCMaxTime
  None = None
INVARIANTS
  TypeOK
  TableMatchesLeases
PROPERTIES
  ImplementsLeases
  CallsReturn
