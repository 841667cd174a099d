SPECIFICATION FairSpec
CONSTANTS
  a = a
  b = b
  c = c
  d = d
  r1 = r1
  r2 = r2
  Root = Root
  Folders = {a, b, c, d}
  MaxDepth = 4
  Requests = {r1}
  Failures = TRUE
INVARIANTS
  Acyclic
  ActiveUnderActive
PROPERTIES
  KeepsLibrary
  HandlersEnd
