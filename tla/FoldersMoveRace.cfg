SPECIFICATION Spec
CONSTANTS
  a = a
  b = b
  c = c
  d = d
  r1 = r1
  r2 = r2
  Root = Root
  Folders = {a, b}
  MaxDepth = 2
  Requests = {r1, r2}
  Failures = FALSE
SYMMETRY Symmetry
INVARIANTS
  Acyclic
