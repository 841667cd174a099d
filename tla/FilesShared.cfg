SPECIFICATION Spec
CONSTANTS
  Ana = Ana
  Ben = Ben
  f1 = f1
  f2 = f2
  r1 = r1
  r2 = r2
  Users = {Ana, Ben}
  Files = {f1, f2}
  Owner <- TwoOwners
  Requests = {r1, r2}
  Calls = {"upload", "save", "update", "trash", "restore", "delete", "folder", "account", "purge"}
  Failures = TRUE
  NoFile = NoFile
  NoUser = NoUser
SYMMETRY RequestSymmetry
INVARIANTS
  UntouchedRowHasObject
  SharedInv
  UncrossedRowHasObject
  NoLeakedObject
