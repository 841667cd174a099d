SPECIFICATION FairSpec
CONSTANTS
  Ana = Ana
  Ben = Ben
  f1 = f1
  f2 = f2
  r1 = r1
  r2 = r2
  Users = {Ana, Ben}
  Files = {f1, f2}
  Owner <- TwoOwners
  Requests = {r1}
  Calls = {"upload", "trash", "purge"}
  Failures = FALSE
  NoFile = NoFile
  NoUser = NoUser
PROPERTIES
  ExpiredTrashPurged
