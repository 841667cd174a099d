SPECIFICATION FairSpec
CONSTANTS
  s1 = s1
  s2 = s2
  r1 = r1
  r2 = r2
  Sessions = {s1}
  Parts = {1, 2}
  Requests = {r1, r2}
  Size <- UnitSizes
  Limit = 1
  Failures = TRUE
  NoSession = NoSession
INVARIANTS
  OneFilePerUpload
  FileHasObject
  CompletedHasFile
  SettledPartsStay
  RecordingInv
PROPERTIES
  AbandonedSessionsExpire
  PollsHeal
