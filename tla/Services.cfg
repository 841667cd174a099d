SPECIFICATION Spec
CONSTANTS
  a = a
  b = b
  u1 = u1
  u2 = u2
  e1 = e1
  e2 = e2
  p1 = p1
  p2 = p2
  device = device
  subnet = subnet
  Verifiers = {a, b}
  MaxAttempts = 2
  MaxCodes = 2
  Handlers = {a, b}
  MaxTokens = 3
  Slots = {a, b}
  Users = {u1, u2}
  Emails = {e1, e2}
  Passwords = {p1, p2}
  Devices = {device}
  Subnets = {subnet}
  MaxRequests = 2
  Nothing = Nothing
  Signups = {a, b}
  MaxSignups = 2
  MaxAccounts = 4
  Callers = {a, b}
  MaxParts = 2
  PageSize = 1
  MaxRetries = 1
  MaxVersions = 2
  MaxName = 3
  MaxTime = 4
  PageLength = 2
SYMMETRY ServicesSymmetry
CHECK_DEADLOCK FALSE
INVARIANTS
  ServicesInv
  GuessesBounded
  UsedCodeIsGone
  OneLivePerLogin
  RevokedForGood
  CredentialsAgree
  SharedDeviceFlagged
  SignupLimitHolds
  RightOperationRuns
  CallerIsEntitled
  ListingExact
  RetryStoresOnce
  NewestKept
