SPECIFICATION FairSpec
CONSTANTS
  f1 = f1
  r1 = r1
  r2 = r2
  Files = {f1}
  Filters = {"favorite"}
  Slots = {r1, r2}
  MaxFailures = 2
  MaxVersion = 1
  Failures = TRUE
INVARIANTS
  AnswersRight
  ListInv
PROPERTIES
  KeepsRegularList
  StaleListsExpire
