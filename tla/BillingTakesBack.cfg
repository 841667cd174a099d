SPECIFICATION FairSpec
CONSTANTS
  p1 = p1
  i1 = i1
  s1 = s1
  s2 = s2
  r1 = r1
  r2 = r2
  Payments = {p1}
  Submissions = {}
  Subs = {s1, s2}
  Slots = {r1, r2}
  Failures = TRUE
  Plans = {"small", "large"}
  PlanOf <- SmallOrLarge
  PlanGb <- Gigabytes
  Price <- Piasters
  FreeGb = 4
  Nobody = Nobody
PROPERTIES
  StorageTakenBack
