SPECIFICATION FairSpec
CONSTANTS
  w1 = w1
  s1 = s1
  s2 = s2
  None = None
  Works = {w1}
  Subjects = {s1, s2}
  Clicks = {1, 2}
  Offered <- MCOffered
INVARIANTS
  PendingIsCarried
  AloneIsReportedRight
PROPERTIES
  SlotSettles
CHECK_DEADLOCK FALSE
