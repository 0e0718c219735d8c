SPECIFICATION SendFairSpec
CONSTANTS
  a1 = a1  a2 = a2  b1 = b1  A = A  B = B  w1 = w1  w2 = w2
  Absent = Absent
  Cmids = {A, B}
  Cmid <- CmidOf
  Reqs = {a1, a2}
  Withdrawers = {w1, w2}
  MayCrash = {}
  CommitUnknown = FALSE
  Outcomes = {TRUE, FALSE}
  MaxKeyLosses = 0
  MaxExpiries = 1
INVARIANT ContentsMatchRow
  
CHECK_DEADLOCK FALSE
