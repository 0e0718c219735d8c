SPECIFICATION SendSpec
CONSTANTS
  a1 = a1  a2 = a2  b1 = b1  A = A  B = B  w1 = w1  w2 = w2
  Absent = Absent
  Cmids = {A, B}
  Cmid <- CmidOf
  Reqs = {a1, a2, b1}
  Withdrawers = {}
  MayCrash = {a1}
  CommitUnknown = TRUE
  Outcomes = {TRUE, FALSE}
  MaxKeyLosses = 1
  MaxExpiries = 0
INVARIANTS SendTypeOK OneRowPerClientMid ReceiptMeansStored
CHECK_DEADLOCK FALSE
