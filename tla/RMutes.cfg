SPECIFICATION Spec
CONSTANTS
  o = o  b = b
  Uids = {o, b}
  Speakers = {b}
  None = None
  Role <- Roles
  Slots = {h1, h2}
  Strategies <- All
  Durations = {1}
  MaxMessages = 1
  Window = 1
  MaxTime = 1
  MaxRequests = 4
  MaxChanges = 2
  MaxFailures = 1
SYMMETRY Symmetry
INVARIANTS TypeOK LimitHolds  RangeIsScheduled
CHECK_DEADLOCK FALSE
