SPECIFICATION Spec
CONSTANTS
  Uids = {a, b, c}
  Rooms = {g}
  Friend = {}
  Calls = {c1, c2}
  Slots = {h1, h2}
  Conns = {k1, k2}
  Nonces = {n1}
  None = None
  MaxRequests = 5
SYMMETRY Symmetry
INVARIANTS TypeOK OneLiveCall PointersMatchActive
CHECK_DEADLOCK FALSE
