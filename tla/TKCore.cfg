SPECIFICATION Spec
CONSTANTS
  Uids = {u}
  Slots = {h1, h2}
  MaxSids = 2
  MaxJtis = 4
  None = None
  Lifetime = 1
  MaxTime = 2
  MaxFailures = 1
SYMMETRY Symmetry
INVARIANTS TypeOK OneLiveToken ChainKeepsDeadline FreshTokensAdmit
CHECK_DEADLOCK FALSE
