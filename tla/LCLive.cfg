SPECIFICATION FairSpec
CONSTANTS
  c1 = c1  c2 = c2  n1 = n1  u1 = u1  s1 = s1  s2 = s2
  Nodes = {n1}
  NodeOf <- OneNode
  Conns = {c1, c2}
  Uids = {u1}
  Sids = {s1}
  Owner <- OneUser
  None = None
  MaxHandshakes = 1
  MayShutdown = {}
  Reusable = {}
  FreshSids = {}
  MayCrash = {}
  DbOutcomes = {TRUE, FALSE}
PROPERTIES ClosedLeavesRegistry PresenceRestored 
CHECK_DEADLOCK FALSE
