SPECIFICATION Spec
CONSTANTS
  c1 = c1  c2 = c2  n1 = n1  u1 = u1  s1 = s1  s2 = s2
  Nodes = {n1}
  NodeOf <- OneNode
  Conns = {c1, c2}
  Uids = {u1}
  Sids = {s1}
  Owner <- OneUser
  None = None
  MaxHandshakes = 1
  MayShutdown = {n1}
  Reusable = {c1, c2}
  FreshSids = {s1}
  MayCrash = {n1}
  DbOutcomes = {TRUE}
INVARIANTS TypeOK NoDeadRegistration RegisteredIsMonitored 
PROPERTY OnlyDeadLeaveRegistry
SYMMETRY Perms
