SPECIFICATION Spec
CONSTANTS
  o = o
  u = u
  v = v
  Uids = {o, u, v}
  Creator = o
  Reqs = {r1, r2}
  NoUid = NoUid
  NoCache = NoCache
  NoTask = NoTask
  Ops <- AllOps
  SelfRole = FALSE
  MaxOvertaken = 1
  MaxFailures = 1
  MaxRequests = 6
INVARIANTS TypeOK MemberViewsAgree
 
CHECK_DEADLOCK FALSE
