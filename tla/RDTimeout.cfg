SPECIFICATION ServerFairSpec
CONSTANTS
  s = s  u1 = u1  n1 = n1  n2 = n2  m1 = m1  m2 = m2
  None = None
  AckMaxRetries = 3
  SeqId <- InOrder
  Nodes = {n1}
  Users = {s, u1}
  Mids = {m1}
  Sender <- AllByS
  UnreadLimit = 2
  MayWithdraw = {}
  MayBlock = {}
  MayConnect = {u1}
  MayLose = {}
  DbOutcomes = {TRUE}
PROPERTIES ChecksResolveRow
