SPECIFICATION Spec
CONSTANTS
  Uids = {a, b}
  Groups = {g}
  Slots = {h1, h2}
  None = None
  MaxRooms = 3
  MaxFailures = 1
  MaxRequests = 5
SYMMETRY Symmetry
INVARIANTS TypeOK FriendsHaveRoom  NotificationsAgree
CHECK_DEADLOCK FALSE
