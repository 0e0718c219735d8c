----------------------------- MODULE FriendChats -----------------------------
(***************************************************************************)
(* Friend requests between two users, their relation and the rooms the two *)
(* talk in (http/handler/user/friend_request.go, chat.go, db/query/        *)
(* friend_request.go, friend_chat.go, friend_group.go).                    *)
(*                                                                         *)
(* Answering a request is one long transaction. It locks the request's row *)
(* and the rows of the relation as it writes them, but reads the relation  *)
(* and the rooms, and upgrades rooms, on other database connections, where *)
(* only what has been committed is seen. Opening a chat looks for a room   *)
(* first and creates one later.                                            *)
(***************************************************************************)
EXTENDS Naturals, Sequences

CONSTANTS
  Uids,        \* the two users
  Groups,      \* groups both are members of
  Slots,       \* handlers that run at the same time
  None,
  MaxRooms,    \* bound: rooms of the two
  MaxFailures, \* bound: handlers that fail half way
  MaxRequests  \* bound: handlers started

ASSUME ConstantsAssumption ==
  /\ \E a, b \in Uids : a # b /\ Uids = {a, b}
  /\ None \notin Groups
  /\ {MaxRooms, MaxFailures, MaxRequests} \subseteq Nat

VARIABLES
  row,      \* row[u]: u's user_friend row on the other: "none", "live", "deleted"
  req,      \* req[s]: state of the request s has sent
  note,     \* note[s]: the notifications of both, [to, by], on request s
  rooms,    \* the rooms of the two, oldest first
  session,  \* session[u]: rooms u has a user_room_session of
  pc, task, \* what the handler in a slot does next, and with what it has read
  dirty,    \* history: slots whose reads another handler has overwritten
  disturbed,\* history: such a handler wrote all the same, or one failed half way
  failures, requests

dataVars == <<row, req, note, rooms, session>>
boundVars == <<failures, requests>>
vars == <<dataVars, pc, task, dirty, disturbed, boundVars>>

Other(u) == CHOOSE v \in Uids : v # u
Room(type, open, from) == [type |-> type, open |-> open, from |-> from]
Task(op, by, on) == [op |-> op, by |-> by, on |-> on, plan |-> "none", room |-> 0]

Rooms == [type : {"private", "groupPrivate"}, open : BOOLEAN, from : Groups \cup {None}]
Tasks == [op : {"create", "accept", "reject", "ensure", "open", "group"},
          by : Uids, on : Uids, room : 0..MaxRooms,
          plan : Groups \cup {"none", "create", "restore", "keep"}]
Stages == {"idle", "save", "noteTo", "noteBy", "lock", "relate", "accept", "reject",
           "find", "make", "enter"}

ASSUME NoneIsNoTask == None \notin Tasks

Init ==
  /\ row = [u \in Uids |-> "none"] /\ req = [u \in Uids |-> "none"]
  /\ note = [u \in Uids |-> [to |-> "none", by |-> "none"]]
  /\ rooms = <<>> /\ session = [u \in Uids |-> {}]
  /\ pc = [h \in Slots |-> "idle"] /\ task = [h \in Slots |-> None]
  /\ dirty = {} /\ disturbed = FALSE /\ failures = 0 /\ requests = 0

-----------------------------------------------------------------------------
(* The relation, and the rooms.                                            *)

\* CheckFriendRelation: both rows there and not deleted.
AreFriends == \A u \in Uids : row[u] = "live"

\* CheckFriendRelation, oneSideDeleted: some row, but not friends.
OneSideDeleted == ~AreFriends /\ \E u \in Uids : row[u] # "none"

\* ensureFriendRelation looks at one's own row only.
EnsureFriend(u) == row[u] = "live"

\* The oldest room that fits, 0 when there is none.
First(S) == IF S = {} THEN 0 ELSE CHOOSE i \in S : \A j \in S : i <= j

\* FindPrivateRoomBetweenUsers.
FindPrivate(u) == First({i \in DOMAIN rooms : rooms[i].type = "private"})

\* FindGroupPrivateRoomBetweenUsers.
FindGroupPrivate(g) ==
  First({i \in DOMAIN rooms : rooms[i].type = "groupPrivate" /\ rooms[i].from = g})

\* Faulty: the rooms keep the group they come from.
UpgradedKeepingGroup(S) ==
  [i \in DOMAIN rooms |-> IF i \in S THEN [rooms[i] EXCEPT !.type = "private"] ELSE rooms[i]]

\* UpgradeGroupPrivateToPrivate on the rooms in S: open they stay.
Upgraded(S) ==
  [i \in DOMAIN rooms |-> IF i \in S THEN [rooms[i] EXCEPT !.type = "private", !.from = None]
                          ELSE rooms[i]]

-----------------------------------------------------------------------------
(* Handlers: locks, writes, overlaps.                                      *)

\* Rows an open transaction has written: the request of s and its notifications.
LockedRequest(s) == \E h \in Slots : pc[h] \in {"relate", "accept"} /\ task[h].on = s

\* Faulty: no unique index on (uid, friend_uid), an insert waits for nobody.
LockedRelationNever == FALSE

\* Rows of the relation, or its place in the unique index.
LockedRelation == \E h \in Slots : pc[h] = "accept" /\ task[h].plan # "keep"

Start(h, next, t) ==
  /\ pc[h] = "idle" /\ requests < MaxRequests
  /\ requests' = requests + 1
  /\ pc' = [pc EXCEPT ![h] = next] /\ task' = [task EXCEPT ![h] = t]
  /\ UNCHANGED <<dataVars, dirty, disturbed, failures>>

Go(h, next, t) ==
  /\ pc' = [pc EXCEPT ![h] = next]
  /\ task' = [task EXCEPT ![h] = IF next = "idle" THEN None ELSE t]

\* Handler h writes what the handlers in slots S have read.
Overwrite(h, S) ==
  /\ disturbed' = (disturbed \/ h \in dirty)
  /\ dirty' = (dirty \cup S) \ {h}

OnRequest(s) == {h \in Slots : task[h] # None /\ task[h].on = s
                               /\ task[h].op \in {"create", "accept", "reject"}}

-----------------------------------------------------------------------------
(* Friend requests.                                                        *)

\* CreateFriendRequest: not between friends.
CreateFriendRequest(h, s) ==
  /\ ~AreFriends
  /\ Start(h, "save", Task("create", s, s))

\* CreateOrUpdateFriendRequest: an old request is pending again.
SaveRequest(h) ==
  /\ pc[h] = "save" /\ ~LockedRequest(task[h].on)
  /\ req' = [req EXCEPT ![task[h].on] = "pending"]
  /\ Overwrite(h, OnRequest(task[h].on)) /\ Go(h, "noteTo", task[h])
  /\ UNCHANGED <<row, note, rooms, session, boundVars>>

\* Faulty: a notification that exists already is left as it is.
ResetNoteOnce(n) == IF n = "none" THEN "pending" ELSE n

\* A notification is created, or reset, with the request.
ResetNote(n) == "pending"

\* The receiver's notification, then the sender's.
SaveNoteTo(h) ==
  /\ pc[h] = "noteTo" /\ ~LockedRequest(task[h].on)
  /\ note' = [note EXCEPT ![task[h].on].to = ResetNote(@)]
  /\ Overwrite(h, OnRequest(task[h].on)) /\ Go(h, "noteBy", task[h])
  /\ UNCHANGED <<row, req, rooms, session, boundVars>>

SaveNoteBy(h) ==
  /\ pc[h] = "noteBy" /\ ~LockedRequest(task[h].on)
  /\ note' = [note EXCEPT ![task[h].on].by = ResetNote(@)]
  /\ Overwrite(h, OnRequest(task[h].on)) /\ Go(h, "idle", None)
  /\ UNCHANGED <<row, req, rooms, session, boundVars>>

\* AcceptFriendRequest, RejectFriendRequest: pending and not expired.
AcceptFriendRequest(h, s, r) ==
  /\ req[s] = "pending" /\ r \in {0} \cup DOMAIN rooms
  /\ Start(h, "lock", [Task("accept", Other(s), s) EXCEPT !.room = r])

RejectFriendRequest(h, s) ==
  /\ req[s] = "pending"
  /\ Start(h, "reject", Task("reject", Other(s), s))

Answer(s, as) ==
  /\ req' = [req EXCEPT ![s] = as]
  /\ note' = [note EXCEPT ![s] = [to |-> as, by |-> as]]

CommitReject(h) ==
  /\ pc[h] = "reject" /\ ~LockedRequest(task[h].on)
  /\ Answer(task[h].on, "rejected")
  /\ Overwrite(h, OnRequest(task[h].on)) /\ Go(h, "idle", None)
  /\ UNCHANGED <<row, rooms, session, boundVars>>

\* The transaction has updated the request and both notifications, which
\* stay locked; the relation is read on another connection.
LockRequest(h) ==
  /\ pc[h] = "lock" /\ ~LockedRequest(task[h].on)
  /\ LET plan == IF AreFriends THEN "keep" ELSE IF OneSideDeleted THEN "restore" ELSE "create" IN
       Go(h, "relate", [task[h] EXCEPT !.plan = plan])
  /\ UNCHANGED <<dataVars, dirty, disturbed, boundVars>>

\* CreateFriendRelationWithTx inserts both rows; rows another request has
\* brought meanwhile violate the unique index on (uid, friend_uid).
Conflict(t) == t.plan = "create" /\ row[t.by] # "live" /\ OneSideDeleted

\* CreateFriendRelationWithTx finds the receiver's row live: nothing to do.
Plan(t) == IF t.plan = "create" /\ row[t.by] = "live" THEN "keep" ELSE t.plan

\* TryUpgradeGroupPrivateRoomToPrivateTx on the room the request names.
CanUpgrade(i) == i # 0 /\ rooms[i].type = "groupPrivate"

\* The rows of the relation are written and locked. The room of the chat is
\* the group private room the answer names, or else all group private rooms
\* are upgraded, at once, and the oldest private room is taken.
Relate(h) ==
  /\ pc[h] = "relate"
  /\ task[h].plan # "keep" => ~LockedRelation
  /\ ~Conflict(task[h])
  /\ LET t == [task[h] EXCEPT !.plan = Plan(task[h])]
         all == {i \in DOMAIN rooms : CanUpgrade(i)}
     IN  IF CanUpgrade(t.room)
         THEN /\ UNCHANGED rooms
              /\ Go(h, "accept", t)
         ELSE /\ rooms' = Upgraded(all)
              /\ Go(h, "accept", [t EXCEPT !.room =
                   IF FindPrivate(t.by) # 0 THEN FindPrivate(t.by) ELSE First(all)])
  /\ UNCHANGED <<row, req, note, session, dirty, disturbed, boundVars>>

\* The unique index refuses: the transaction is rolled back.
RelateConflict(h) ==
  /\ pc[h] = "relate" /\ ~LockedRelation /\ Conflict(task[h])
  /\ Go(h, "idle", None) /\ dirty' = dirty \ {h}
  /\ UNCHANGED <<dataVars, disturbed, boundVars>>

\* Faulty: the receiver alone gets a session.
SessionsOfReceiver(t, i) == [session EXCEPT ![t.by] = @ \cup {i}]

\* Both get a session in the room.
SessionsOfBoth(t, i) == [u \in Uids |-> session[u] \cup {i}]

\* CreateFriendRelationWithTx, RestoreFriendRelationWithTx.
Relation(t) == IF t.plan = "keep" THEN row ELSE [u \in Uids |-> "live"]

\* The rest of the transaction and its COMMIT. A room that had to be created
\* is closed to non-friends.
CommitAccept(h) ==
  /\ pc[h] = "accept"
  /\ LET t == task[h]
         i == IF t.room = 0 THEN Len(rooms) + 1 ELSE t.room
     IN  /\ i <= MaxRooms
         /\ rooms' = IF t.room = 0 THEN Append(rooms, Room("private", FALSE, None))
                     ELSE Upgraded({i} \cap {j \in DOMAIN rooms : CanUpgrade(j)})
         /\ session' = SessionsOfBoth(t, i)
         /\ row' = Relation(t)
         /\ Answer(t.on, "accepted")
         /\ Overwrite(h, OnRequest(t.on))
  /\ Go(h, "idle", None)
  /\ UNCHANGED boundVars

\* DeleteFriendWithTx: one UPDATE, on one's own row; the other's stays.
Deleted(u) == [row EXCEPT ![u] = "deleted"]

DeleteFriend(u) ==
  /\ requests < MaxRequests /\ requests' = requests + 1
  /\ row[u] = "live" /\ ~LockedRelation
  /\ row' = Deleted(u)
  /\ dirty' = dirty \cup {h \in Slots : task[h] # None /\ task[h].op = "accept"
                                                /\ task[h].plan \in {"create", "keep"}}
  /\ UNCHANGED <<req, note, rooms, session, pc, task, disturbed, failures>>

-----------------------------------------------------------------------------
(* Opening a chat.                                                         *)

\* OpenPrivateChat; whether a stranger is admitted is a setting of the other,
\* who may change it at any time.
OpenPrivateChat(h, u) ==
  Start(h, "find", Task(IF EnsureFriend(u) THEN "ensure" ELSE "open", u, u))

\* OpenGroupPrivateChat from group g: friends get their private room.
OpenGroupPrivateChat(h, u, g) ==
  Start(h, "find", [Task(IF EnsureFriend(u) THEN "ensure" ELSE "group", u, u)
                    EXCEPT !.plan = g])

FindRoom(h) ==
  /\ pc[h] = "find"
  /\ LET t == task[h]
         i == IF t.op = "group" THEN FindGroupPrivate(t.plan) ELSE FindPrivate(t.by)
     IN  Go(h, IF i = 0 THEN "make" ELSE "enter", [t EXCEPT !.room = i])
  /\ UNCHANGED <<dataVars, dirty, disturbed, boundVars>>

\* createPrivateRoomWithConfig, createGroupPrivateRoomWithConfig: only the
\* room of friends is closed.
MakeRoom(h) ==
  /\ pc[h] = "make" /\ Len(rooms) < MaxRooms
  /\ LET t == task[h] IN
       rooms' = Append(rooms, CASE t.op = "ensure" -> Room("private", FALSE, None)
                                [] t.op = "open" -> Room("private", TRUE, None)
                                [] t.op = "group" -> Room("groupPrivate", TRUE, t.plan))
  /\ Go(h, "enter", [task[h] EXCEPT !.room = Len(rooms) + 1])
  /\ UNCHANGED <<row, req, note, session, dirty, disturbed, boundVars>>

\* The session in the room. A stranger is refused in a closed room.
EnterRoom(h) ==
  /\ pc[h] = "enter"
  /\ LET t == task[h] IN
       session' = IF t.op = "open" /\ ~rooms[t.room].open THEN session
                  ELSE [session EXCEPT ![t.by] = @ \cup {t.room}]
  /\ Go(h, "idle", None) /\ dirty' = dirty \ {h}
  /\ UNCHANGED <<row, req, note, rooms, disturbed, boundVars>>

\* A message in room i (SendRoomMessage, EnsureReceiverSessionForPrivateRoom):
\* a closed room is for friends; the receiver gets a session.
SendMessage(u, i) ==
  /\ i \in session[u]
  /\ rooms[i].type = "private" /\ ~rooms[i].open => AreFriends
  /\ i \notin session[Other(u)]
  /\ session' = [session EXCEPT ![Other(u)] = @ \cup {i}]
  /\ UNCHANGED <<row, req, note, rooms, pc, task, dirty, disturbed, boundVars>>

-----------------------------------------------------------------------------
\* A handler fails, or its process stops: what is not committed is lost.
Fail(h) ==
  /\ pc[h] # "idle" /\ failures < MaxFailures
  /\ failures' = failures + 1
  /\ disturbed' = (disturbed \/ pc[h] \in {"noteTo", "noteBy"})
  /\ Go(h, "idle", None) /\ dirty' = dirty \ {h}
  /\ UNCHANGED <<dataVars, requests>>

Request(h) ==
  \/ \E u \in Uids :
       \/ CreateFriendRequest(h, u) \/ RejectFriendRequest(h, u) \/ OpenPrivateChat(h, u)
       \/ \E r \in 0..MaxRooms : AcceptFriendRequest(h, u, r)
       \/ \E g \in Groups : OpenGroupPrivateChat(h, u, g)

Work(h) ==
  \/ SaveRequest(h) \/ SaveNoteTo(h) \/ SaveNoteBy(h) \/ CommitReject(h)
  \/ LockRequest(h) \/ Relate(h) \/ RelateConflict(h) \/ CommitAccept(h)
  \/ FindRoom(h) \/ MakeRoom(h) \/ EnterRoom(h)

Next ==
  \/ \E h \in Slots : Request(h) \/ Work(h) \/ Fail(h)
  \/ \E u \in Uids : DeleteFriend(u) \/ \E i \in 1..MaxRooms : SendMessage(u, i)

Spec == Init /\ [][Next]_vars

-----------------------------------------------------------------------------
States == {"none", "pending", "accepted", "rejected"}

TypeOK ==
  /\ row \in [Uids -> {"none", "live", "deleted"}]
  /\ req \in [Uids -> States] /\ note \in [Uids -> [to : States, by : States]]
  /\ rooms \in Seq(Rooms) /\ Len(rooms) <= MaxRooms
  /\ \A i \in DOMAIN rooms :
       /\ rooms[i].type = "groupPrivate" => rooms[i].open /\ rooms[i].from \in Groups
       /\ rooms[i].type = "private" => rooms[i].from = None
  /\ session \in [Uids -> SUBSET DOMAIN rooms]
  /\ pc \in [Slots -> Stages] /\ task \in [Slots -> Tasks \cup {None}]
  /\ \A h \in Slots : (pc[h] = "idle") <=> (task[h] = None)
  /\ dirty \subseteq {h \in Slots : pc[h] # "idle"} /\ disturbed \in BOOLEAN

\* Friends have a private room with a session for both, and a relation has
\* two rows or none, whichever handlers overlap or fail (the transaction of
\* AcceptFriendRequest).
FriendsHaveRoom ==
  /\ (\A u \in Uids : row[u] = "none") \/ (\A u \in Uids : row[u] # "none")
  /\ AreFriends =>
       \E i \in DOMAIN rooms :
         rooms[i].type = "private" /\ \A u \in Uids : i \in session[u]

\* No two closed private rooms exist for the same two users, although every
\* handler looks for a room on one connection and creates it on another: the
\* locks on the request and on the relation keep the creators apart.
OneClosedRoom ==
  \A i, j \in DOMAIN rooms :
    i # j => \E k \in {i, j} : rooms[k].type # "private" \/ rooms[k].open

\* When nothing is under way, both notifications show the state of their
\* request, unless handlers of one request overlapped or failed half way.
NotificationsAgree ==
  ~disturbed /\ (\A h \in Slots : pc[h] = "idle") =>
    \A s \in Uids : note[s] = [to |-> req[s], by |-> req[s]]

=============================================================================
