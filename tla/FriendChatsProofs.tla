------------------------- MODULE FriendChatsProofs -------------------------
(***************************************************************************)
(* FriendChats keeps its types, gives friends a room, never makes two      *)
(* closed rooms for the same two users, and its notifications agree with   *)
(* their requests, for any number of handlers, groups and rooms.           *)
(*                                                                         *)
(* The argument for the rooms: whoever finds a row of the relation has a   *)
(* private room to find, since the transaction that first writes the rows  *)
(* takes or makes one and rooms never go. So only an answer that creates   *)
(* the relation makes a closed room, and the locks on the relation let one *)
(* such answer at a time past the point where it looks for a room.         *)
(***************************************************************************)
EXTENDS FriendChats, WellFoundedInduction, SequenceTheorems, TLAPS

Private(i) == rooms[i].type = "private"
Closed(i) == Private(i) /\ ~rooms[i].open
HasPrivate == \E i \in DOMAIN rooms : Private(i)
Related == \E u \in Uids : row[u] # "none"

\* What a handler may rely on at its stage
TaskSound(h) ==
  /\ pc[h] \in {"save", "noteTo", "noteBy"} => task[h].op = "create"
  /\ pc[h] \in {"lock", "relate", "accept"} =>
       task[h].op = "accept" /\ task[h].room \in 0 .. Len(rooms)
  /\ pc[h] = "reject" => task[h].op = "reject"
  /\ pc[h] \in {"relate", "accept"} =>
       /\ task[h].plan \in {"create", "restore", "keep"}
       /\ task[h].plan # "create" => HasPrivate
  /\ pc[h] = "accept" /\ task[h].room = 0 =>
       task[h].plan = "create" /\ \A i \in DOMAIN rooms : ~Closed(i)
  /\ pc[h] \in {"find", "make", "enter"} => task[h].op \in {"ensure", "open", "group"}
  /\ pc[h] \in {"find", "make", "enter"} /\ task[h].op = "group" => task[h].plan \in Groups
  /\ pc[h] \in {"find", "make", "enter"} /\ task[h].op = "ensure" => HasPrivate
  /\ pc[h] = "make" => task[h].op # "ensure"
  /\ pc[h] = "enter" => task[h].room \in DOMAIN rooms

\* The rows come and stay together, and with them a room both have a session in
RowsSound ==
  /\ Related => \A u \in Uids : row[u] # "none"
  /\ Related => \E i \in DOMAIN rooms : Private(i) /\ \A u \in Uids : i \in session[u]

\* One answer at a time holds locks on the relation
OneRelates ==
  \A h, g \in Slots :
    /\ pc[h] = "accept" /\ task[h].plan # "keep"
    /\ pc[g] = "accept" /\ task[g].plan # "keep"
    => h = g

OneClosed == \A i, j \in DOMAIN rooms : Closed(i) /\ Closed(j) => i = j

Notifying(h, s) == pc[h] \in {"noteTo", "noteBy"} /\ task[h].on = s

\* Whoever notifies and has not been overtaken finds the request pending
NoteSound(h) ==
  ~disturbed /\ pc[h] \in {"noteTo", "noteBy"} /\ h \notin dirty =>
    /\ req[task[h].on] = "pending"
    /\ pc[h] = "noteBy" => note[task[h].on].to = "pending"

NotesSound(s) ==
  ~disturbed /\ (\A h \in Slots : ~Notifying(h, s)) => note[s] = [to |-> req[s], by |-> req[s]]

IInv ==
  /\ TypeOK
  /\ \A h \in Slots : TaskSound(h) /\ NoteSound(h)
  /\ RowsSound /\ OneRelates /\ OneClosed
  /\ \A s \in Uids : NotesSound(s)

-----------------------------------------------------------------------------
(* Operators of the model.                                                 *)

LEMMA OtherIsUser == ASSUME NEW u \in Uids PROVE Other(u) \in Uids /\ Other(u) # u
BY ConstantsAssumption DEF Other

LEMMA FirstFits ==
  ASSUME NEW n \in Nat, NEW S \in SUBSET (1 .. n)
  PROVE  IF S = {} THEN First(S) = 0 ELSE First(S) \in S
<1>1. CASE S = {}
  BY <1>1 DEF First
<1>2. CASE S # {}
  <2>1. S \subseteq Nat
    OBVIOUS
  <2>2. PICK i \in S : \A j \in S : ~(<<j, i>> \in OpToRel(<, Nat))
    BY <1>2, <2>1, NatLessThanWellFounded, WFMin
  <2>3. \A j \in S : i <= j
    <3>1. \A j \in S : ~(j < i)
      BY <2>1, <2>2 DEF OpToRel
    <3> QED
      BY <2>1, <3>1
  <2> QED
    BY <1>2, <2>3 DEF First
<1> QED
  BY <1>1, <1>2

LEMMA RoomsSeq ==
  ASSUME TypeOK
  PROVE  /\ rooms \in Seq(Rooms) /\ Len(rooms) \in Nat /\ DOMAIN rooms = 1 .. Len(rooms)
         /\ \A i \in DOMAIN rooms : rooms[i] \in Rooms
BY DEF TypeOK

LEMMA RoomsFound ==
  ASSUME TypeOK, NEW u
  PROVE  IF HasPrivate THEN FindPrivate(u) \in DOMAIN rooms /\ Private(FindPrivate(u))
         ELSE FindPrivate(u) = 0
<1> DEFINE S == {i \in DOMAIN rooms : rooms[i].type = "private"}
<1>1. S \in SUBSET (1 .. Len(rooms)) /\ Len(rooms) \in Nat
  BY RoomsSeq
<1>2. FindPrivate(u) = First(S)
  BY DEF FindPrivate
<1>3. HasPrivate <=> S # {}
  BY DEF HasPrivate, Private
<1>4. \A i \in S : i \in DOMAIN rooms /\ Private(i)
  BY DEF Private
<1> HIDE DEF S
<1> QED
  BY <1>1, <1>2, <1>3, <1>4, FirstFits

(* Upgrading rooms keeps them all, and closes none.                        *)
LEMMA UpgradeKeeps ==
  ASSUME TypeOK, NEW S \in SUBSET DOMAIN rooms, \A i \in S : CanUpgrade(i), rooms' = Upgraded(S)
  PROVE  /\ rooms' \in Seq(Rooms) /\ Len(rooms') = Len(rooms) /\ DOMAIN rooms' = DOMAIN rooms
         /\ \A i \in DOMAIN rooms :
              /\ (rooms[i].type = "groupPrivate" => rooms[i].open /\ rooms[i].from \in Groups)'
              /\ (rooms[i].type = "private" => rooms[i].from = None)'
              /\ Private(i) => Private(i)'
              /\ Closed(i)' <=> Closed(i)
         /\ \A i \in S : Private(i)'
<1>1. rooms' \in [1 .. Len(rooms) -> Rooms]
  BY RoomsSeq DEF Upgraded, Rooms
<1>2. rooms' \in Seq(Rooms) /\ Len(rooms') = Len(rooms) /\ DOMAIN rooms' = DOMAIN rooms
  BY <1>1, RoomsSeq, SeqDef
<1>3. ASSUME NEW i \in DOMAIN rooms, i \notin S
      PROVE  rooms'[i] = rooms[i]
  BY <1>3 DEF Upgraded
<1>4. ASSUME NEW i \in S
      PROVE  /\ rooms[i].type = "groupPrivate" /\ rooms[i].open /\ rooms'[i].type = "private"
             /\ rooms'[i].open = rooms[i].open /\ rooms'[i].from = None
  <2>1. rooms'[i] = [rooms[i] EXCEPT !.type = "private", !.from = None]
    BY DEF Upgraded
  <2> QED
    BY <2>1, RoomsSeq DEF CanUpgrade, TypeOK, Rooms
<1> QED
  BY <1>2, <1>3, <1>4 DEF TypeOK, Private, Closed

LEMMA AppendKeeps ==
  ASSUME TypeOK, NEW r \in Rooms, rooms' = Append(rooms, r)
  PROVE  /\ rooms' \in Seq(Rooms) /\ Len(rooms') = Len(rooms) + 1
         /\ DOMAIN rooms' = DOMAIN rooms \cup {Len(rooms) + 1}
         /\ \A i \in DOMAIN rooms : rooms'[i] = rooms[i]
         /\ rooms'[Len(rooms) + 1] = r /\ Len(rooms) + 1 \notin DOMAIN rooms
BY RoomsSeq

-----------------------------------------------------------------------------
(* What a step leaves alone.                                               *)

LEMMA GoMoves ==
  ASSUME TypeOK, NEW h \in Slots, NEW next \in Stages, NEW t, Go(h, next, t),
         next # "idle" => t \in Tasks
  PROVE  /\ pc' \in [Slots -> Stages] /\ task' \in [Slots -> Tasks \cup {None}]
         /\ \A g \in Slots : (pc'[g] = "idle") <=> (task'[g] = None)
         /\ pc'[h] = next /\ task'[h] = IF next = "idle" THEN None ELSE t
         /\ \A g \in Slots \ {h} : pc'[g] = pc[g] /\ task'[g] = task[g]
BY NoneIsNoTask DEF TypeOK, Go

LEMMA TaskTyped ==
  ASSUME TypeOK, NEW h \in Slots, pc[h] # "idle"
  PROVE  /\ task[h] \in Tasks /\ task[h] # None
         /\ task[h].by \in Uids /\ task[h].on \in Uids
BY NoneIsNoTask DEF TypeOK, Tasks

LEMMA OverwriteTypes ==
  ASSUME TypeOK, NEW h \in Slots, NEW s, Overwrite(h, OnRequest(s)),
         \A g \in Slots \ {h} : pc'[g] = pc[g]
  PROVE  dirty' \subseteq {g \in Slots : pc'[g] # "idle"} /\ disturbed' \in BOOLEAN
BY DEF TypeOK, Overwrite, OnRequest

LEMMA TasksKept ==
  ASSUME TypeOK, TypeOK', \A g \in Slots : TaskSound(g),
         Len(rooms) <= Len(rooms'), HasPrivate => HasPrivate',
         \A g \in Slots :
           \/ TaskSound(g)'
           \/ /\ pc'[g] = pc[g] /\ task'[g] = task[g]
              /\ pc[g] = "accept" /\ task[g].room = 0 =>
                   \A i \in DOMAIN rooms' : ~Closed(i)'
  PROVE  \A g \in Slots : TaskSound(g)'
<1> SUFFICES ASSUME NEW g \in Slots, ~TaskSound(g)' PROVE FALSE
  OBVIOUS
<1>1. /\ pc'[g] = pc[g] /\ task'[g] = task[g] /\ TaskSound(g)
      /\ pc[g] = "accept" /\ task[g].room = 0 => \A i \in DOMAIN rooms' : ~Closed(i)'
  OBVIOUS
<1>2. /\ Len(rooms) \in Nat /\ DOMAIN rooms = 1 .. Len(rooms)
      /\ Len(rooms') \in Nat /\ DOMAIN rooms' = 1 .. Len(rooms')
  BY DEF TypeOK
<1>3. 0 .. Len(rooms) \subseteq 0 .. Len(rooms') /\ 1 .. Len(rooms) \subseteq 1 .. Len(rooms')
  <2> DEFINE m == Len(rooms)
             n == Len(rooms')
  <2>1. m \in Nat /\ n \in Nat /\ m <= n
    BY <1>2
  <2> HIDE DEF m, n
  <2>2. 0 .. m \subseteq 0 .. n /\ 1 .. m \subseteq 1 .. n
    BY <2>1
  <2> QED
    BY <2>2 DEF m, n
<1>4. DOMAIN rooms \subseteq DOMAIN rooms'
  BY <1>2, <1>3
<1> QED
  BY <1>1, <1>3, <1>4 DEF TaskSound

LEMMA RowsKept ==
  ASSUME RowsSound,
         \A u \in Uids : (row'[u] = "none") <=> (row[u] = "none"),
         \A i \in DOMAIN rooms : Private(i) => i \in DOMAIN rooms' /\ Private(i)',
         \A u \in Uids : session[u] \subseteq session'[u]
  PROVE  RowsSound'
BY DEF RowsSound, Related

(* A step that writes no request and no notification.                      *)
LEMMA NotesKept ==
  ASSUME \A g \in Slots : NoteSound(g), \A s \in Uids : NotesSound(s),
         UNCHANGED <<req, note>>, disturbed => disturbed',
         \A g \in Slots :
           \/ pc'[g] = pc[g] /\ task'[g] = task[g]
           \/ /\ pc'[g] \notin {"noteTo", "noteBy"}
              /\ pc[g] \in {"noteTo", "noteBy"} => disturbed',
         \A g \in Slots : pc'[g] \in {"noteTo", "noteBy"} /\ g \in dirty => g \in dirty'
  PROVE  /\ \A g \in Slots : NoteSound(g)'
         /\ \A s \in Uids : NotesSound(s)'
<1>1. ASSUME NEW g \in Slots
      PROVE  NoteSound(g)'
  BY <1>1 DEF NoteSound
<1>2. ASSUME NEW s \in Uids
      PROVE  NotesSound(s)'
  <2>1. ASSUME ~disturbed', NEW g \in Slots, Notifying(g, s)
        PROVE  Notifying(g, s)'
    BY <2>1 DEF Notifying
  <2> QED
    BY <2>1 DEF NotesSound
<1> QED
  BY <1>1, <1>2

(* A step that writes the request or the notifications of s: every other   *)
(* handler of the request is overtaken.                                    *)
LEMMA NotesWritten ==
  ASSUME IInv, NEW h \in Slots, NEW s \in Uids, pc[h] # "idle", task[h].on = s,
         Overwrite(h, OnRequest(s)),
         \A r \in Uids \ {s} : req'[r] = req[r] /\ note'[r] = note[r],
         \A g \in Slots \ {h} : pc'[g] = pc[g] /\ task'[g] = task[g],
         \/ Notifying(h, s)' /\ (h \notin dirty => NoteSound(h)')
         \/ /\ pc'[h] \notin {"noteTo", "noteBy"}
            /\ h \notin dirty /\ ~disturbed => note'[s] = [to |-> req'[s], by |-> req'[s]]
  PROVE  /\ \A g \in Slots : NoteSound(g)'
         /\ \A r \in Uids : NotesSound(r)'
<1>1. /\ disturbed' = (disturbed \/ h \in dirty)
      /\ \A g \in Slots \ {h} : g \in dirty \/ g \in OnRequest(s) => g \in dirty'
  BY DEF Overwrite
<1>2. ASSUME NEW g \in Slots
      PROVE  NoteSound(g)'
  <2>1. CASE g = h
    BY <1>1, <2>1 DEF NoteSound
  <2>2. CASE g # h /\ pc[g] \in {"noteTo", "noteBy"} /\ task[g].on = s
    <3>1. g \in OnRequest(s)
      BY <2>2, TaskTyped DEF OnRequest, IInv, TaskSound
    <3> QED
      BY <1>1, <2>2, <3>1 DEF NoteSound
  <2>3. CASE g # h /\ pc[g] \in {"noteTo", "noteBy"} /\ task[g].on # s
    <3>1. task[g].on \in Uids \ {s}
      BY <2>3, TaskTyped DEF IInv
    <3>2. NoteSound(g) /\ pc'[g] = pc[g] /\ task'[g] = task[g]
      BY <2>3 DEF IInv
    <3>3. req'[task[g].on] = req[task[g].on] /\ note'[task[g].on] = note[task[g].on]
      BY <3>1
    <3> QED
      BY <1>1, <2>3, <3>2, <3>3 DEF NoteSound
  <2>4. CASE g # h /\ pc[g] \notin {"noteTo", "noteBy"}
    BY <2>4 DEF NoteSound
  <2> QED
    BY <2>1, <2>2, <2>3, <2>4
<1>3. ASSUME NEW r \in Uids
      PROVE  NotesSound(r)'
  <2>1. CASE r # s
    <3>1. \A g \in Slots : Notifying(g, r) => Notifying(g, r)'
      BY <2>1 DEF Notifying
    <3> QED
      BY <1>1, <2>1, <3>1 DEF NotesSound, IInv
  <2>2. CASE r = s
    <3>1. CASE Notifying(h, s)'
      BY <2>2, <3>1 DEF NotesSound
    <3>2. CASE ~Notifying(h, s)'
      BY <1>1, <2>2, <3>2 DEF NotesSound
    <3> QED
      BY <3>1, <3>2
  <2> QED
    BY <2>1, <2>2
<1> QED
  BY <1>2, <1>3

-----------------------------------------------------------------------------
(* Steps that change no data.                                              *)

LEMMA QuietKeeps ==
  ASSUME IInv, NEW h \in Slots, UNCHANGED dataVars,
         pc' \in [Slots -> Stages], task' \in [Slots -> Tasks \cup {None}],
         \A g \in Slots : (pc'[g] = "idle") <=> (task'[g] = None),
         \A g \in Slots \ {h} : pc'[g] = pc[g] /\ task'[g] = task[g],
         TaskSound(h)', pc'[h] \notin {"accept", "noteTo", "noteBy"},
         dirty' = dirty \/ dirty' = dirty \ {h}, h \in dirty' => pc'[h] # "idle",
         disturbed' \in BOOLEAN, disturbed => disturbed',
         pc[h] \in {"noteTo", "noteBy"} => disturbed'
  PROVE  IInv'
<1>1. TypeOK /\ \A g \in Slots : TaskSound(g) /\ NoteSound(g)
  BY DEF IInv
<1>2. TypeOK'
  <2>1. dirty' \subseteq {g \in Slots : pc'[g] # "idle"}
    BY <1>1 DEF TypeOK
  <2> QED
    BY <1>1, <2>1 DEF TypeOK, dataVars
<1>3. \A i \in DOMAIN rooms : (Private(i)' <=> Private(i)) /\ (Closed(i)' <=> Closed(i))
  BY DEF Private, Closed, dataVars
<1>4. HasPrivate => HasPrivate'
  BY DEF HasPrivate, Private, dataVars
<1>5. \A g \in Slots : TaskSound(g)'
  <2>1. ASSUME NEW g \in Slots, g # h, pc[g] = "accept", task[g].room = 0
        PROVE  \A i \in DOMAIN rooms' : ~Closed(i)'
    BY <1>1, <1>3, <2>1 DEF TaskSound, dataVars
  <2>2. Len(rooms) <= Len(rooms')
    BY <1>1, RoomsSeq DEF dataVars
  <2> QED
    BY <1>1, <1>2, <1>4, <2>1, <2>2, TasksKept
<1>6. RowsSound'
  BY <1>3, RowsKept DEF IInv, dataVars
<1>7. OneRelates'
  BY DEF IInv, OneRelates
<1>8. OneClosed'
  BY <1>3 DEF IInv, OneClosed, dataVars
<1>9. /\ \A g \in Slots : NoteSound(g)'
      /\ \A s \in Uids : NotesSound(s)'
  <2>1. \A g \in Slots : pc'[g] \in {"noteTo", "noteBy"} /\ g \in dirty => g \in dirty'
    OBVIOUS
  <2> QED
    BY <2>1, NotesKept DEF IInv, dataVars
<1> QED
  BY <1>2, <1>5, <1>6, <1>7, <1>8, <1>9 DEF IInv

LEMMA StartKeeps ==
  ASSUME IInv, NEW h \in Slots, NEW next \in {"save", "lock", "reject", "find"}, NEW t \in Tasks,
         Start(h, next, t),
         next = "save" => t.op = "create",
         next = "lock" => t.op = "accept" /\ t.room \in 0 .. Len(rooms),
         next = "reject" => t.op = "reject",
         next = "find" => /\ t.op \in {"ensure", "open", "group"}
                          /\ t.op = "group" => t.plan \in Groups
                          /\ t.op = "ensure" => HasPrivate
  PROVE  IInv'
<1>1. TypeOK
  BY DEF IInv
<1>2. /\ pc' \in [Slots -> Stages] /\ task' \in [Slots -> Tasks \cup {None}]
      /\ \A g \in Slots : (pc'[g] = "idle") <=> (task'[g] = None)
      /\ pc'[h] = next /\ task'[h] = t
      /\ \A g \in Slots \ {h} : pc'[g] = pc[g] /\ task'[g] = task[g]
  BY <1>1, NoneIsNoTask DEF TypeOK, Start, Stages
<1>3. UNCHANGED <<dataVars, dirty, disturbed>> /\ pc[h] = "idle"
  BY DEF Start
<1>4. TaskSound(h)'
  BY <1>2, <1>3 DEF TaskSound, HasPrivate, Private, dataVars
<1> QED
  BY <1>1, <1>2, <1>3, <1>4, QuietKeeps DEF TypeOK

LEMMA RequestKeeps ==
  ASSUME IInv, NEW h \in Slots, Request(h)
  PROVE  IInv'
<1>1. TypeOK /\ RowsSound
  BY DEF IInv
<1>2. \A u \in Uids : EnsureFriend(u) => HasPrivate
  BY <1>1 DEF EnsureFriend, RowsSound, Related, HasPrivate, Private
<1>3. PICK u \in Uids :
        \/ CreateFriendRequest(h, u) \/ RejectFriendRequest(h, u) \/ OpenPrivateChat(h, u)
        \/ \E r \in 0 .. MaxRooms : AcceptFriendRequest(h, u, r)
        \/ \E g \in Groups : OpenGroupPrivateChat(h, u, g)
  BY DEF Request
<1>4. MaxRooms \in Nat /\ Other(u) \in Uids
  BY ConstantsAssumption, OtherIsUser
<1>5. CASE CreateFriendRequest(h, u)
  <2>1. Task("create", u, u) \in Tasks /\ Task("create", u, u).op = "create"
    BY <1>4 DEF Task, Tasks
  <2> QED
    BY <1>5, <2>1, StartKeeps DEF CreateFriendRequest
<1>6. CASE RejectFriendRequest(h, u)
  <2>1. Task("reject", Other(u), u) \in Tasks /\ Task("reject", Other(u), u).op = "reject"
    BY <1>4 DEF Task, Tasks
  <2> QED
    BY <1>6, <2>1, StartKeeps DEF RejectFriendRequest
<1>7. CASE OpenPrivateChat(h, u)
  <2> DEFINE t == Task(IF EnsureFriend(u) THEN "ensure" ELSE "open", u, u)
  <2>1. /\ t \in Tasks /\ t.op \in {"ensure", "open"}
        /\ t.op = "ensure" => EnsureFriend(u)
    BY <1>4 DEF Task, Tasks
  <2>2. Start(h, "find", t)
    BY <1>7 DEF OpenPrivateChat
  <2> HIDE DEF t
  <2> QED
    BY <1>2, <2>1, <2>2, StartKeeps
<1>8. ASSUME NEW r \in 0 .. MaxRooms, AcceptFriendRequest(h, u, r)
      PROVE  IInv'
  <2> DEFINE t == [Task("accept", Other(u), u) EXCEPT !.room = r]
  <2>1. t \in Tasks /\ t.op = "accept" /\ t.room = r
    BY <1>4 DEF Task, Tasks
  <2>2. Start(h, "lock", t) /\ r \in {0} \cup DOMAIN rooms
    BY <1>8 DEF AcceptFriendRequest
  <2>3. r \in 0 .. Len(rooms)
    BY <1>1, <2>2, RoomsSeq
  <2> HIDE DEF t
  <2> QED
    BY <2>1, <2>2, <2>3, StartKeeps
<1>9. ASSUME NEW g \in Groups, OpenGroupPrivateChat(h, u, g)
      PROVE  IInv'
  <2> DEFINE t == [Task(IF EnsureFriend(u) THEN "ensure" ELSE "group", u, u) EXCEPT !.plan = g]
  <2>1. /\ t \in Tasks /\ t.op \in {"ensure", "group"} /\ t.plan = g
        /\ t.op = "ensure" => EnsureFriend(u)
    BY <1>4 DEF Task, Tasks
  <2>2. Start(h, "find", t)
    BY <1>9 DEF OpenGroupPrivateChat
  <2> HIDE DEF t
  <2> QED
    BY <1>2, <2>1, <2>2, StartKeeps
<1> QED
  BY <1>3, <1>5, <1>6, <1>7, <1>8, <1>9

LEMMA LockRequestKeeps ==
  ASSUME IInv, NEW h \in Slots, LockRequest(h)
  PROVE  IInv'
<1> DEFINE plan == IF AreFriends THEN "keep" ELSE IF OneSideDeleted THEN "restore" ELSE "create"
           t == [task[h] EXCEPT !.plan = plan]
<1>1. TypeOK /\ TaskSound(h) /\ RowsSound
  BY DEF IInv
<1>2. pc[h] = "lock" /\ Go(h, "relate", t) /\ UNCHANGED <<dataVars, dirty, disturbed>>
  BY DEF LockRequest
<1>3. task[h] \in Tasks
  BY <1>1, <1>2, TaskTyped
<1>4. plan \in {"create", "restore", "keep"} /\ (plan # "create" => HasPrivate)
  <2>1. AreFriends \/ OneSideDeleted => Related
    BY ConstantsAssumption DEF AreFriends, OneSideDeleted, Related
  <2>2. Related => HasPrivate
    BY <1>1 DEF RowsSound, HasPrivate
  <2> QED
    BY <2>1, <2>2
<1>5. t \in Tasks /\ t.op = task[h].op /\ t.room = task[h].room /\ t.plan = plan
  <2> HIDE DEF plan
  <2> QED
    BY <1>3, <1>4 DEF Tasks
<1> HIDE DEF plan, t
<1>6. /\ pc' \in [Slots -> Stages] /\ task' \in [Slots -> Tasks \cup {None}]
      /\ \A g \in Slots : (pc'[g] = "idle") <=> (task'[g] = None)
      /\ pc'[h] = "relate" /\ task'[h] = t
      /\ \A g \in Slots \ {h} : pc'[g] = pc[g] /\ task'[g] = task[g]
  BY <1>1, <1>2, <1>5, GoMoves DEF Stages
<1>7. TaskSound(h)'
  BY <1>1, <1>2, <1>4, <1>5, <1>6 DEF TaskSound, HasPrivate, Private, dataVars
<1> QED
  BY <1>1, <1>2, <1>6, <1>7, QuietKeeps DEF TypeOK

LEMMA FindRoomKeeps ==
  ASSUME IInv, NEW h \in Slots, FindRoom(h)
  PROVE  IInv'
<1> DEFINE i == IF task[h].op = "group" THEN FindGroupPrivate(task[h].plan)
                ELSE FindPrivate(task[h].by)
           next == IF i = 0 THEN "make" ELSE "enter"
           t == [task[h] EXCEPT !.room = i]
<1>1. TypeOK /\ TaskSound(h)
  BY DEF IInv
<1>2. pc[h] = "find" /\ Go(h, next, t) /\ UNCHANGED <<dataVars, dirty, disturbed>>
  BY DEF FindRoom
<1>3. task[h] \in Tasks
  BY <1>1, <1>2, TaskTyped
<1>4. /\ i = 0 \/ i \in DOMAIN rooms
      /\ task[h].op = "ensure" => i # 0
  <2>1. CASE task[h].op = "group"
    <3> DEFINE S == {j \in DOMAIN rooms :
                       rooms[j].type = "groupPrivate" /\ rooms[j].from = task[h].plan}
    <3>1. S \in SUBSET (1 .. Len(rooms)) /\ Len(rooms) \in Nat /\ S \subseteq DOMAIN rooms
      BY <1>1, RoomsSeq
    <3>2. i = First(S)
      BY <2>1 DEF FindGroupPrivate
    <3> HIDE DEF S, i
    <3> QED
      BY <2>1, <3>1, <3>2, FirstFits
  <2>2. CASE task[h].op # "group"
    <3>1. 0 \notin DOMAIN rooms
      BY <1>1, RoomsSeq
    <3> QED
      BY <1>1, <1>2, <2>2, <3>1, RoomsFound DEF TaskSound
  <2> QED
    BY <2>1, <2>2
<1>5. 0 .. Len(rooms) \subseteq 0 .. MaxRooms
  <2> DEFINE n == Len(rooms)
  <2>1. n \in Nat /\ MaxRooms \in Nat /\ n <= MaxRooms
    BY <1>1, RoomsSeq, ConstantsAssumption DEF TypeOK
  <2> HIDE DEF n
  <2>2. 0 .. n \subseteq 0 .. MaxRooms
    BY <2>1
  <2> QED
    BY <2>2 DEF n
<1>6. i \in 0 .. MaxRooms
  <2>1. 0 \in 0 .. Len(rooms) /\ DOMAIN rooms \subseteq 0 .. Len(rooms)
    BY <1>1, RoomsSeq
  <2> HIDE DEF i
  <2> QED
    BY <1>4, <1>5, <2>1
<1> HIDE DEF i
<1>7. /\ t \in Tasks /\ t.op = task[h].op /\ t.plan = task[h].plan /\ t.room = i
      /\ next \in {"make", "enter"} /\ (next = "make" <=> i = 0)
  BY <1>3, <1>6 DEF Tasks
<1> HIDE DEF next, t
<1>8. /\ pc' \in [Slots -> Stages] /\ task' \in [Slots -> Tasks \cup {None}]
      /\ \A g \in Slots : (pc'[g] = "idle") <=> (task'[g] = None)
      /\ pc'[h] = next /\ task'[h] = t
      /\ \A g \in Slots \ {h} : pc'[g] = pc[g] /\ task'[g] = task[g]
  BY <1>1, <1>2, <1>7, GoMoves DEF Stages
<1>9. TaskSound(h)'
  BY <1>1, <1>2, <1>4, <1>7, <1>8 DEF TaskSound, HasPrivate, Private, dataVars
<1> QED
  BY <1>1, <1>2, <1>7, <1>8, <1>9, QuietKeeps DEF TypeOK

LEMMA EndKeeps ==
  ASSUME IInv, NEW h \in Slots, RelateConflict(h) \/ Fail(h)
  PROVE  IInv'
<1>1. TypeOK
  BY DEF IInv
<1>2. /\ Go(h, "idle", None) /\ dirty' = dirty \ {h} /\ UNCHANGED dataVars
      /\ \/ disturbed' = disturbed /\ pc[h] = "relate"
         \/ disturbed' = (disturbed \/ pc[h] \in {"noteTo", "noteBy"})
  BY DEF RelateConflict, Fail
<1>3. /\ pc' \in [Slots -> Stages] /\ task' \in [Slots -> Tasks \cup {None}]
      /\ \A g \in Slots : (pc'[g] = "idle") <=> (task'[g] = None)
      /\ pc'[h] = "idle"
      /\ \A g \in Slots \ {h} : pc'[g] = pc[g] /\ task'[g] = task[g]
  BY <1>1, <1>2, GoMoves DEF Stages
<1>4. TaskSound(h)'
  BY <1>3 DEF TaskSound
<1>5. /\ disturbed' \in BOOLEAN /\ (disturbed => disturbed')
      /\ pc[h] \in {"noteTo", "noteBy"} => disturbed'
  <2>1. disturbed \in BOOLEAN /\ ("relate" \notin {"noteTo", "noteBy"})
    BY <1>1 DEF TypeOK
  <2>2. CASE disturbed' = disturbed /\ pc[h] = "relate"
    BY <2>1, <2>2
  <2>3. CASE disturbed' = (disturbed \/ pc[h] \in {"noteTo", "noteBy"})
    BY <2>1, <2>3
  <2> QED
    BY <1>2, <2>2, <2>3
<1> QED
  BY <1>1, <1>2, <1>3, <1>4, <1>5, QuietKeeps

-----------------------------------------------------------------------------
(* Steps that write a request or its notifications.                        *)

LEMMA NoteStepKeeps ==
  ASSUME IInv, NEW h \in Slots, NEW s \in Uids, pc[h] # "idle", task[h].on = s,
         UNCHANGED <<row, rooms, session>>, Overwrite(h, OnRequest(s)),
         req' \in [Uids -> States], note' \in [Uids -> [to : States, by : States]],
         \A r \in Uids \ {s} : req'[r] = req[r] /\ note'[r] = note[r],
         NEW next \in {"noteTo", "noteBy", "idle"}, Go(h, next, task[h]),
         next # "idle" => /\ task[h].op = "create"
                          /\ h \notin dirty /\ ~disturbed' => req'[s] = "pending"
                          /\ h \notin dirty /\ ~disturbed' /\ next = "noteBy" =>
                               note'[s].to = "pending",
         next = "idle" => (h \notin dirty /\ ~disturbed =>
                             note'[s] = [to |-> req'[s], by |-> req'[s]])
  PROVE  IInv'
<1>1. TypeOK /\ \A g \in Slots : TaskSound(g) /\ NoteSound(g)
  BY DEF IInv
<1>2. task[h] \in Tasks
  BY <1>1, TaskTyped
<1>3. /\ pc' \in [Slots -> Stages] /\ task' \in [Slots -> Tasks \cup {None}]
      /\ \A g \in Slots : (pc'[g] = "idle") <=> (task'[g] = None)
      /\ pc'[h] = next /\ (next # "idle" => task'[h] = task[h])
      /\ \A g \in Slots \ {h} : pc'[g] = pc[g] /\ task'[g] = task[g]
  BY <1>1, <1>2, GoMoves DEF Stages
<1>4. TypeOK'
  <2>1. dirty' \subseteq {g \in Slots : pc'[g] # "idle"} /\ disturbed' \in BOOLEAN
    BY <1>1, <1>3, OverwriteTypes
  <2> QED
    BY <1>1, <1>3, <2>1 DEF TypeOK
<1>5. \A i \in DOMAIN rooms : (Private(i)' <=> Private(i)) /\ (Closed(i)' <=> Closed(i))
  BY DEF Private, Closed
<1>6. HasPrivate => HasPrivate'
  BY DEF HasPrivate, Private
<1>7. \A g \in Slots : TaskSound(g)'
  <2>1. TaskSound(h)'
    BY <1>3 DEF TaskSound
  <2>2. ASSUME NEW g \in Slots, g # h, pc[g] = "accept", task[g].room = 0
        PROVE  \A i \in DOMAIN rooms' : ~Closed(i)'
    BY <1>1, <1>5, <2>2 DEF TaskSound
  <2>3. Len(rooms) <= Len(rooms')
    BY <1>1, RoomsSeq
  <2> QED
    BY <1>1, <1>3, <1>4, <1>6, <2>1, <2>2, <2>3, TasksKept
<1>8. RowsSound'
  BY <1>5, RowsKept DEF IInv
<1>9. OneRelates'
  BY <1>3 DEF IInv, OneRelates
<1>10. OneClosed'
  BY <1>5 DEF IInv, OneClosed
<1>11. /\ \A g \in Slots : NoteSound(g)'
       /\ \A r \in Uids : NotesSound(r)'
  <2>1. CASE next = "idle"
    BY <1>3, <2>1, NotesWritten
  <2>2. CASE next # "idle"
    <3>1. Notifying(h, s)'
      BY <1>3, <2>2 DEF Notifying
    <3>2. h \notin dirty => NoteSound(h)'
      BY <1>3, <2>2 DEF NoteSound
    <3> QED
      BY <1>3, <3>1, <3>2, NotesWritten
  <2> QED
    BY <2>1, <2>2
<1> QED
  BY <1>4, <1>7, <1>8, <1>9, <1>10, <1>11 DEF IInv

LEMMA NotifyKeeps ==
  ASSUME IInv, NEW h \in Slots,
         SaveRequest(h) \/ SaveNoteTo(h) \/ SaveNoteBy(h) \/ CommitReject(h)
  PROVE  IInv'
<1> DEFINE s == task[h].on
<1>1. TypeOK /\ TaskSound(h) /\ NoteSound(h) /\ pc[h] # "idle"
  BY DEF IInv, SaveRequest, SaveNoteTo, SaveNoteBy, CommitReject
<1>2. /\ s \in Uids /\ req \in [Uids -> States] /\ note \in [Uids -> [to : States, by : States]]
      /\ disturbed \in BOOLEAN
  BY <1>1, TaskTyped DEF TypeOK
<1>3. Overwrite(h, OnRequest(s)) /\ (disturbed => disturbed')
  BY <1>2 DEF SaveRequest, SaveNoteTo, SaveNoteBy, CommitReject, Overwrite
<1> HIDE DEF s
<1>4. CASE SaveRequest(h)
  <2>1. req' = [req EXCEPT ![s] = "pending"] /\ UNCHANGED <<row, note, rooms, session>>
    BY <1>4 DEF SaveRequest, s
  <2>2. /\ req' \in [Uids -> States] /\ req'[s] = "pending"
        /\ \A r \in Uids \ {s} : req'[r] = req[r]
    BY <1>2, <2>1 DEF States
  <2>3. Go(h, "noteTo", task[h]) /\ task[h].op = "create"
    BY <1>1, <1>4 DEF SaveRequest, TaskSound
  <2> QED
    BY <1>1, <1>2, <1>3, <2>1, <2>2, <2>3, NoteStepKeeps DEF s
<1>5. CASE SaveNoteTo(h)
  <2>1. note' = [note EXCEPT ![s].to = "pending"] /\ UNCHANGED <<row, req, rooms, session>>
    BY <1>5 DEF SaveNoteTo, ResetNote, s
  <2>2. /\ note' \in [Uids -> [to : States, by : States]] /\ note'[s].to = "pending"
        /\ \A r \in Uids \ {s} : note'[r] = note[r]
    BY <1>2, <2>1 DEF States
  <2>3. Go(h, "noteBy", task[h]) /\ task[h].op = "create" /\ pc[h] = "noteTo"
    BY <1>1, <1>5 DEF SaveNoteTo, TaskSound
  <2>4. h \notin dirty /\ ~disturbed' => req'[s] = "pending"
    BY <1>1, <1>3, <2>1, <2>3 DEF NoteSound, s
  <2> QED
    BY <1>1, <1>2, <1>3, <2>1, <2>2, <2>3, <2>4, NoteStepKeeps DEF s
<1>6. CASE SaveNoteBy(h)
  <2>1. note' = [note EXCEPT ![s].by = "pending"] /\ UNCHANGED <<row, req, rooms, session>>
    BY <1>6 DEF SaveNoteBy, ResetNote, s
  <2>2. /\ note' \in [Uids -> [to : States, by : States]]
        /\ note'[s] = [to |-> note[s].to, by |-> "pending"]
        /\ \A r \in Uids \ {s} : note'[r] = note[r]
    BY <1>2, <2>1 DEF States
  <2>3. Go(h, "idle", None) /\ pc[h] = "noteBy"
    BY <1>6 DEF SaveNoteBy
  <2>4. h \notin dirty /\ ~disturbed => note'[s] = [to |-> req'[s], by |-> req'[s]]
    BY <1>1, <2>1, <2>2, <2>3 DEF NoteSound, s
  <2>5. Go(h, "idle", task[h])
    BY <2>3 DEF Go
  <2> QED
    BY <1>1, <1>2, <1>3, <2>1, <2>2, <2>4, <2>5, NoteStepKeeps DEF s
<1>7. CASE CommitReject(h)
  <2>1. /\ req' = [req EXCEPT ![s] = "rejected"]
        /\ note' = [note EXCEPT ![s] = [to |-> "rejected", by |-> "rejected"]]
        /\ UNCHANGED <<row, rooms, session>>
    BY <1>7 DEF CommitReject, Answer, s
  <2>2. /\ req' \in [Uids -> States] /\ note' \in [Uids -> [to : States, by : States]]
        /\ req'[s] = "rejected" /\ note'[s] = [to |-> req'[s], by |-> req'[s]]
        /\ \A r \in Uids \ {s} : req'[r] = req[r] /\ note'[r] = note[r]
    BY <1>2, <2>1 DEF States
  <2>3. Go(h, "idle", task[h])
    BY <1>7 DEF CommitReject, Go
  <2> QED
    BY <1>1, <1>2, <1>3, <2>1, <2>2, <2>3, NoteStepKeeps DEF s
<1> QED
  BY <1>4, <1>5, <1>6, <1>7

-----------------------------------------------------------------------------
(* Steps that touch the rooms and the relation.                            *)

LEMMA RelateKeeps ==
  ASSUME IInv, NEW h \in Slots, Relate(h)
  PROVE  IInv'
<1> DEFINE t == [task[h] EXCEPT !.plan = Plan(task[h])]
           all == {i \in DOMAIN rooms : CanUpgrade(i)}
           found == IF FindPrivate(t.by) # 0 THEN FindPrivate(t.by) ELSE First(all)
           u == IF CanUpgrade(task[h].room) THEN t ELSE [t EXCEPT !.room = found]
<1>1. TypeOK /\ RowsSound /\ \A g \in Slots : TaskSound(g) /\ NoteSound(g)
  BY DEF IInv
<1>2. /\ pc[h] = "relate" /\ (task[h].plan # "keep" => ~LockedRelation)
      /\ UNCHANGED <<row, req, note, session, dirty, disturbed>>
  BY DEF Relate
<1>3. task[h] \in Tasks /\ task[h].op = "accept" /\ task[h].room \in 0 .. Len(rooms)
  BY <1>1, <1>2, TaskTyped DEF TaskSound
<1>4. /\ Plan(task[h]) \in {"create", "restore", "keep"}
      /\ Plan(task[h]) # "create" => HasPrivate
      /\ Plan(task[h]) # "keep" => task[h].plan # "keep"
  <2>1. task[h].by \in Uids
    BY <1>1, <1>2, TaskTyped
  <2>2. row[task[h].by] = "live" => HasPrivate
    BY <1>1, <2>1 DEF RowsSound, Related, HasPrivate
  <2>3. task[h].plan \in {"create", "restore", "keep"} /\ (task[h].plan # "create" => HasPrivate)
    BY <1>1, <1>2 DEF TaskSound
  <2> QED
    BY <2>2, <2>3 DEF Plan
<1>5. /\ t \in Tasks /\ t.op = "accept" /\ t.room = task[h].room /\ t.plan = Plan(task[h])
      /\ t.by = task[h].by
  BY <1>3, <1>4 DEF Tasks
<1>6. all \in SUBSET DOMAIN rooms /\ \A i \in all : CanUpgrade(i)
  OBVIOUS
<1>7. /\ found = 0 \/ found \in DOMAIN rooms
      /\ found = 0 => ~HasPrivate
  <2>1. Len(rooms) \in Nat /\ DOMAIN rooms = 1 .. Len(rooms) /\ all \in SUBSET (1 .. Len(rooms))
    BY <1>1, <1>6, RoomsSeq
  <2>2. 0 \notin DOMAIN rooms
    BY <2>1
  <2>3. CASE HasPrivate
    BY <1>1, <2>2, <2>3, RoomsFound
  <2>4. CASE ~HasPrivate
    <3>1. found = First(all)
      BY <1>1, <2>4, RoomsFound
    <3> HIDE DEF all, found
    <3> QED
      BY <1>6, <2>1, <2>4, <3>1, FirstFits
  <2> QED
    BY <2>3, <2>4
<1>8. /\ rooms' \in Seq(Rooms) /\ Len(rooms') = Len(rooms) /\ DOMAIN rooms' = DOMAIN rooms
      /\ \A i \in DOMAIN rooms :
           /\ (rooms[i].type = "groupPrivate" => rooms[i].open /\ rooms[i].from \in Groups)'
           /\ (rooms[i].type = "private" => rooms[i].from = None)'
           /\ Private(i) => Private(i)'
           /\ Closed(i)' <=> Closed(i)
  <2>1. CASE UNCHANGED rooms
    BY <1>1, <2>1 DEF TypeOK, Private, Closed
  <2>2. CASE rooms' = Upgraded(all)
    <3> HIDE DEF all
    <3> QED
      BY <1>1, <1>6, <2>2, UpgradeKeeps
  <2> QED
    BY <1>5, <2>1, <2>2 DEF Relate
<1>9. Go(h, "accept", u)
  BY <1>5 DEF Relate
<1>10. /\ u \in Tasks /\ u.op = "accept" /\ u.plan = Plan(task[h])
       /\ u.room \in 0 .. Len(rooms)
       /\ u.room = 0 => ~HasPrivate
  <2>1. 0 \in 0 .. Len(rooms) /\ DOMAIN rooms \subseteq 0 .. Len(rooms)
    BY <1>1, RoomsSeq
  <2>2. 0 .. Len(rooms) \subseteq 0 .. MaxRooms
    <3> DEFINE n == Len(rooms)
    <3>1. n \in Nat /\ MaxRooms \in Nat /\ n <= MaxRooms
      BY <1>1, RoomsSeq, ConstantsAssumption DEF TypeOK
    <3> HIDE DEF n
    <3>2. 0 .. n \subseteq 0 .. MaxRooms
      BY <3>1
    <3> QED
      BY <3>2 DEF n
  <2>3. CASE CanUpgrade(task[h].room)
    <3>1. u = t /\ task[h].room # 0
      BY <2>3 DEF CanUpgrade
    <3> HIDE DEF t, u
    <3> QED
      BY <1>3, <1>5, <3>1
  <2>4. CASE ~CanUpgrade(task[h].room)
    <3>1. u = [t EXCEPT !.room = found]
      BY <2>4
    <3>2. found \in 0 .. MaxRooms /\ found \in 0 .. Len(rooms)
      BY <1>7, <2>1, <2>2
    <3> HIDE DEF t, u, found
    <3> QED
      BY <1>5, <1>7, <3>1, <3>2 DEF Tasks
  <2> QED
    BY <2>3, <2>4
<1> HIDE DEF t, u, found, all
<1>11. /\ pc' \in [Slots -> Stages] /\ task' \in [Slots -> Tasks \cup {None}]
       /\ \A g \in Slots : (pc'[g] = "idle") <=> (task'[g] = None)
       /\ pc'[h] = "accept" /\ task'[h] = u
       /\ \A g \in Slots \ {h} : pc'[g] = pc[g] /\ task'[g] = task[g]
  BY <1>1, <1>9, <1>10, GoMoves DEF Stages
<1>12. TypeOK'
  <2>1. dirty' \subseteq {g \in Slots : pc'[g] # "idle"}
    BY <1>1, <1>2, <1>11 DEF TypeOK
  <2> QED
    BY <1>1, <1>2, <1>8, <1>11, <2>1 DEF TypeOK
<1>13. HasPrivate => HasPrivate'
  BY <1>8 DEF HasPrivate
<1>14. \A g \in Slots : TaskSound(g)'
  <2>1. ~HasPrivate => \A i \in DOMAIN rooms' : ~Closed(i)'
    BY <1>8 DEF HasPrivate, Closed
  <2>2. TaskSound(h)'
    BY <1>4, <1>8, <1>10, <1>11, <1>13, <2>1 DEF TaskSound
  <2>3. ASSUME NEW g \in Slots, g # h, pc[g] = "accept", task[g].room = 0
        PROVE  \A i \in DOMAIN rooms' : ~Closed(i)'
    BY <1>1, <1>8, <2>3 DEF TaskSound
  <2>4. Len(rooms) <= Len(rooms')
    BY <1>1, <1>8, RoomsSeq
  <2> QED
    BY <1>1, <1>11, <1>12, <1>13, <2>2, <2>3, <2>4, TasksKept
<1>15. RowsSound'
  BY <1>1, <1>2, <1>8, RowsKept
<1>16. OneRelates'
  <2>1. u.plan # "keep" => \A g \in Slots : ~(pc[g] = "accept" /\ task[g].plan # "keep")
    BY <1>2, <1>4, <1>10 DEF LockedRelation
  <2> QED
    BY <1>11, <2>1 DEF IInv, OneRelates
<1>17. OneClosed'
  BY <1>8 DEF IInv, OneClosed
<1>18. /\ \A g \in Slots : NoteSound(g)'
       /\ \A s \in Uids : NotesSound(s)'
  <2>1. \A g \in Slots : \/ pc'[g] = pc[g] /\ task'[g] = task[g]
                         \/ /\ pc'[g] \notin {"noteTo", "noteBy"}
                            /\ pc[g] \in {"noteTo", "noteBy"} => disturbed'
    BY <1>2, <1>11
  <2> QED
    BY <1>1, <1>2, <2>1, NotesKept DEF IInv
<1> QED
  BY <1>12, <1>14, <1>15, <1>16, <1>17, <1>18 DEF IInv

LEMMA CommitAcceptKeeps ==
  ASSUME IInv, NEW h \in Slots, CommitAccept(h)
  PROVE  IInv'
<1> DEFINE t == task[h]
           s == task[h].on
           i == IF t.room = 0 THEN Len(rooms) + 1 ELSE t.room
           one == {i} \cap {j \in DOMAIN rooms : CanUpgrade(j)}
<1>1. /\ TypeOK /\ RowsSound /\ OneRelates /\ OneClosed
      /\ \A g \in Slots : TaskSound(g) /\ NoteSound(g)
  BY DEF IInv
<1>2. /\ pc[h] = "accept" /\ i <= MaxRooms /\ Go(h, "idle", None)
      /\ rooms' = IF t.room = 0 THEN Append(rooms, Room("private", FALSE, None))
                  ELSE Upgraded(one)
      /\ session' = [v \in Uids |-> session[v] \cup {i}] /\ row' = Relation(t)
      /\ Answer(s, "accepted") /\ Overwrite(h, OnRequest(s))
  BY DEF CommitAccept, SessionsOfBoth
<1>3. t.room \in 0 .. Len(rooms) /\ s \in Uids
  BY <1>1, <1>2, TaskTyped DEF TaskSound
<1>4. /\ pc' \in [Slots -> Stages] /\ task' \in [Slots -> Tasks \cup {None}]
      /\ \A g \in Slots : (pc'[g] = "idle") <=> (task'[g] = None)
      /\ pc'[h] = "idle"
      /\ \A g \in Slots \ {h} : pc'[g] = pc[g] /\ task'[g] = task[g]
  BY <1>1, <1>2, GoMoves DEF Stages
<1>5. Len(rooms) \in Nat /\ DOMAIN rooms = 1 .. Len(rooms)
  BY <1>1, RoomsSeq
<1>6. /\ rooms' \in Seq(Rooms) /\ Len(rooms) <= Len(rooms') /\ Len(rooms') <= MaxRooms
      /\ DOMAIN rooms \subseteq DOMAIN rooms'
      /\ i \in DOMAIN rooms' /\ rooms'[i].type = "private"
      /\ \A j \in DOMAIN rooms' :
           /\ (rooms[j].type = "groupPrivate" => rooms[j].open /\ rooms[j].from \in Groups)'
           /\ (rooms[j].type = "private" => rooms[j].from = None)'
      /\ \A j \in DOMAIN rooms : (Private(j) => Private(j)') /\ (Closed(j)' <=> Closed(j))
      /\ t.room # 0 => DOMAIN rooms' = DOMAIN rooms
      /\ t.room = 0 => DOMAIN rooms' = DOMAIN rooms \cup {i} /\ i \notin DOMAIN rooms
  <2>1. CASE t.room = 0
    <3> DEFINE r == Room("private", FALSE, None)
    <3>1. r \in Rooms /\ r.type = "private" /\ r.from = None
      BY DEF Room, Rooms
    <3>2. rooms' = Append(rooms, r) /\ i = Len(rooms) + 1
      BY <1>2, <2>1
    <3> HIDE DEF r, i
    <3>3. /\ rooms' \in Seq(Rooms) /\ Len(rooms') = Len(rooms) + 1
          /\ DOMAIN rooms' = DOMAIN rooms \cup {i}
          /\ \A j \in DOMAIN rooms : rooms'[j] = rooms[j]
          /\ rooms'[i] = r /\ i \notin DOMAIN rooms
      BY <1>1, <3>1, <3>2, AppendKeeps
    <3>4. Len(rooms) <= Len(rooms') /\ Len(rooms') <= MaxRooms
      BY <1>2, <1>5, <3>2, <3>3
    <3> QED
      BY <1>1, <2>1, <3>1, <3>3, <3>4 DEF Private, Closed, TypeOK
  <2>2. CASE t.room # 0
    <3>1. i \in DOMAIN rooms /\ rooms' = Upgraded(one)
      BY <1>2, <1>3, <1>5, <2>2
    <3>2. one \in SUBSET DOMAIN rooms /\ \A j \in one : CanUpgrade(j)
      OBVIOUS
    <3>3. i \notin one => Private(i)
      <4>1. i # 0 /\ rooms[i] \in Rooms
        BY <1>1, <1>5, <3>1, RoomsSeq
      <4> HIDE DEF i
      <4> QED
        BY <3>1, <4>1 DEF CanUpgrade, Private, Rooms
    <3> HIDE DEF one, i
    <3>4. /\ rooms' \in Seq(Rooms) /\ Len(rooms') = Len(rooms) /\ DOMAIN rooms' = DOMAIN rooms
          /\ \A j \in DOMAIN rooms :
               /\ (rooms[j].type = "groupPrivate" => rooms[j].open /\ rooms[j].from \in Groups)'
               /\ (rooms[j].type = "private" => rooms[j].from = None)'
               /\ Private(j) => Private(j)'
               /\ Closed(j)' <=> Closed(j)
          /\ \A j \in one : Private(j)'
      BY <1>1, <3>1, <3>2, UpgradeKeeps
    <3>5. Len(rooms) <= Len(rooms') /\ Len(rooms') <= MaxRooms
      BY <1>1, <1>5, <3>4 DEF TypeOK
    <3>6. rooms'[i].type = "private"
      BY <3>1, <3>3, <3>4 DEF Private
    <3> QED
      BY <2>2, <3>1, <3>4, <3>5, <3>6
  <2> QED
    BY <2>1, <2>2
<1> HIDE DEF i, one
<1>7. /\ row' \in [Uids -> {"none", "live", "deleted"}]
      /\ row' = row \/ \A v \in Uids : row'[v] = "live"
  BY <1>1, <1>2 DEF Relation, TypeOK
<1>8. /\ req' \in [Uids -> States] /\ note' \in [Uids -> [to : States, by : States]]
      /\ note'[s] = [to |-> req'[s], by |-> req'[s]]
      /\ \A r \in Uids \ {s} : req'[r] = req[r] /\ note'[r] = note[r]
  <2> HIDE DEF s
  <2> QED
    BY <1>1, <1>2, <1>3 DEF Answer, TypeOK, States
<1>9. TypeOK'
  <2>1. dirty' \subseteq {g \in Slots : pc'[g] # "idle"} /\ disturbed' \in BOOLEAN
    BY <1>1, <1>2, <1>4, OverwriteTypes
  <2>2. session' \in [Uids -> SUBSET DOMAIN rooms']
    BY <1>1, <1>2, <1>6 DEF TypeOK
  <2> QED
    BY <1>4, <1>6, <1>7, <1>8, <2>1, <2>2 DEF TypeOK
<1>10. HasPrivate'
  BY <1>6 DEF HasPrivate, Private
<1>11. t.room = 0 => \A j \in DOMAIN rooms : ~Closed(j)
  BY <1>1, <1>2 DEF TaskSound
<1>12. \A g \in Slots : TaskSound(g)'
  <2>1. TaskSound(h)'
    BY <1>4 DEF TaskSound
  <2>2. ASSUME NEW g \in Slots, g # h, pc[g] = "accept", task[g].room = 0
        PROVE  \A j \in DOMAIN rooms' : ~Closed(j)'
    <3>1. task[g].plan = "create" /\ \A j \in DOMAIN rooms : ~Closed(j)
      BY <1>1, <2>2 DEF TaskSound
    <3>2. t.room # 0
      <4>1. t.room = 0 => t.plan = "create"
        BY <1>1, <1>2 DEF TaskSound
      <4> QED
        BY <1>1, <1>2, <2>2, <3>1, <4>1 DEF OneRelates
    <3> QED
      BY <1>6, <3>1, <3>2
  <2> QED
    BY <1>1, <1>4, <1>6, <1>9, <1>10, <2>1, <2>2, TasksKept
<1>13. RowsSound'
  <2>1. \A v \in Uids : i \in session'[v]
    BY <1>2
  <2>2. Related' => \A v \in Uids : row'[v] # "none"
    BY <1>1, <1>7 DEF RowsSound, Related
  <2> QED
    BY <1>6, <2>1, <2>2 DEF RowsSound, Private
<1>14. OneRelates'
  BY <1>1, <1>4 DEF OneRelates
<1>15. OneClosed'
  <2>1. CASE t.room = 0
    BY <1>6, <1>11, <2>1 DEF OneClosed
  <2>2. CASE t.room # 0
    BY <1>1, <1>6, <2>2 DEF OneClosed
  <2> QED
    BY <2>1, <2>2
<1>16. /\ \A g \in Slots : NoteSound(g)'
       /\ \A r \in Uids : NotesSound(r)'
  BY <1>2, <1>3, <1>4, <1>8, NotesWritten
<1> QED
  BY <1>9, <1>12, <1>13, <1>14, <1>15, <1>16 DEF IInv

LEMMA MakeRoomKeeps ==
  ASSUME IInv, NEW h \in Slots, MakeRoom(h)
  PROVE  IInv'
<1> DEFINE n == Len(rooms) + 1
           r == IF task[h].op = "open" THEN Room("private", TRUE, None)
                ELSE Room("groupPrivate", TRUE, task[h].plan)
           t == [task[h] EXCEPT !.room = n]
<1>1. TypeOK /\ RowsSound /\ OneClosed /\ \A g \in Slots : TaskSound(g) /\ NoteSound(g)
  BY DEF IInv
<1>2. /\ pc[h] = "make" /\ Len(rooms) < MaxRooms /\ Go(h, "enter", t)
      /\ UNCHANGED <<row, req, note, session, dirty, disturbed>>
  BY DEF MakeRoom
<1>3. /\ task[h] \in Tasks /\ task[h].op \in {"open", "group"}
      /\ task[h].op = "group" => task[h].plan \in Groups
  BY <1>1, <1>2, TaskTyped DEF TaskSound
<1>4. rooms' = Append(rooms, r)
  BY <1>3 DEF MakeRoom
<1>5. /\ r \in Rooms /\ r.open
      /\ r.type = "groupPrivate" => r.from \in Groups
      /\ r.type = "private" => r.from = None
  BY <1>3 DEF Room, Rooms
<1> HIDE DEF r
<1>6. /\ rooms' \in Seq(Rooms) /\ Len(rooms') = n /\ DOMAIN rooms' = DOMAIN rooms \cup {n}
      /\ \A i \in DOMAIN rooms : rooms'[i] = rooms[i]
      /\ rooms'[n] = r /\ n \notin DOMAIN rooms
  BY <1>1, <1>4, <1>5, AppendKeeps
<1>7. Len(rooms) <= n /\ n <= MaxRooms /\ n \in 0 .. MaxRooms
  BY <1>1, <1>2, RoomsSeq, ConstantsAssumption
<1>8. t \in Tasks /\ t.op = task[h].op /\ t.plan = task[h].plan /\ t.room = n
  <2> HIDE DEF n
  <2> QED
    BY <1>3, <1>7 DEF Tasks
<1> HIDE DEF n, t
<1>9. /\ pc' \in [Slots -> Stages] /\ task' \in [Slots -> Tasks \cup {None}]
      /\ \A g \in Slots : (pc'[g] = "idle") <=> (task'[g] = None)
      /\ pc'[h] = "enter" /\ task'[h] = t
      /\ \A g \in Slots \ {h} : pc'[g] = pc[g] /\ task'[g] = task[g]
  BY <1>1, <1>2, <1>8, GoMoves DEF Stages
<1>10. /\ \A i \in DOMAIN rooms : (Private(i) => Private(i)') /\ (Closed(i)' <=> Closed(i))
       /\ ~(rooms'[n].type = "private" /\ ~rooms'[n].open)
  BY <1>5, <1>6 DEF Private, Closed
<1>11. TypeOK'
  <2>1. dirty' \subseteq {g \in Slots : pc'[g] # "idle"}
    BY <1>1, <1>2, <1>9 DEF TypeOK
  <2>2. session' \in [Uids -> SUBSET DOMAIN rooms']
    BY <1>1, <1>2, <1>6 DEF TypeOK
  <2>3. \A i \in DOMAIN rooms' :
          /\ rooms'[i].type = "groupPrivate" => rooms'[i].open /\ rooms'[i].from \in Groups
          /\ rooms'[i].type = "private" => rooms'[i].from = None
    BY <1>1, <1>5, <1>6 DEF TypeOK
  <2> QED
    BY <1>1, <1>2, <1>6, <1>7, <1>9, <2>1, <2>2, <2>3 DEF TypeOK
<1>12. HasPrivate => HasPrivate'
  BY <1>6, <1>10 DEF HasPrivate
<1>13. \A g \in Slots : TaskSound(g)'
  <2>1. TaskSound(h)'
    BY <1>3, <1>6, <1>8, <1>9 DEF TaskSound
  <2>2. ASSUME NEW g \in Slots, g # h, pc[g] = "accept", task[g].room = 0
        PROVE  \A i \in DOMAIN rooms' : ~Closed(i)'
    BY <1>1, <1>6, <1>10, <2>2 DEF TaskSound, Closed, Private
  <2> QED
    BY <1>1, <1>6, <1>7, <1>9, <1>11, <1>12, <2>1, <2>2, TasksKept
<1>14. RowsSound'
  BY <1>1, <1>2, <1>6, <1>10, RowsKept
<1>15. OneRelates'
  BY <1>9 DEF IInv, OneRelates
<1>16. OneClosed'
  BY <1>1, <1>6, <1>10 DEF OneClosed, Closed, Private
<1>17. /\ \A g \in Slots : NoteSound(g)'
       /\ \A s \in Uids : NotesSound(s)'
  <2>1. \A g \in Slots : \/ pc'[g] = pc[g] /\ task'[g] = task[g]
                         \/ /\ pc'[g] \notin {"noteTo", "noteBy"}
                            /\ pc[g] \in {"noteTo", "noteBy"} => disturbed'
    BY <1>2, <1>9
  <2> QED
    BY <1>1, <1>2, <2>1, NotesKept DEF IInv
<1> QED
  BY <1>11, <1>13, <1>14, <1>15, <1>16, <1>17 DEF IInv

LEMMA SessionKeeps ==
  ASSUME IInv, UNCHANGED <<row, req, note, rooms, disturbed>>,
         session' \in [Uids -> SUBSET DOMAIN rooms],
         \A u \in Uids : session[u] \subseteq session'[u],
         pc' \in [Slots -> Stages], task' \in [Slots -> Tasks \cup {None}],
         \A g \in Slots : (pc'[g] = "idle") <=> (task'[g] = None),
         \A g \in Slots : \/ pc'[g] = pc[g] /\ task'[g] = task[g]
                          \/ pc[g] = "enter" /\ pc'[g] = "idle",
         dirty' \subseteq {g \in Slots : pc'[g] # "idle"},
         \A g \in Slots : pc'[g] \in {"noteTo", "noteBy"} /\ g \in dirty => g \in dirty'
  PROVE  IInv'
<1>1. TypeOK /\ RowsSound /\ \A g \in Slots : TaskSound(g) /\ NoteSound(g)
  BY DEF IInv
<1>2. TypeOK'
  BY <1>1 DEF TypeOK
<1>3. \A i \in DOMAIN rooms : (Private(i) <=> Private(i)') /\ (Closed(i)' <=> Closed(i))
  BY DEF Private, Closed
<1>4. \A g \in Slots : TaskSound(g)'
  <2>1. HasPrivate => HasPrivate'
    BY DEF HasPrivate, Private
  <2>2. ASSUME NEW g \in Slots
        PROVE  \/ TaskSound(g)'
               \/ /\ pc'[g] = pc[g] /\ task'[g] = task[g]
                  /\ pc[g] = "accept" /\ task[g].room = 0 =>
                       \A i \in DOMAIN rooms' : ~Closed(i)'
    BY <1>1, <1>3 DEF TaskSound
  <2>3. Len(rooms) <= Len(rooms')
    BY <1>1, RoomsSeq
  <2> QED
    BY <1>1, <1>2, <2>1, <2>2, <2>3, TasksKept
<1>5. RowsSound'
  BY <1>1, <1>3, RowsKept
<1>6. OneRelates'
  BY DEF IInv, OneRelates
<1>7. OneClosed'
  BY <1>3 DEF IInv, OneClosed
<1>8. /\ \A g \in Slots : NoteSound(g)'
      /\ \A s \in Uids : NotesSound(s)'
  <2>1. \A g \in Slots : \/ pc'[g] = pc[g] /\ task'[g] = task[g]
                         \/ /\ pc'[g] \notin {"noteTo", "noteBy"}
                            /\ pc[g] \in {"noteTo", "noteBy"} => disturbed'
    OBVIOUS
  <2> QED
    BY <1>1, <2>1, NotesKept DEF IInv
<1> QED
  BY <1>2, <1>4, <1>5, <1>6, <1>7, <1>8 DEF IInv

LEMMA EnterRoomKeeps ==
  ASSUME IInv, NEW h \in Slots, EnterRoom(h)
  PROVE  IInv'
<1>1. TypeOK /\ TaskSound(h)
  BY DEF IInv
<1>2. /\ pc[h] = "enter" /\ Go(h, "idle", None) /\ dirty' = dirty \ {h}
      /\ UNCHANGED <<row, req, note, rooms, disturbed>>
      /\ session' = session \/ session' = [session EXCEPT ![task[h].by] = @ \cup {task[h].room}]
  BY DEF EnterRoom
<1>3. task[h].by \in Uids /\ task[h].room \in DOMAIN rooms
  BY <1>1, <1>2, TaskTyped DEF TaskSound
<1>4. /\ session' \in [Uids -> SUBSET DOMAIN rooms]
      /\ \A u \in Uids : session[u] \subseteq session'[u]
  <2>1. session \in [Uids -> SUBSET DOMAIN rooms]
    BY <1>1 DEF TypeOK
  <2>2. CASE session' = session
    BY <2>1, <2>2
  <2>3. CASE session' = [session EXCEPT ![task[h].by] = @ \cup {task[h].room}]
    BY <1>3, <2>1, <2>3
  <2> QED
    BY <1>2, <2>2, <2>3
<1>5. /\ pc' \in [Slots -> Stages] /\ task' \in [Slots -> Tasks \cup {None}]
      /\ \A g \in Slots : (pc'[g] = "idle") <=> (task'[g] = None)
      /\ pc'[h] = "idle"
      /\ \A g \in Slots \ {h} : pc'[g] = pc[g] /\ task'[g] = task[g]
  BY <1>1, <1>2, GoMoves DEF Stages
<1>6. dirty' \subseteq {g \in Slots : pc'[g] # "idle"}
  BY <1>1, <1>2, <1>5 DEF TypeOK
<1> QED
  BY <1>2, <1>4, <1>5, <1>6, SessionKeeps

LEMMA SendMessageKeeps ==
  ASSUME IInv, NEW u \in Uids, NEW i, SendMessage(u, i)
  PROVE  IInv'
<1>1. TypeOK
  BY DEF IInv
<1>2. /\ i \in session[u] /\ session' = [session EXCEPT ![Other(u)] = @ \cup {i}]
      /\ UNCHANGED <<row, req, note, rooms, pc, task, dirty, disturbed>>
  BY DEF SendMessage
<1>3. /\ session' \in [Uids -> SUBSET DOMAIN rooms]
      /\ \A v \in Uids : session[v] \subseteq session'[v]
  BY <1>1, <1>2, OtherIsUser DEF TypeOK
<1>4. /\ pc' \in [Slots -> Stages] /\ task' \in [Slots -> Tasks \cup {None}]
      /\ \A g \in Slots : (pc'[g] = "idle") <=> (task'[g] = None)
      /\ dirty' \subseteq {g \in Slots : pc'[g] # "idle"}
  BY <1>1, <1>2 DEF TypeOK
<1> QED
  BY <1>2, <1>3, <1>4, SessionKeeps

LEMMA DeleteFriendKeeps ==
  ASSUME IInv, NEW u \in Uids, DeleteFriend(u)
  PROVE  IInv'
<1>1. TypeOK /\ RowsSound /\ \A g \in Slots : TaskSound(g) /\ NoteSound(g)
  BY DEF IInv
<1>2. /\ row[u] = "live" /\ row' = [row EXCEPT ![u] = "deleted"]
      /\ UNCHANGED <<req, note, rooms, session, pc, task, disturbed>>
      /\ dirty \subseteq dirty' /\ dirty' \subseteq dirty \cup {h \in Slots : task[h] # None}
  BY DEF DeleteFriend, Deleted
<1>3. /\ row' \in [Uids -> {"none", "live", "deleted"}]
      /\ \A v \in Uids : (row'[v] = "none") <=> (row[v] = "none")
  BY <1>1, <1>2 DEF TypeOK
<1>4. TypeOK'
  <2>1. dirty' \subseteq {g \in Slots : pc'[g] # "idle"}
    BY <1>1, <1>2 DEF TypeOK
  <2> QED
    BY <1>1, <1>2, <1>3, <2>1 DEF TypeOK
<1>5. \A g \in Slots : TaskSound(g)'
  BY <1>1, <1>2 DEF TaskSound, HasPrivate, Private, Closed
<1>6. RowsSound'
  <2>1. \A i \in DOMAIN rooms : Private(i) => i \in DOMAIN rooms' /\ Private(i)'
    BY <1>2 DEF Private
  <2> QED
    BY <1>1, <1>2, <1>3, <2>1, RowsKept
<1>7. OneRelates' /\ OneClosed'
  BY <1>2 DEF IInv, OneRelates, OneClosed, Closed, Private
<1>8. /\ \A g \in Slots : NoteSound(g)'
      /\ \A s \in Uids : NotesSound(s)'
  BY <1>1, <1>2, NotesKept DEF IInv
<1> QED
  BY <1>4, <1>5, <1>6, <1>7, <1>8 DEF IInv

-----------------------------------------------------------------------------
(* The invariant of the specification.                                     *)

LEMMA InitIInv == Init => IInv
<1> SUFFICES ASSUME Init PROVE IInv
  OBVIOUS
<1> USE DEF Init
<1>1. rooms = <<>> /\ rooms \in Seq(Rooms) /\ Len(rooms) = 0 /\ DOMAIN rooms = {}
  OBVIOUS
<1>2. TypeOK
  <2>1. Len(rooms) <= MaxRooms
    BY <1>1, ConstantsAssumption
  <2> QED
    BY <1>1, <2>1 DEF TypeOK, States, Stages
<1>3. \A h \in Slots : TaskSound(h) /\ NoteSound(h)
  BY DEF TaskSound, NoteSound
<1>4. RowsSound /\ OneRelates /\ OneClosed
  BY <1>1 DEF RowsSound, Related, OneRelates, OneClosed
<1>5. \A s \in Uids : NotesSound(s)
  BY DEF NotesSound
<1> QED
  BY <1>2, <1>3, <1>4, <1>5 DEF IInv

LEMMA NextIInv == IInv /\ [Next]_vars => IInv'
<1> SUFFICES ASSUME IInv, [Next]_vars PROVE IInv'
  OBVIOUS
<1>1. CASE UNCHANGED vars
  BY <1>1 DEF vars, dataVars, IInv, TypeOK, TaskSound, NoteSound, NotesSound, Notifying,
     RowsSound, Related, OneRelates, OneClosed, Closed, Private, HasPrivate
<1>2. ASSUME NEW h \in Slots, Work(h)
      PROVE  IInv'
  BY <1>2, NotifyKeeps, LockRequestKeeps, RelateKeeps, EndKeeps, CommitAcceptKeeps,
     FindRoomKeeps, MakeRoomKeeps, EnterRoomKeeps DEF Work
<1>3. ASSUME NEW u \in Uids, DeleteFriend(u) \/ \E i \in 1 .. MaxRooms : SendMessage(u, i)
      PROVE  IInv'
  BY <1>3, DeleteFriendKeeps, SendMessageKeeps
<1>4. ASSUME NEW h \in Slots, Request(h) \/ Fail(h)
      PROVE  IInv'
  BY <1>4, RequestKeeps, EndKeeps
<1> QED
  BY <1>1, <1>2, <1>3, <1>4 DEF Next

\* What every handler may rely on at every stage (AcceptFriendRequest, OpenPrivateChat).
THEOREM Invariance == Spec => []IInv
<1>1. Init => IInv
  BY InitIInv
<1>2. IInv /\ [Next]_vars => IInv'
  BY NextIInv
<1> QED
  BY <1>1, <1>2, PTL DEF Spec

\* Rooms, sessions, requests and the handlers' tasks keep their types
\* (friend_request.go, chat.go).
THEOREM TypeCorrect == Spec => []TypeOK
<1>1. IInv => TypeOK
  BY DEF IInv
<1> QED
  BY <1>1, Invariance, PTL

\* Friends have a private room with a session for both, and a relation has two
\* rows or none, whichever handlers overlap or fail (AcceptFriendRequest).
THEOREM FriendsHaveRoomHolds == Spec => []FriendsHaveRoom
<1>1. IInv => FriendsHaveRoom
  BY ConstantsAssumption DEF IInv, RowsSound, Related, FriendsHaveRoom, AreFriends, Private
<1> QED
  BY <1>1, Invariance, PTL

\* No two closed private rooms exist for the same two users, however many
\* handlers look for a room and create one (CreateFriendRelationWithTx's locks).
THEOREM OneClosedRoomHolds == Spec => []OneClosedRoom
<1>1. IInv => OneClosedRoom
  BY DEF IInv, OneClosed, OneClosedRoom, Closed, Private
<1> QED
  BY <1>1, Invariance, PTL

\* When nothing is under way both notifications show the state of their request,
\* unless handlers of one request overlapped or failed half way
\* (CreateFriendRequest, AcceptFriendRequest, RejectFriendRequest).
THEOREM NotificationsAgreeHolds == Spec => []NotificationsAgree
<1>1. IInv => NotificationsAgree
  BY DEF IInv, NotesSound, Notifying, NotificationsAgree
<1> QED
  BY <1>1, Invariance, PTL

=============================================================================
