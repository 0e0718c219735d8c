----------------------------- MODULE MediaCalls -----------------------------
(***************************************************************************)
(* Audio and video calls (http/handler/media/stream.go) and the media      *)
(* server that carries them (media/streaming/server.go).                   *)
(*                                                                         *)
(* A call lives in Redis: its invite, its state, the room's pointer to its *)
(* call and one pointer per user. None of these keys expires. Every        *)
(* handler reads the invite and the state, changes its copy and writes it  *)
(* back; no lock and no transaction. A handler is a read, then up to three *)
(* steps of writes: the state; the user pointers and the record; the keys. *)
(***************************************************************************)
EXTENDS Naturals, FiniteSets

CONSTANTS
  Uids,      \* the members of the rooms
  Rooms,
  Friend,    \* rooms that are private chats of two friends
  Calls,     \* call ids, one per CreateCallInvite
  Slots,     \* handlers that run at the same time
  Conns,     \* media connections
  Nonces,    \* join signs
  None,
  MaxRequests \* bound: handlers started

ASSUME ConstantsAssumption ==
  /\ None \notin Uids \cup Rooms \cup Calls \cup Nonces
  /\ Friend \subseteq Rooms
  /\ IsFiniteSet(Uids)
  /\ MaxRequests \in Nat

VARIABLES
  inviter, rid, \* inviter[c], rid[c]: who created call c, in which room
  invite,    \* calls whose invite key exists
  st,        \* st[c]: the state key of c, None when it does not exist
  ptr,       \* ptr[r]: call the room's pointer names
  mapped,    \* mapped[u]: call the user's pointer names
  recorded,  \* calls with a row in media_call_record
  signs,     \* signs[n]: for whom and which room join sign n was issued
  fresh,     \* join signs that are in Redis
  conn,      \* conn[k]: [uid, rid, nonce] of a media connection, None otherwise
  closed,    \* media connections that have ended
  hub,       \* connections the media server's room knows
  pc, task,  \* what the handler in a slot does next, and about what
  copy,      \* its copy of the state
  dirty,     \* history: slots whose reads another handler has overwritten
  overlapped,\* history: such a handler wrote all the same
  requests

callVars == <<inviter, rid, invite, st, ptr, mapped, recorded>>
mediaVars == <<signs, fresh, conn, closed, hub>>
slotVars == <<pc, task, copy>>
vars == <<callVars, mediaVars, slotVars, dirty, overlapped, requests>>

State == [active : SUBSET Uids, rejected : SUBSET Uids, ended : BOOLEAN]
NewState == [active |-> {}, rejected |-> {}, ended |-> FALSE]
Signs == [uid : Uids, rid : Rooms]
MediaConns == [uid : Uids, rid : Rooms, nonce : Nonces]

Ops == {"create", "join", "leave", "reject", "hangup", "current", "accept", "sign",
        "close", "empty"}
Task(op, u, c, r, old) == [op |-> op, uid |-> u, call |-> c, rid |-> r, old |-> old]
Tasks == [op : Ops, uid : Uids \cup {None}, call : Calls \cup {None}, rid : Rooms,
          old : Calls \cup {None}]

ASSUME NoneIsNothingElse == None \notin State \cup Signs \cup MediaConns \cup Tasks

\* What a handler does next: nothing, its writes, or a step that writes no
\* record of a call (the join sign, the hub, a read).
Writes == {"join", "leave", "reject", "hangup", "finish", "record", "keys", "ptr",
           "new", "point", "prune"}
Steps == Writes \cup {"idle", "sign", "drop", "offline", "offlineEmpty", "empty"}

\* The state as every handler reads it: an empty one when the key is missing.
Read(c) == IF st[c] = None THEN NewState ELSE st[c]

Init ==
  /\ inviter = [c \in Calls |-> None] /\ rid = [c \in Calls |-> None]
  /\ invite = {} /\ st = [c \in Calls |-> None]
  /\ ptr = [r \in Rooms |-> None] /\ mapped = [u \in Uids |-> None]
  /\ recorded = {}
  /\ signs = [n \in Nonces |-> None] /\ fresh = {}
  /\ conn = [k \in Conns |-> None] /\ closed = {} /\ hub = {}
  /\ pc = [h \in Slots |-> "idle"] /\ task = [h \in Slots |-> None]
  /\ copy = [h \in Slots |-> NewState]
  /\ dirty = {} /\ overlapped = FALSE /\ requests = 0

-----------------------------------------------------------------------------
(* Handlers and their overlaps.                                            *)

\* A handler has read and will write. The bound stops new handlers after an
\* overlap: what the properties say about overlaps has been decided by then.
Start(h, next, t, s) ==
  /\ pc[h] = "idle" /\ requests < MaxRequests /\ ~overlapped
  /\ requests' = requests + 1
  /\ pc' = [pc EXCEPT ![h] = next]
  /\ task' = [task EXCEPT ![h] = t] /\ copy' = [copy EXCEPT ![h] = s]
  /\ UNCHANGED <<dirty, overlapped>>

\* A step of writes of handler h, which goes on at next with its copy s.
Write(h, next, s) ==
  /\ pc' = [pc EXCEPT ![h] = next]
  /\ task' = IF next = "idle" THEN [task EXCEPT ![h] = None] ELSE task
  /\ copy' = [copy EXCEPT ![h] = IF next = "idle" THEN NewState ELSE s]
  /\ overlapped' = (overlapped \/ h \in dirty)
  /\ dirty' = (dirty \cup {g \in Slots : pc[g] # "idle"}) \ {h}
  /\ UNCHANGED requests

\* Where a handler goes on when the call it has ended is gone: a new call is
\* set up, and the offline hook of a media connection looks at the room.
Then(t) == CASE t.op = "create" -> "new"
             [] t.op = "close" -> "empty"
             [] OTHER -> "idle"

\* The call a handler is about to end: the old one when it creates another.
Target(t) == IF t.op = "create" THEN t.old ELSE t.call

-----------------------------------------------------------------------------
(* The HTTP handlers, first half: the checks.                              *)

\* "One undestroyed call per room": a call somebody is active in is kept, any
\* other one is ended first, a ringing one included.
Busy(c) == c # None /\ st[c] # None /\ ~st[c].ended /\ st[c].active # {}

CreateCallInvite(h, u, r, c) ==
  LET p == ptr[r] IN
    /\ inviter[c] = None /\ ~Busy(p)
    /\ inviter' = [inviter EXCEPT ![c] = u] /\ rid' = [rid EXCEPT ![c] = r]
    /\ Start(h, IF p = None THEN "new"
                ELSE IF p \notin invite THEN "keys"
                ELSE IF Read(p).ended THEN "new" ELSE "finish",
             Task("create", u, c, r, p), IF p = None THEN NewState ELSE Read(p))
    /\ UNCHANGED <<invite, st, ptr, mapped, recorded, mediaVars>>

\* MarkCallMemberJoined: the invite must exist; an ended state is not refused.
MarkCallMemberJoined(h, u, c) ==
  /\ c \in invite
  /\ Start(h, "join", Task("join", u, c, rid[c], None),
           [Read(c) EXCEPT !.active = @ \cup {u}])
  /\ UNCHANGED <<callVars, mediaVars>>

\* LeaveCall and the main connection's OnUserMessageQuicOffline.
LeaveCall(h, u, c) ==
  /\ c \in invite
  /\ Start(h, "leave", Task("leave", u, c, rid[c], None),
           [Read(c) EXCEPT !.active = @ \ {u}])
  /\ UNCHANGED <<callVars, mediaVars>>

RejectCallInvite(h, u, c) ==
  /\ c \in invite /\ u # inviter[c] /\ ~Read(c).ended
  /\ LET no == Read(c).rejected \cup {u} IN
       Start(h, "reject", Task("reject", u, c, rid[c], None),
             [Read(c) EXCEPT !.rejected = no,
                             !.ended = Cardinality(no) >= Cardinality(Uids) - 1])
  /\ UNCHANGED <<callVars, mediaVars>>

\* HangupCall: a friend or the inviter ends the call for all. Other members
\* leave it and count as having refused; the inviter never does, so that
\* "all have hung up" does not happen.
EndsForAll(u, c) == rid[c] \in Friend \/ u = inviter[c]

HangupCall(h, u, c) ==
  /\ c \in invite /\ ~Read(c).ended
  /\ LET s == Read(c) IN
       Start(h, "hangup", Task("hangup", u, c, rid[c], None),
             IF EndsForAll(u, c) THEN [s EXCEPT !.ended = TRUE]
             ELSE [s EXCEPT !.active = @ \ {u}, !.rejected = @ \cup {u}])
  /\ UNCHANGED <<callVars, mediaVars>>

\* CurrentCall deletes a pointer to a call that is gone or has ended.
CurrentCall(h, r) ==
  /\ ptr[r] # None
  /\ ptr[r] \notin invite \/ Read(ptr[r]).ended
  /\ Start(h, "ptr", Task("current", None, ptr[r], r, None), Read(ptr[r]))
  /\ UNCHANGED <<callVars, mediaVars>>

\* AcceptCallInvite: "no join sign once the call has ended".
AcceptCallInvite(h, u, c) ==
  /\ c \in invite /\ u # inviter[c] /\ ~Read(c).ended /\ ptr[rid[c]] = c
  /\ Start(h, "sign", Task("accept", u, c, rid[c], None), Read(c))
  /\ UNCHANGED <<callVars, mediaVars>>

\* IssueJoinSign asks for no call and no membership.
IssueJoinSign(h, u, r) ==
  /\ Start(h, "sign", Task("sign", u, None, r, None), NewState)
  /\ UNCHANGED <<callVars, mediaVars>>

-----------------------------------------------------------------------------
(* Second half: the writes.                                                *)

\* saveMediaCallRecord.
AddRecord(t) == recorded \cup {Target(t)}

\* Faulty: the pointer of the user is left alone.
KeepMapping(u) == mapped

\* clearAllUserActiveCallMappingsForCall: every member, whichever call the
\* pointer names.
ClearMappings == [u \in Uids |-> None]

\* clearUserActiveCallMapping.
ClearMapping(u) == [mapped EXCEPT ![u] = None]

\* Faulty: the pointer names the room.
SetMappingToRoom(t) == [mapped EXCEPT ![t.uid] = t.rid]

\* setUserActiveCallMapping.
SetMapping(t) == [mapped EXCEPT ![t.uid] = t.call]

\* MarkCallMemberJoined: SET state, SET user pointer.
WriteJoin(h) ==
  /\ pc[h] = "join"
  /\ st' = [st EXCEPT ![task[h].call] = copy[h]]
  /\ mapped' = SetMapping(task[h])
  /\ Write(h, "idle", NewState)
  /\ UNCHANGED <<inviter, rid, invite, ptr, recorded, mediaVars>>

\* leaveCallByUID: SET state, DEL user pointer; the last one ends the call.
WriteLeave(h) ==
  /\ pc[h] = "leave"
  /\ st' = [st EXCEPT ![task[h].call] = copy[h]]
  /\ mapped' = ClearMapping(task[h].uid)
  /\ Write(h, IF copy[h].active = {} /\ ~copy[h].ended THEN "finish"
              ELSE Then(task[h]), copy[h])
  /\ UNCHANGED <<inviter, rid, invite, ptr, recorded, mediaVars>>

WriteReject(h) ==
  /\ pc[h] = "reject"
  /\ st' = [st EXCEPT ![task[h].call] = copy[h]]
  /\ Write(h, IF copy[h].ended THEN "record" ELSE "idle", copy[h])
  /\ UNCHANGED <<inviter, rid, invite, ptr, mapped, recorded, mediaVars>>

WriteHangup(h) ==
  /\ pc[h] = "hangup"
  /\ st' = [st EXCEPT ![task[h].call] = copy[h]]
  /\ mapped' = IF copy[h].ended THEN mapped ELSE ClearMapping(task[h].uid)
  /\ Write(h, IF copy[h].ended THEN "record" ELSE "idle", copy[h])
  /\ UNCHANGED <<inviter, rid, invite, ptr, recorded, mediaVars>>

\* finalizeMediaCallSessionNoActive: nothing for a state that has ended.
Finish(h) ==
  /\ pc[h] = "finish"
  /\ LET c == Target(task[h])
         done == [copy[h] EXCEPT !.ended = TRUE]
     IN  /\ st' = [st EXCEPT ![c] = done]
         /\ Write(h, "record", done)
  /\ UNCHANGED <<inviter, rid, invite, ptr, mapped, recorded, mediaVars>>

\* The end of a call, common to finalize, reject and hangup: the user
\* pointers go, the call is recorded (call_id is unique) ...
Record(h) ==
  /\ pc[h] = "record"
  /\ mapped' = ClearMappings
  /\ recorded' = AddRecord(task[h])
  /\ Write(h, "keys", copy[h])
  /\ UNCHANGED <<inviter, rid, invite, st, ptr, mediaVars>>

\* Faulty: the room goes on pointing at the call.
AfterKeysKeepPointer(t) == ptr

\* ... destroyMediaCallSessionKeys deletes its keys ...
DestroyKeys(h) ==
  /\ pc[h] = "keys"
  /\ invite' = invite \ {Target(task[h])}
  /\ st' = [st EXCEPT ![Target(task[h])] = None]
  /\ Write(h, "ptr", copy[h])
  /\ UNCHANGED <<inviter, rid, ptr, mapped, recorded, mediaVars>>

\* Which pointer is deleted: that of the call's room, whichever call it names
\* by now.
DropPointer(t) == [ptr EXCEPT ![rid[Target(t)]] = None]

\* ... and the room's pointer.
DestroyPointer(h) ==
  /\ pc[h] = "ptr"
  /\ ptr' = DropPointer(task[h])
  /\ Write(h, Then(task[h]), copy[h])
  /\ UNCHANGED <<inviter, rid, invite, st, mapped, recorded, mediaVars>>

\* CreateCallInvite: SET invite, SET state ...
WriteInvite(h) ==
  /\ pc[h] = "new"
  /\ invite' = invite \cup {task[h].call}
  /\ st' = [st EXCEPT ![task[h].call] = NewState]
  /\ Write(h, "point", NewState)
  /\ UNCHANGED <<inviter, rid, ptr, mapped, recorded, mediaVars>>

\* ... SET room pointer; the inviter's join sign is next.
WritePointer(h) ==
  /\ pc[h] = "point"
  /\ ptr' = [ptr EXCEPT ![task[h].rid] = task[h].call]
  /\ Write(h, "sign", NewState)
  /\ UNCHANGED <<inviter, rid, invite, st, mapped, recorded, mediaVars>>

\* issueJoinSignData, or an error when the bound on nonces is reached.
IssueSign(h) ==
  /\ pc[h] = "sign"
  /\ IF \E n \in Nonces : signs[n] = None
     THEN LET n == CHOOSE m \in Nonces : signs[m] = None IN
            /\ signs' = [signs EXCEPT ![n] = [uid |-> task[h].uid, rid |-> task[h].rid]]
            /\ fresh' = fresh \cup {n}
     ELSE UNCHANGED <<signs, fresh>>
  /\ pc' = [pc EXCEPT ![h] = "idle"] /\ task' = [task EXCEPT ![h] = None]
  /\ copy' = [copy EXCEPT ![h] = NewState] /\ dirty' = dirty \ {h}
  /\ UNCHANGED <<callVars, conn, closed, hub, overlapped, requests>>

-----------------------------------------------------------------------------
(* The media server.                                                       *)

\* consumeAndVerifyJoinSign: one script gets the sign and deletes it.
Consume(n) == fresh \ {n}

\* handleConn up to addClient. A client may present a sign on two connections.
\* A newer connection of a user takes the older one's place in the hub.
Connect(k, n) ==
  /\ conn[k] = None /\ n \in fresh
  /\ fresh' = Consume(n)
  /\ LET s == signs[n] IN
       /\ conn' = [conn EXCEPT ![k] = [uid |-> s.uid, rid |-> s.rid, nonce |-> n]]
       /\ hub' = {j \in hub : conn[j].uid # s.uid \/ conn[j].rid # s.rid} \cup {k}
  /\ UNCHANGED <<callVars, signs, closed, slotVars, dirty, overlapped, requests>>

InHub(r) == {j \in hub : conn[j].rid = r}

\* removeClient, under the hub's lock: by uid, so also a newer connection.
Disconnect(h, k) ==
  /\ conn[k] # None /\ k \notin closed
  /\ closed' = closed \cup {k}
  /\ hub' = {j \in hub : conn[j].uid # conn[k].uid \/ conn[j].rid # conn[k].rid}
  /\ Start(h, IF InHub(conn[k].rid) \subseteq {j \in Conns : conn[j] # None /\ conn[j].uid = conn[k].uid}
              THEN "drop" ELSE "offline",
           Task("close", conn[k].uid, None, conn[k].rid, None), NewState)
  /\ UNCHANGED <<callVars, signs, fresh, conn>>

\* removeClient, under the server's lock: whoever has entered meanwhile is in
\* a hub nobody finds any more.
DropHub(h) ==
  /\ pc[h] = "drop"
  /\ hub' = hub \ InHub(task[h].rid)
  /\ pc' = [pc EXCEPT ![h] = "offlineEmpty"]
  /\ UNCHANGED <<callVars, signs, fresh, conn, closed, task, copy, dirty, overlapped, requests>>

\* OnUserMessageQuicOffline: the user leaves the call his pointer names. Only
\* a connection that left its room empty goes on to OnMediaRoomEmpty.
Offline(h) ==
  /\ pc[h] \in {"offline", "offlineEmpty"}
  /\ LET c == mapped[task[h].uid]
         t == [task[h] EXCEPT !.op = IF pc[h] = "offline" THEN "leave" ELSE "close",
                              !.call = c]
     IN  IF c \in invite
         THEN /\ pc' = [pc EXCEPT ![h] = "leave"]
              /\ task' = [task EXCEPT ![h] = t]
              /\ copy' = [copy EXCEPT ![h] = [Read(c) EXCEPT !.active = @ \ {task[h].uid}]]
              /\ UNCHANGED mapped
         ELSE /\ mapped' = ClearMapping(task[h].uid)
              /\ task' = [task EXCEPT ![h] = IF Then(t) = "idle" THEN None ELSE t]
              /\ pc' = [pc EXCEPT ![h] = Then(t)]
              /\ UNCHANGED copy
  /\ dirty' = dirty \ {h}
  /\ UNCHANGED <<inviter, rid, invite, st, ptr, recorded, mediaVars, overlapped, requests>>

\* OnMediaRoomEmpty reads the room's call and its state.
RoomEmpty(h) ==
  /\ pc[h] = "empty"
  /\ LET c == ptr[task[h].rid]
         next == IF c = None THEN "idle"
                 ELSE IF c \notin invite THEN "keys"
                 ELSE IF Read(c).ended THEN "ptr"
                 ELSE IF Read(c).active # {} THEN "prune" ELSE "finish"
     IN  /\ pc' = [pc EXCEPT ![h] = next]
         /\ task' = [task EXCEPT ![h] =
              IF next = "idle" THEN None ELSE Task("empty", @.uid, c, @.rid, None)]
         /\ copy' = [copy EXCEPT ![h] = IF next = "idle" THEN NewState ELSE Read(c)]
  /\ dirty' = dirty \ {h}
  /\ UNCHANGED <<callVars, mediaVars, overlapped, requests>>

\* It drops the members whose own pointer does not name this call.
Prune(h) ==
  /\ pc[h] = "prune"
  /\ LET c == task[h].call
         alive == {u \in copy[h].active : mapped[u] = c}
         s == [copy[h] EXCEPT !.active = alive]
     IN  /\ mapped' = [u \in Uids |-> IF u \in copy[h].active \ alive THEN None ELSE mapped[u]]
         /\ st' = [st EXCEPT ![c] = s]
         /\ Write(h, IF alive # {} THEN "idle" ELSE "finish", s)
  /\ UNCHANGED <<inviter, rid, invite, ptr, recorded, mediaVars>>

-----------------------------------------------------------------------------
Request(h) ==
  \E u \in Uids :
    \/ \E r \in Rooms : \/ IssueJoinSign(h, u, r)
                        \/ \E c \in Calls : CreateCallInvite(h, u, r, c)
    \/ \E c \in Calls : \/ MarkCallMemberJoined(h, u, c) \/ LeaveCall(h, u, c)
                        \/ RejectCallInvite(h, u, c) \/ HangupCall(h, u, c)
                        \/ AcceptCallInvite(h, u, c)

Work(h) ==
  \/ WriteJoin(h) \/ WriteLeave(h) \/ WriteReject(h) \/ WriteHangup(h) \/ Finish(h)
  \/ Record(h) \/ DestroyKeys(h) \/ DestroyPointer(h) \/ WriteInvite(h)
  \/ WritePointer(h) \/ IssueSign(h) \/ DropHub(h) \/ Offline(h) \/ RoomEmpty(h)
  \/ Prune(h)

Next ==
  \/ \E h \in Slots : \/ Request(h) \/ Work(h)
                      \/ \E r \in Rooms : CurrentCall(h, r)
                      \/ \E k \in Conns : Disconnect(h, k)
  \/ \E k \in Conns, n \in Nonces : Connect(k, n)

Spec == Init /\ [][Next]_vars

-----------------------------------------------------------------------------
Quiet == \A h \in Slots : pc[h] = "idle"

CallTypes ==
  /\ inviter \in [Calls -> Uids \cup {None}] /\ rid \in [Calls -> Rooms \cup {None}]
  /\ invite \subseteq Calls /\ recorded \subseteq Calls
  /\ st \in [Calls -> State \cup {None}]
  /\ ptr \in [Rooms -> Calls \cup {None}] /\ mapped \in [Uids -> Calls \cup {None}]

MediaTypes ==
  /\ signs \in [Nonces -> Signs \cup {None}] /\ fresh \subseteq Nonces
  /\ conn \in [Conns -> MediaConns \cup {None}]
  /\ closed \subseteq Conns /\ hub \subseteq {k \in Conns : conn[k] # None}

SlotTypes ==
  /\ pc \in [Slots -> Steps] /\ task \in [Slots -> Tasks \cup {None}]
  /\ \A h \in Slots : pc[h] = "idle" <=> task[h] = None
  /\ copy \in [Slots -> State]
  /\ dirty \subseteq Slots /\ overlapped \in BOOLEAN
  /\ requests \in 0 .. MaxRequests

\* Every variable keeps its shape, and a handler has a task exactly while it is
\* at work.
TypeOK == CallTypes /\ MediaTypes /\ SlotTypes

\* As long as no handler overlapped another, and none is under way, the keys
\* agree: a call with an invite is the one call of its room, has a state that
\* has not ended, no other call of that room is left, and a call that is over left
\* its record and no keys.
OneLiveCall ==
  ~overlapped /\ Quiet =>
    /\ \A c \in invite : ptr[rid[c]] = c /\ st[c] # None /\ ~st[c].ended
    /\ \A r \in Rooms : ptr[r] # None => ptr[r] \in invite
    /\ \A c \in Calls \ invite :
         st[c] = None /\ (inviter[c] # None => c \in recorded)

\* With the same proviso, and in one room, the users' pointers name exactly
\* the call they are active in: nobody keeps a room busy whom the offline hook
\* would not find (leaveCallByUID, HangupCall, finalizeMediaCallSessionNoActive).
PointersMatchActive ==
  ~overlapped /\ Quiet =>
    \A u \in Uids, c \in Calls : mapped[u] = c <=> c \in invite /\ u \in st[c].active

=============================================================================
