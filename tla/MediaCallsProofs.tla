-------------------------- MODULE MediaCallsProofs --------------------------
(***************************************************************************)
(* Proofs about MediaCalls, for any number of users, rooms, calls, slots   *)
(* and connections: TypeInv and, on top of it, CallsSerial and             *)
(* PointersSerial are inductive, and the properties of the model follow.   *)
(*                                                                         *)
(* The handlers are serial as long as at most one of them is at work on    *)
(* the records of the calls, with reads nobody has overwritten. They are   *)
(* not serial again before one of them has written on stale reads: so the  *)
(* records matter only while they are, and a handler's copy is then what   *)
(* its call's state is, up to the handler's own step.                      *)
(***************************************************************************)
EXTENDS MediaCalls, TLAPS

(***************************************************************************)
(* What the types leave open                                               *)
(***************************************************************************)
Created == {c \in Calls : rid[c] # None}

(* A call has its room from its creation on, and a room's pointer names a  *)
(* call of that room; a sign in Redis has been issued.                     *)
CallsSound ==
  /\ \A c \in Calls : rid[c] = None <=> inviter[c] = None
  /\ invite \subseteq Created
  /\ \A r \in Rooms, c \in Calls : ptr[r] = c => rid[c] = r
  /\ \A n \in fresh : signs[n] # None

(* The call a handler is at work on exists; one that creates a call knows  *)
(* the room of both.                                                       *)
TaskSound(h) ==
  pc[h] # "idle" =>
    /\ task[h].op = "current" => pc[h] = "ptr"
    /\ task[h].op # "current" => task[h].uid \in Uids
    /\ pc[h] \in {"join", "leave", "reject", "hangup", "prune"} =>
         task[h].op # "create" /\ task[h].call \in Created
    /\ pc[h] \in {"finish", "record", "keys", "ptr"} => Target(task[h]) \in Created
    /\ pc[h] \in {"new", "point"} => task[h].op = "create"
    /\ pc[h] \in {"drop", "offline", "offlineEmpty"} => task[h].op = "close"
    /\ task[h].op = "create" =>
         /\ task[h].call \in Calls /\ rid[task[h].call] = task[h].rid
         /\ task[h].old \in Calls => rid[task[h].old] = task[h].rid

TypeInv == TypeOK /\ CallsSound /\ \A h \in Slots : TaskSound(h)

(***************************************************************************)
(* The records while the handlers are serial                               *)
(***************************************************************************)
Writing == {h \in Slots : pc[h] \in Writes}

Serial ==
  /\ ~overlapped
  /\ \A h \in Writing : h \notin dirty
  /\ \A g, h \in Writing : g = h

Live(c) == ptr[rid[c]] = c /\ st[c] # None /\ ~st[c].ended
Over(c) ==
  /\ st[c] = None
  /\ inviter[c] # None => c \in recorded
  /\ \A r \in Rooms : ptr[r] # c
Settled(c) == IF c \in invite THEN Live(c) ELSE Over(c)

(* The calls whose records handler h has changed in part: the one it ends, *)
(* the one it creates.                                                     *)
Halfway(h) ==
  {c \in Calls : \/ pc[h] \in {"record", "keys", "ptr"} /\ c = Target(task[h])
                 \/ task[h].op = "create" /\ c = task[h].call}

(* What its copy of the state of call c is to the state itself.            *)
CopyKnown(h, c) ==
  LET active == st[c].active
      u == task[h].uid
  IN  /\ pc[h] \in {"join", "leave", "finish", "prune"} => ~copy[h].ended
      /\ pc[h] = "join" => copy[h].active = active \cup {u}
      /\ pc[h] = "leave" => copy[h].active = active \ {u}
      /\ pc[h] = "hangup" =>
           copy[h].active = IF copy[h].ended THEN active ELSE active \ {u}
      /\ pc[h] \in {"reject", "finish", "prune"} => copy[h].active = active

(* How far handler h has come with the call it changes or ends ...         *)
Ending(h) ==
  LET c == Target(task[h]) IN
    /\ pc[h] \in {"join", "leave", "reject", "hangup", "finish", "prune"} =>
         c \in invite /\ CopyKnown(h, c)
    /\ pc[h] \in {"record", "keys"} => c \in invite /\ st[c] # None
    /\ pc[h] \in {"record", "keys", "ptr"} => ptr[rid[c]] = c
    /\ pc[h] \in {"keys", "ptr"} => c \in recorded
    /\ pc[h] = "ptr" => c \notin invite /\ st[c] = None

(* ... and with the one it creates.                                        *)
Creating(h) ==
  LET n == task[h].call IN
    task[h].op = "create" =>
      /\ pc[h] # "point" => n \notin invite /\ st[n] = None
      /\ pc[h] = "point" => n \in invite /\ st[n] = NewState
      /\ \A r \in Rooms : ptr[r] # n
      /\ pc[h] \in {"new", "point"} => ptr[rid[n]] = None

CallsSerial ==
  Serial =>
    /\ \A c \in Calls : (\A h \in Writing : c \notin Halfway(h)) => Settled(c)
    /\ \A h \in Writing : Ending(h) /\ Creating(h)

(* The users' pointers of a single room.                                   *)
OneRoom == \A r, s \in Rooms : r = s

PointersAgree ==
  \A u \in Uids, c \in Calls : mapped[u] = c <=> c \in invite /\ u \in st[c].active

PointersSerial ==
  OneRoom /\ Serial =>
    IF \E h \in Writing : pc[h] = "keys"
    THEN \A u \in Uids : mapped[u] = None
    ELSE PointersAgree

(* The inductive invariant.                                                *)
IInv == TypeInv /\ CallsSerial /\ PointersSerial

-----------------------------------------------------------------------------
(* Types.                                                                  *)

LEMMA NoneApart ==
  None \notin Uids /\ None \notin Rooms /\ None \notin Calls /\ None \notin State
  /\ None \notin Tasks /\ None \notin Signs /\ None \notin MediaConns
BY ConstantsAssumption, NoneIsNothingElse

LEMMA NewStateIsState == NewState \in State
BY DEF NewState, State

LEMMA ReadIsState ==
  ASSUME CallTypes, NEW c \in Calls
  PROVE  Read(c) \in State
BY NewStateIsState DEF CallTypes, Read

LEMMA TaskIsTask ==
  ASSUME NEW op \in Ops, NEW u \in Uids \cup {None}, NEW c \in Calls \cup {None},
         NEW r \in Rooms, NEW old \in Calls \cup {None}
  PROVE  /\ Task(op, u, c, r, old) \in Tasks
         /\ Task(op, u, c, r, old) # None
         /\ Task(op, u, c, r, old).op = op /\ Task(op, u, c, r, old).uid = u
         /\ Task(op, u, c, r, old).call = c /\ Task(op, u, c, r, old).rid = r
         /\ Task(op, u, c, r, old).old = old
<1>1. Task(op, u, c, r, old) \in Tasks
  BY DEF Task, Tasks
<1> QED
  BY <1>1, NoneApart DEF Task

LEMMA BusyHasTask ==
  ASSUME TypeInv, NEW h \in Slots, pc[h] # "idle"
  PROVE  /\ task[h] \in Tasks /\ task[h] # None /\ TaskSound(h)
         /\ task[h].op \in Ops /\ task[h].uid \in Uids \cup {None}
         /\ task[h].call \in Calls \cup {None} /\ task[h].rid \in Rooms
         /\ task[h].old \in Calls \cup {None}
<1>1. task[h] \in Tasks /\ task[h] # None /\ TaskSound(h)
  BY NoneApart DEF TypeInv, TypeOK, SlotTypes
<1> QED
  BY <1>1 DEF Tasks

LEMMA CreatedHasRoom ==
  ASSUME TypeInv, NEW c \in Created
  PROVE  c \in Calls /\ rid[c] \in Rooms
BY DEF TypeInv, TypeOK, CallTypes, Created

(* One slot moves; a call that has its room keeps it.                      *)
LEMMA SlotMoves ==
  ASSUME TypeInv, NEW h \in Slots, NEW next \in Steps, NEW t \in Tasks \cup {None},
         NEW s \in State, next = "idle" <=> t = None,
         pc' = [pc EXCEPT ![h] = next], task' = [task EXCEPT ![h] = t],
         copy' = [copy EXCEPT ![h] = s],
         dirty' \in SUBSET Slots, overlapped' \in BOOLEAN, requests' \in 0 .. MaxRequests,
         \A c \in Created : rid'[c] = rid[c], TaskSound(h)'
  PROVE  SlotTypes' /\ \A g \in Slots : TaskSound(g)'
<1>1. SlotTypes'
  BY DEF TypeInv, TypeOK, SlotTypes
<1>2. \A g \in Slots \ {h} : pc'[g] = pc[g] /\ task'[g] = task[g]
  BY DEF TypeInv, TypeOK, SlotTypes
<1>3. ASSUME NEW g \in Slots \ {h} PROVE TaskSound(g)'
  <2> SUFFICES ASSUME pc[g] # "idle" PROVE TaskSound(g)'
    BY <1>2 DEF TaskSound
  <2>1. TaskSound(g) /\ task[g].rid # None
    BY BusyHasTask, NoneApart
  <2>2. Created \subseteq Created'
    BY DEF Created
  <2> QED
    BY <1>2, <2>1, <2>2 DEF TaskSound, Target, Created
<1> QED
  BY <1>1, <1>3

LEMMA WriteMoves ==
  ASSUME TypeInv, NEW h \in Slots, pc[h] # "idle", NEW next \in Steps, NEW s \in State,
         Write(h, next, s), rid' = rid, TaskSound(h)'
  PROVE  SlotTypes' /\ \A g \in Slots : TaskSound(g)'
<1> DEFINE t == IF next = "idle" THEN None ELSE task[h]
           s1 == IF next = "idle" THEN NewState ELSE s
<1>1. t \in Tasks \cup {None} /\ (next = "idle" <=> t = None)
  BY BusyHasTask
<1>2. s1 \in State
  BY NewStateIsState
<1>3. pc' = [pc EXCEPT ![h] = next] /\ task' = [task EXCEPT ![h] = t]
      /\ copy' = [copy EXCEPT ![h] = s1]
  BY DEF Write, TypeInv, TypeOK, SlotTypes
<1>4. dirty' \in SUBSET Slots /\ overlapped' \in BOOLEAN /\ requests' \in 0 .. MaxRequests
  BY DEF Write, TypeInv, TypeOK, SlotTypes
<1> HIDE DEF t, s1
<1> QED
  BY <1>1, <1>2, <1>3, <1>4, SlotMoves

(* A handler writes: its slot after the step.                              *)
LEMMA Written ==
  ASSUME TypeInv, NEW h \in Slots, pc[h] # "idle", NEW next \in Steps, NEW s \in State,
         Write(h, next, s)
  PROVE  /\ pc'[h] = next
         /\ next # "idle" => task'[h] = task[h] /\ copy'[h] = s
BY DEF Write, TypeInv, TypeOK, SlotTypes

LEMMA StartMoves ==
  ASSUME TypeInv, NEW h \in Slots, NEW next \in Steps \ {"idle"}, NEW t \in Tasks,
         NEW s \in State, Start(h, next, t, s),
         \A c \in Created : rid'[c] = rid[c], TaskSound(h)'
  PROVE  SlotTypes' /\ \A g \in Slots : TaskSound(g)'
<1>1. t # None
  BY NoneApart
<1>2. requests' = requests + 1 /\ requests < MaxRequests /\ requests \in 0 .. MaxRequests
  BY DEF Start, TypeInv, TypeOK, SlotTypes
<1>3. requests' \in 0 .. MaxRequests
  BY <1>2, ConstantsAssumption
<1>4. dirty' \in SUBSET Slots /\ overlapped' \in BOOLEAN
  BY DEF Start, TypeInv, TypeOK, SlotTypes
<1>5. pc' = [pc EXCEPT ![h] = next] /\ task' = [task EXCEPT ![h] = t]
      /\ copy' = [copy EXCEPT ![h] = s]
  BY DEF Start
<1> QED
  BY <1>1, <1>3, <1>4, <1>5, SlotMoves

LEMMA Started ==
  ASSUME TypeInv, NEW h \in Slots, NEW next, NEW t, NEW s, Start(h, next, t, s)
  PROVE  pc[h] = "idle" /\ pc'[h] = next /\ task'[h] = t /\ copy'[h] = s
BY DEF Start, TypeInv, TypeOK, SlotTypes

(* A handler that writes: what is left to show of its step.                *)
LEMMA WriterTypes ==
  ASSUME TypeInv, NEW h \in Slots, pc[h] # "idle", NEW next \in Steps, NEW s \in State,
         Write(h, next, s), UNCHANGED <<inviter, rid, mediaVars>>,
         TaskSound(h)', CallTypes', invite' \subseteq Created,
         \A r \in Rooms, c \in Calls : ptr'[r] = c => rid[c] = r
  PROVE  TypeInv'
<1>1. SlotTypes' /\ \A g \in Slots : TaskSound(g)'
  BY WriteMoves
<1>2. MediaTypes'
  BY DEF TypeInv, TypeOK, MediaTypes, mediaVars
<1>3. CallsSound'
  BY DEF TypeInv, CallsSound, Created, mediaVars
<1> QED
  BY <1>1, <1>2, <1>3 DEF TypeInv, TypeOK

(* What a handler knows of its call when it is about to write.             *)
LEMMA WriterKnows ==
  ASSUME TypeInv, NEW h \in Slots, pc[h] \in Writes
  PROVE  /\ pc[h] # "idle" /\ copy[h] \in State
         /\ pc[h] \notin {"new", "point"} =>
              Target(task[h]) \in Created /\ rid[Target(task[h])] \in Rooms
         /\ pc[h] \in {"join", "leave", "reject", "hangup", "prune"} =>
              Target(task[h]) = task[h].call /\ task[h].op # "create"
         /\ pc[h] # "ptr" => task[h].uid \in Uids
         /\ pc[h] \in {"new", "point"} =>
              task[h].call \in Created /\ rid[task[h].call] = task[h].rid
<1>1. pc[h] # "idle" /\ copy[h] \in State
  BY DEF Writes, TypeInv, TypeOK, SlotTypes
<1>2. TaskSound(h) /\ task[h].rid \in Rooms
  BY <1>1, BusyHasTask
<1>3. pc[h] \notin {"new", "point"} => Target(task[h]) \in Created
  BY <1>1, <1>2 DEF TaskSound, Target, Writes
<1>4. pc[h] \in {"new", "point"} =>
        task[h].call \in Created /\ rid[task[h].call] = task[h].rid
  BY <1>1, <1>2, NoneApart DEF TaskSound, Created
<1> QED
  BY <1>1, <1>2, <1>3, <1>4, CreatedHasRoom DEF TaskSound, Target

LEMMA StateChanges ==
  ASSUME CallTypes, NEW c \in Calls, NEW s \in State \cup {None}
  PROVE  [st EXCEPT ![c] = s] \in [Calls -> State \cup {None}]
BY DEF CallTypes

LEMMA WriteJoinTypes ==
  ASSUME TypeInv, NEW h \in Slots, WriteJoin(h)
  PROVE  TypeInv'
<1>1. /\ pc[h] # "idle" /\ copy[h] \in State
      /\ task[h].call \in Calls /\ task[h].uid \in Uids
  BY WriterKnows DEF WriteJoin, Writes, Created
<1>2. Write(h, "idle", NewState)
  BY DEF WriteJoin
<1>3. TaskSound(h)'
  BY <1>1, <1>2, Written, NewStateIsState DEF TaskSound, Steps
<1>4. CallTypes'
  BY <1>1, StateChanges DEF WriteJoin, SetMapping, TypeInv, TypeOK, CallTypes
<1> QED
  BY <1>1, <1>2, <1>3, <1>4, WriterTypes, NewStateIsState
     DEF WriteJoin, TypeInv, CallsSound, Steps

LEMMA WriteLeaveTypes ==
  ASSUME TypeInv, NEW h \in Slots, WriteLeave(h)
  PROVE  TypeInv'
<1> DEFINE next == IF copy[h].active = {} /\ ~copy[h].ended THEN "finish" ELSE Then(task[h])
<1>1. /\ pc[h] # "idle" /\ copy[h] \in State
      /\ task[h].call \in Created /\ task[h].call \in Calls /\ task[h].uid \in Uids
      /\ Target(task[h]) = task[h].call /\ task[h].op # "create"
  BY WriterKnows DEF WriteLeave, Writes, Created
<1>2. Write(h, next, copy[h])
  BY DEF WriteLeave
<1>3. next \in {"finish", "empty", "idle"}
  BY <1>1 DEF Then
<1> HIDE DEF next
<1>4. TaskSound(h) /\ pc[h] = "leave"
  BY DEF WriteLeave, TypeInv
<1>5. TaskSound(h)'
  BY <1>1, <1>2, <1>3, <1>4, Written DEF TaskSound, Steps, Writes, Target, Created, WriteLeave
<1>6. CallTypes'
  BY <1>1, StateChanges DEF WriteLeave, ClearMapping, TypeInv, TypeOK, CallTypes
<1> QED
  BY <1>1, <1>2, <1>3, <1>5, <1>6, WriterTypes DEF WriteLeave, TypeInv, CallsSound, Steps, Writes

LEMMA WriteRejectTypes ==
  ASSUME TypeInv, NEW h \in Slots, WriteReject(h)
  PROVE  TypeInv'
<1> DEFINE next == IF copy[h].ended THEN "record" ELSE "idle"
<1>1. /\ pc[h] # "idle" /\ copy[h] \in State
      /\ task[h].call \in Created /\ task[h].call \in Calls
      /\ Target(task[h]) = task[h].call /\ task[h].op # "create"
  BY WriterKnows DEF WriteReject, Writes, Created
<1>2. Write(h, next, copy[h])
  BY DEF WriteReject
<1>3. next \in {"record", "idle"}
  OBVIOUS
<1> HIDE DEF next
<1>4. TaskSound(h) /\ pc[h] = "reject"
  BY DEF WriteReject, TypeInv
<1>5. TaskSound(h)'
  BY <1>1, <1>2, <1>3, <1>4, Written DEF TaskSound, Steps, Writes, Target, Created, WriteReject
<1>6. CallTypes'
  BY <1>1, StateChanges DEF WriteReject, TypeInv, TypeOK, CallTypes
<1> QED
  BY <1>1, <1>2, <1>3, <1>5, <1>6, WriterTypes DEF WriteReject, TypeInv, CallsSound, Steps, Writes

LEMMA WriteHangupTypes ==
  ASSUME TypeInv, NEW h \in Slots, WriteHangup(h)
  PROVE  TypeInv'
<1> DEFINE next == IF copy[h].ended THEN "record" ELSE "idle"
<1>1. /\ pc[h] # "idle" /\ copy[h] \in State
      /\ task[h].call \in Created /\ task[h].call \in Calls /\ task[h].uid \in Uids
      /\ Target(task[h]) = task[h].call /\ task[h].op # "create"
  BY WriterKnows DEF WriteHangup, Writes, Created
<1>2. Write(h, next, copy[h])
  BY DEF WriteHangup
<1>3. next \in {"record", "idle"}
  OBVIOUS
<1> HIDE DEF next
<1>4. TaskSound(h) /\ pc[h] = "hangup"
  BY DEF WriteHangup, TypeInv
<1>5. TaskSound(h)'
  BY <1>1, <1>2, <1>3, <1>4, Written DEF TaskSound, Steps, Writes, Target, Created, WriteHangup
<1>6. CallTypes'
  BY <1>1, StateChanges DEF WriteHangup, ClearMapping, TypeInv, TypeOK, CallTypes
<1> QED
  BY <1>1, <1>2, <1>3, <1>5, <1>6, WriterTypes DEF WriteHangup, TypeInv, CallsSound, Steps, Writes

LEMMA FinishTypes ==
  ASSUME TypeInv, NEW h \in Slots, Finish(h)
  PROVE  TypeInv'
<1> DEFINE c == Target(task[h])
           done == [copy[h] EXCEPT !.ended = TRUE]
<1>1. /\ pc[h] # "idle" /\ copy[h] \in State /\ c \in Created /\ c \in Calls
      /\ TaskSound(h) /\ pc[h] = "finish"
  BY WriterKnows DEF Finish, Writes, Created, TypeInv
<1>2. done \in State
  BY <1>1 DEF State
<1>3. Write(h, "record", done) /\ st' = [st EXCEPT ![c] = done]
  BY DEF Finish
<1> HIDE DEF done
<1>4. TaskSound(h)'
  BY <1>1, <1>2, <1>3, Written DEF TaskSound, Steps, Writes, Target, Created, Finish
<1>5. CallTypes'
  BY <1>1, <1>2, <1>3, StateChanges DEF Finish, TypeInv, TypeOK, CallTypes
<1> QED
  BY <1>1, <1>2, <1>3, <1>4, <1>5, WriterTypes DEF Finish, TypeInv, CallsSound, Steps, Writes

LEMMA RecordTypes ==
  ASSUME TypeInv, NEW h \in Slots, Record(h)
  PROVE  TypeInv'
<1>1. /\ pc[h] # "idle" /\ copy[h] \in State /\ Target(task[h]) \in Calls
      /\ TaskSound(h) /\ pc[h] = "record" /\ Write(h, "keys", copy[h])
  BY WriterKnows DEF Record, Writes, Created, TypeInv
<1>2. TaskSound(h)'
  BY <1>1, Written DEF TaskSound, Steps, Writes, Target, Created, Record
<1>3. CallTypes'
  BY <1>1 DEF Record, ClearMappings, AddRecord, TypeInv, TypeOK, CallTypes
<1> QED
  BY <1>1, <1>2, <1>3, WriterTypes DEF Record, TypeInv, CallsSound, Steps, Writes

LEMMA DestroyKeysTypes ==
  ASSUME TypeInv, NEW h \in Slots, DestroyKeys(h)
  PROVE  TypeInv'
<1>1. /\ pc[h] # "idle" /\ copy[h] \in State /\ Target(task[h]) \in Calls
      /\ TaskSound(h) /\ pc[h] = "keys" /\ Write(h, "ptr", copy[h])
  BY WriterKnows DEF DestroyKeys, Writes, Created, TypeInv
<1>2. TaskSound(h)'
  BY <1>1, Written DEF TaskSound, Steps, Writes, Target, Created, DestroyKeys
<1>3. CallTypes'
  BY <1>1, StateChanges DEF DestroyKeys, TypeInv, TypeOK, CallTypes
<1> QED
  BY <1>1, <1>2, <1>3, WriterTypes DEF DestroyKeys, TypeInv, CallsSound, Steps, Writes

LEMMA DestroyPointerTypes ==
  ASSUME TypeInv, NEW h \in Slots, DestroyPointer(h)
  PROVE  TypeInv'
<1> DEFINE next == Then(task[h])
<1>1. /\ pc[h] # "idle" /\ copy[h] \in State /\ Target(task[h]) \in Created
      /\ rid[Target(task[h])] \in Rooms /\ TaskSound(h) /\ pc[h] = "ptr"
  BY WriterKnows DEF DestroyPointer, Writes, TypeInv
<1>2. Write(h, next, copy[h])
  BY DEF DestroyPointer
<1>3. /\ next \in {"new", "empty", "idle"}
      /\ next = "new" => task[h].op = "create"
      /\ task[h].op = "current" => next = "idle"
  BY DEF Then
<1> HIDE DEF next
<1>4. TaskSound(h)'
  BY <1>1, <1>2, <1>3, Written DEF TaskSound, Steps, Writes, Target, Created, DestroyPointer
<1>5. CallTypes'
  BY <1>1 DEF DestroyPointer, DropPointer, TypeInv, TypeOK, CallTypes
<1>6. \A r \in Rooms, c \in Calls : ptr'[r] = c => rid[c] = r
  BY <1>1, NoneApart DEF DestroyPointer, DropPointer, TypeInv, TypeOK, CallTypes, CallsSound
<1> QED
  BY <1>1, <1>2, <1>3, <1>4, <1>5, <1>6, WriterTypes
     DEF DestroyPointer, TypeInv, CallsSound, Steps, Writes

LEMMA WriteInviteTypes ==
  ASSUME TypeInv, NEW h \in Slots, WriteInvite(h)
  PROVE  TypeInv'
<1>1. /\ pc[h] # "idle" /\ task[h].call \in Created /\ task[h].call \in Calls
      /\ TaskSound(h) /\ pc[h] = "new" /\ Write(h, "point", NewState)
  BY WriterKnows DEF WriteInvite, Writes, Created, TypeInv
<1>2. TaskSound(h)'
  BY <1>1, NewStateIsState, Written
     DEF TaskSound, Steps, Writes, Target, Created, WriteInvite
<1>3. CallTypes'
  BY <1>1, NewStateIsState, StateChanges DEF WriteInvite, TypeInv, TypeOK, CallTypes
<1> QED
  BY <1>1, <1>2, <1>3, NewStateIsState, WriterTypes
     DEF WriteInvite, TypeInv, CallsSound, Steps, Writes

LEMMA WritePointerTypes ==
  ASSUME TypeInv, NEW h \in Slots, WritePointer(h)
  PROVE  TypeInv'
<1>1. /\ pc[h] # "idle" /\ task[h].call \in Calls /\ rid[task[h].call] = task[h].rid
      /\ TaskSound(h) /\ pc[h] = "point" /\ Write(h, "sign", NewState)
  BY WriterKnows DEF WritePointer, Writes, Created, TypeInv
<1>2. TaskSound(h)'
  BY <1>1, NewStateIsState, Written
     DEF TaskSound, Steps, Writes, Target, Created, WritePointer
<1>3. CallTypes'
  BY <1>1 DEF WritePointer, TypeInv, TypeOK, CallTypes
<1>4. \A r \in Rooms, c \in Calls : ptr'[r] = c => rid[c] = r
  BY <1>1 DEF WritePointer, TypeInv, TypeOK, CallTypes, CallsSound
<1> QED
  BY <1>1, <1>2, <1>3, <1>4, NewStateIsState, WriterTypes
     DEF WritePointer, TypeInv, CallsSound, Steps, Writes

LEMMA PruneTypes ==
  ASSUME TypeInv, NEW h \in Slots, Prune(h)
  PROVE  TypeInv'
<1> DEFINE c == task[h].call
           alive == {u \in copy[h].active : mapped[u] = c}
           s == [copy[h] EXCEPT !.active = alive]
           next == IF alive # {} THEN "idle" ELSE "finish"
<1>1. /\ pc[h] # "idle" /\ copy[h] \in State /\ c \in Created /\ c \in Calls
      /\ TaskSound(h) /\ pc[h] = "prune" /\ task[h].op # "create"
  BY WriterKnows DEF Prune, Writes, Created, TypeInv
<1>2. s \in State
  BY <1>1 DEF State
<1>3. /\ Write(h, next, s) /\ st' = [st EXCEPT ![c] = s]
      /\ mapped' = [u \in Uids |-> IF u \in copy[h].active \ alive THEN None ELSE mapped[u]]
  BY DEF Prune
<1>4. next \in {"idle", "finish"}
  OBVIOUS
<1> HIDE DEF s, next, alive
<1>5. TaskSound(h)'
  BY <1>1, <1>2, <1>3, <1>4, Written DEF TaskSound, Steps, Writes, Target, Created, Prune
<1>6. CallTypes'
  BY <1>1, <1>2, <1>3, StateChanges DEF Prune, TypeInv, TypeOK, CallTypes
<1> QED
  BY <1>1, <1>2, <1>3, <1>4, <1>5, <1>6, WriterTypes DEF Prune, TypeInv, CallsSound, Steps, Writes

(* A handler that starts on records it leaves alone for now.               *)
LEMMA StarterTypes ==
  ASSUME TypeInv, NEW h \in Slots, NEW next \in Steps \ {"idle"}, NEW t \in Tasks,
         NEW s \in State, Start(h, next, t, s), UNCHANGED <<callVars, mediaVars>>,
         TaskSound(h)'
  PROVE  TypeInv'
<1>1. SlotTypes' /\ \A g \in Slots : TaskSound(g)'
  BY StartMoves DEF callVars
<1>2. CallTypes' /\ MediaTypes' /\ CallsSound'
  BY DEF TypeInv, TypeOK, CallTypes, MediaTypes, CallsSound, Created, callVars, mediaVars
<1> QED
  BY <1>1, <1>2 DEF TypeInv, TypeOK

LEMMA InvitedIsCreated ==
  ASSUME TypeInv, NEW c \in invite
  PROVE  c \in Calls /\ c \in Created /\ rid[c] \in Rooms /\ Read(c) \in State
<1>1. c \in Created
  BY DEF TypeInv, CallsSound
<1> QED
  BY <1>1, CreatedHasRoom, ReadIsState DEF TypeInv, TypeOK

LEMMA MarkCallMemberJoinedTypes ==
  ASSUME TypeInv, NEW h \in Slots, NEW u \in Uids, NEW c \in Calls, MarkCallMemberJoined(h, u, c)
  PROVE  TypeInv'
<1> DEFINE t == Task("join", u, c, rid[c], None)
           s == [Read(c) EXCEPT !.active = @ \cup {u}]
<1>1. c \in Created /\ rid[c] \in Rooms /\ Read(c) \in State
  BY InvitedIsCreated DEF MarkCallMemberJoined
<1>2. s \in State
  BY <1>1 DEF State
<1>3. t \in Tasks /\ t.op = "join" /\ t.uid = u /\ t.call = c
  BY <1>1, TaskIsTask DEF Ops
<1>4. Start(h, "join", t, s) /\ UNCHANGED <<callVars, mediaVars>>
  BY DEF MarkCallMemberJoined
<1> HIDE DEF t, s
<1>5. TaskSound(h)'
  BY <1>1, <1>3, <1>4, Started DEF TaskSound, Created, callVars
<1> QED
  BY <1>2, <1>3, <1>4, <1>5, StarterTypes DEF Steps, Writes

LEMMA LeaveCallTypes ==
  ASSUME TypeInv, NEW h \in Slots, NEW u \in Uids, NEW c \in Calls, LeaveCall(h, u, c)
  PROVE  TypeInv'
<1> DEFINE t == Task("leave", u, c, rid[c], None)
           s == [Read(c) EXCEPT !.active = @ \ {u}]
<1>1. c \in Created /\ rid[c] \in Rooms /\ Read(c) \in State
  BY InvitedIsCreated DEF LeaveCall
<1>2. s \in State
  BY <1>1 DEF State
<1>3. t \in Tasks /\ t.op = "leave" /\ t.uid = u /\ t.call = c
  BY <1>1, TaskIsTask DEF Ops
<1>4. Start(h, "leave", t, s) /\ UNCHANGED <<callVars, mediaVars>>
  BY DEF LeaveCall
<1> HIDE DEF t, s
<1>5. TaskSound(h)'
  BY <1>1, <1>3, <1>4, Started DEF TaskSound, Created, callVars
<1> QED
  BY <1>2, <1>3, <1>4, <1>5, StarterTypes DEF Steps, Writes

LEMMA RejectCallInviteTypes ==
  ASSUME TypeInv, NEW h \in Slots, NEW u \in Uids, NEW c \in Calls, RejectCallInvite(h, u, c)
  PROVE  TypeInv'
<1> DEFINE t == Task("reject", u, c, rid[c], None)
           no == Read(c).rejected \cup {u}
           all == Cardinality(no) >= Cardinality(Uids) - 1
           s == [Read(c) EXCEPT !.rejected = no, !.ended = all]
<1>1. c \in Created /\ rid[c] \in Rooms /\ Read(c) \in State
  BY InvitedIsCreated DEF RejectCallInvite
<1>2. Start(h, "reject", t, s) /\ UNCHANGED <<callVars, mediaVars>>
  BY DEF RejectCallInvite
<1>3. all \in BOOLEAN
  OBVIOUS
<1> HIDE DEF all
<1>4. s \in State
  BY <1>1, <1>3 DEF State
<1>5. t \in Tasks /\ t.op = "reject" /\ t.uid = u /\ t.call = c
  BY <1>1, TaskIsTask DEF Ops
<1> HIDE DEF t, s
<1>6. TaskSound(h)'
  BY <1>1, <1>2, <1>5, Started DEF TaskSound, Created, callVars
<1> QED
  BY <1>2, <1>4, <1>5, <1>6, StarterTypes DEF Steps, Writes

LEMMA HangupCallTypes ==
  ASSUME TypeInv, NEW h \in Slots, NEW u \in Uids, NEW c \in Calls, HangupCall(h, u, c)
  PROVE  TypeInv'
<1> DEFINE t == Task("hangup", u, c, rid[c], None)
           s == IF EndsForAll(u, c) THEN [Read(c) EXCEPT !.ended = TRUE]
                ELSE [Read(c) EXCEPT !.active = @ \ {u}, !.rejected = @ \cup {u}]
<1>1. c \in Created /\ rid[c] \in Rooms /\ Read(c) \in State
  BY InvitedIsCreated DEF HangupCall
<1>2. s \in State
  BY <1>1 DEF State
<1>3. t \in Tasks /\ t.op = "hangup" /\ t.uid = u /\ t.call = c
  BY <1>1, TaskIsTask DEF Ops
<1>4. Start(h, "hangup", t, s) /\ UNCHANGED <<callVars, mediaVars>>
  BY DEF HangupCall
<1> HIDE DEF t, s
<1>5. TaskSound(h)'
  BY <1>1, <1>3, <1>4, Started DEF TaskSound, Created, callVars
<1> QED
  BY <1>2, <1>3, <1>4, <1>5, StarterTypes DEF Steps, Writes

LEMMA AcceptCallInviteTypes ==
  ASSUME TypeInv, NEW h \in Slots, NEW u \in Uids, NEW c \in Calls, AcceptCallInvite(h, u, c)
  PROVE  TypeInv'
<1> DEFINE t == Task("accept", u, c, rid[c], None)
<1>1. c \in Created /\ rid[c] \in Rooms /\ Read(c) \in State
  BY InvitedIsCreated DEF AcceptCallInvite
<1>2. t \in Tasks /\ t.op = "accept" /\ t.uid = u /\ t.call = c
  BY <1>1, TaskIsTask DEF Ops
<1>3. Start(h, "sign", t, Read(c)) /\ UNCHANGED <<callVars, mediaVars>>
  BY DEF AcceptCallInvite
<1> HIDE DEF t
<1>4. TaskSound(h)'
  BY <1>2, <1>3, Started DEF TaskSound
<1> QED
  BY <1>1, <1>2, <1>3, <1>4, StarterTypes DEF Steps, Writes

LEMMA IssueJoinSignTypes ==
  ASSUME TypeInv, NEW h \in Slots, NEW u \in Uids, NEW r \in Rooms, IssueJoinSign(h, u, r)
  PROVE  TypeInv'
<1> DEFINE t == Task("sign", u, None, r, None)
<1>1. t \in Tasks /\ t.op = "sign" /\ t.uid = u
  BY TaskIsTask DEF Ops
<1>2. Start(h, "sign", t, NewState) /\ UNCHANGED <<callVars, mediaVars>>
  BY DEF IssueJoinSign
<1> HIDE DEF t
<1>3. TaskSound(h)'
  BY <1>1, <1>2, Started DEF TaskSound
<1> QED
  BY <1>1, <1>2, <1>3, NewStateIsState, StarterTypes DEF Steps, Writes

LEMMA CurrentCallTypes ==
  ASSUME TypeInv, NEW h \in Slots, NEW r \in Rooms, CurrentCall(h, r)
  PROVE  TypeInv'
<1> DEFINE c == ptr[r]
           t == Task("current", None, c, r, None)
<1>1. c \in Calls /\ rid[c] = r /\ Read(c) \in State /\ c \in Created
  BY ReadIsState, NoneApart DEF CurrentCall, TypeInv, TypeOK, CallTypes, CallsSound, Created
<1>2. t \in Tasks /\ t.op = "current" /\ t.call = c
  BY <1>1, TaskIsTask DEF Ops
<1>3. Start(h, "ptr", t, Read(c)) /\ UNCHANGED <<callVars, mediaVars>>
  BY DEF CurrentCall
<1> HIDE DEF t, c
<1>4. TaskSound(h)'
  BY <1>1, <1>2, <1>3, Started DEF TaskSound, Target, Created, callVars
<1> QED
  BY <1>1, <1>2, <1>3, <1>4, StarterTypes DEF Steps, Writes

LEMMA CreateCallInviteTypes ==
  ASSUME TypeInv, NEW h \in Slots, NEW u \in Uids, NEW r \in Rooms, NEW c \in Calls,
         CreateCallInvite(h, u, r, c)
  PROVE  TypeInv'
<1> DEFINE p == ptr[r]
           next == IF p = None THEN "new"
                   ELSE IF p \notin invite THEN "keys"
                   ELSE IF Read(p).ended THEN "new" ELSE "finish"
           t == Task("create", u, c, r, p)
           s == IF p = None THEN NewState ELSE Read(p)
<1>1. p \in Calls \cup {None} /\ (p \in Calls => rid[p] = r)
  BY DEF TypeInv, TypeOK, CallTypes, CallsSound
<1>2. s \in State
  BY <1>1, NewStateIsState, ReadIsState DEF TypeInv, TypeOK
<1>3. /\ Start(h, next, t, s) /\ inviter[c] = None
      /\ inviter' = [inviter EXCEPT ![c] = u] /\ rid' = [rid EXCEPT ![c] = r]
      /\ UNCHANGED <<invite, st, ptr, mapped, recorded, mediaVars>>
  BY DEF CreateCallInvite
<1>4. t \in Tasks /\ t.op = "create" /\ t.uid = u /\ t.call = c /\ t.old = p /\ t.rid = r
  BY <1>1, TaskIsTask DEF Ops
<1>5. next \in {"new", "keys", "finish"} /\ (p = None => next = "new")
  OBVIOUS
<1> HIDE DEF p, next, t, s
<1>6. rid[c] = None /\ rid'[c] = r /\ \A d \in Calls \ {c} : rid'[d] = rid[d]
  BY <1>3 DEF TypeInv, TypeOK, CallTypes, CallsSound
<1>7. c \notin Created /\ \A d \in Created : rid'[d] = rid[d]
  BY <1>6 DEF Created
<1>8. Created \subseteq Created'
  BY <1>7, NoneApart DEF Created
<1>9. TaskSound(h)'
  <2>1. pc'[h] = next /\ task'[h] = t
    BY <1>3, Started
  <2>2. p \in Calls => p \in Created /\ rid'[p] = r
    BY <1>1, <1>7, NoneApart DEF Created
  <2>3. next # "new" => p \in Created'
    BY <1>1, <1>5, <1>8, <2>2
  <2> QED
    BY <1>4, <1>5, <1>6, <2>1, <2>2, <2>3 DEF TaskSound, Target
<1>10. SlotTypes' /\ \A g \in Slots : TaskSound(g)'
  BY <1>2, <1>3, <1>4, <1>5, <1>7, <1>9, StartMoves DEF Steps, Writes
<1>11. CallTypes' /\ MediaTypes'
  BY <1>3 DEF TypeInv, TypeOK, CallTypes, MediaTypes, mediaVars
<1>12. CallsSound'
  <2>1. \A d \in Calls : rid'[d] = None <=> inviter'[d] = None
    BY <1>3, <1>6, NoneApart DEF TypeInv, TypeOK, CallTypes, CallsSound
  <2>2. \A q \in Rooms, d \in Calls : ptr'[q] = d => rid'[d] = q
    BY <1>3, <1>6, NoneApart DEF TypeInv, CallsSound
  <2> QED
    BY <1>3, <1>8, <2>1, <2>2 DEF TypeInv, CallsSound, mediaVars
<1> QED
  BY <1>10, <1>11, <1>12 DEF TypeInv, TypeOK

LEMMA IssueSignTypes ==
  ASSUME TypeInv, NEW h \in Slots, IssueSign(h)
  PROVE  TypeInv'
<1> DEFINE n == CHOOSE m \in Nonces : signs[m] = None
           sign == [uid |-> task[h].uid, rid |-> task[h].rid]
<1>1. pc[h] = "sign"
  BY DEF IssueSign
<1>2. sign \in Signs
  BY <1>1, BusyHasTask DEF TaskSound, Signs
<1>3. TaskSound(h)'
  BY <1>1 DEF IssueSign, TaskSound, TypeInv, TypeOK, SlotTypes
<1>4. /\ pc' = [pc EXCEPT ![h] = "idle"] /\ task' = [task EXCEPT ![h] = None]
      /\ copy' = [copy EXCEPT ![h] = NewState] /\ dirty' = dirty \ {h}
      /\ UNCHANGED <<callVars, conn, closed, hub, overlapped, requests>>
  BY DEF IssueSign
<1>5. SlotTypes' /\ \A g \in Slots : TaskSound(g)'
  BY <1>3, <1>4, NewStateIsState, SlotMoves
     DEF callVars, Steps, TypeInv, TypeOK, SlotTypes
<1>6. /\ signs' \in [Nonces -> Signs \cup {None}] /\ fresh' \subseteq Nonces
      /\ \A m \in fresh' : signs'[m] # None
  <2>1. CASE \E m \in Nonces : signs[m] = None
    <3>1. n \in Nonces
      BY <2>1
    <3>2. signs' = [signs EXCEPT ![n] = sign] /\ fresh' = fresh \cup {n}
      BY <2>1 DEF IssueSign
    <3> HIDE DEF n, sign
    <3> QED
      BY <1>2, <3>1, <3>2, NoneApart DEF TypeInv, TypeOK, MediaTypes, CallsSound
  <2>2. CASE ~\E m \in Nonces : signs[m] = None
    BY <2>2 DEF IssueSign, TypeInv, TypeOK, MediaTypes, CallsSound
  <2> QED
    BY <2>1, <2>2
<1>7. MediaTypes' /\ CallTypes' /\ CallsSound'
  BY <1>4, <1>6 DEF TypeInv, TypeOK, CallTypes, MediaTypes, CallsSound, Created, callVars
<1> QED
  BY <1>5, <1>7 DEF TypeInv, TypeOK

LEMMA ConnectTypes ==
  ASSUME TypeInv, NEW k \in Conns, NEW n \in Nonces, Connect(k, n)
  PROVE  TypeInv'
<1> DEFINE s == signs[n]
           new == [uid |-> s.uid, rid |-> s.rid, nonce |-> n]
<1>1. s \in Signs
  BY DEF Connect, TypeInv, TypeOK, MediaTypes, CallsSound
<1>2. new \in MediaConns
  BY <1>1 DEF Signs, MediaConns
<1>3. /\ conn' = [conn EXCEPT ![k] = new] /\ fresh' \subseteq fresh
      /\ hub' \subseteq hub \cup {k}
      /\ UNCHANGED <<callVars, signs, closed, slotVars, dirty, overlapped, requests>>
  BY DEF Connect, Consume
<1> HIDE DEF new
<1>4. MediaTypes'
  BY <1>2, <1>3, NoneApart DEF TypeInv, TypeOK, MediaTypes
<1>5. CallTypes' /\ SlotTypes' /\ CallsSound'
  BY <1>3 DEF TypeInv, TypeOK, CallTypes, SlotTypes, CallsSound, Created, callVars, slotVars
<1>6. \A h \in Slots : TaskSound(h)'
  BY <1>3 DEF TypeInv, TaskSound, Created, Target, callVars, slotVars
<1> QED
  BY <1>4, <1>5, <1>6 DEF TypeInv, TypeOK

LEMMA DisconnectTypes ==
  ASSUME TypeInv, NEW h \in Slots, NEW k \in Conns, Disconnect(h, k)
  PROVE  TypeInv'
<1> DEFINE t == Task("close", conn[k].uid, None, conn[k].rid, None)
           next == IF InHub(conn[k].rid) \subseteq
                        {j \in Conns : conn[j] # None /\ conn[j].uid = conn[k].uid}
                   THEN "drop" ELSE "offline"
<1>1. conn[k] \in MediaConns
  BY DEF Disconnect, TypeInv, TypeOK, MediaTypes
<1>2. t \in Tasks /\ t.op = "close" /\ t.uid \in Uids
  BY <1>1, TaskIsTask DEF Ops, MediaConns
<1>3. Start(h, next, t, NewState) /\ next \in {"drop", "offline"}
  BY DEF Disconnect
<1>4. /\ closed' = closed \cup {k} /\ hub' \subseteq hub
      /\ UNCHANGED <<callVars, signs, fresh, conn>>
  BY DEF Disconnect
<1> HIDE DEF t, next
<1>5. TaskSound(h)'
  BY <1>2, <1>3, Started DEF TaskSound
<1>6. SlotTypes' /\ \A g \in Slots : TaskSound(g)'
  BY <1>2, <1>3, <1>4, <1>5, NewStateIsState, StartMoves DEF Steps, callVars
<1>7. CallTypes' /\ MediaTypes' /\ CallsSound'
  BY <1>4 DEF TypeInv, TypeOK, CallTypes, MediaTypes, CallsSound, Created, callVars
<1> QED
  BY <1>6, <1>7 DEF TypeInv, TypeOK

LEMMA DropHubTypes ==
  ASSUME TypeInv, NEW h \in Slots, DropHub(h)
  PROVE  TypeInv'
<1>1. /\ pc[h] = "drop" /\ TaskSound(h) /\ task[h] # None
      /\ \A g \in Slots : pc'[g] = IF g = h THEN "offlineEmpty" ELSE pc[g]
      /\ pc' \in [Slots -> Steps]
  BY DEF DropHub, TypeInv, TypeOK, SlotTypes, Steps
<1>2. SlotTypes'
  BY <1>1 DEF DropHub, TypeInv, TypeOK, SlotTypes
<1>3. \A g \in Slots : TaskSound(g)'
  BY <1>1 DEF DropHub, TypeInv, TaskSound, Created, Target, callVars
<1>4. CallTypes' /\ MediaTypes' /\ CallsSound'
  BY DEF DropHub, TypeInv, TypeOK, CallTypes, MediaTypes, CallsSound, Created, callVars
<1> QED
  BY <1>2, <1>3, <1>4 DEF TypeInv, TypeOK

LEMMA OfflineTypes ==
  ASSUME TypeInv, NEW h \in Slots, Offline(h)
  PROVE  TypeInv'
<1> DEFINE c == mapped[task[h].uid]
           op == IF pc[h] = "offline" THEN "leave" ELSE "close"
           t == [task[h] EXCEPT !.op = op, !.call = c]
           s == [Read(c) EXCEPT !.active = @ \ {task[h].uid}]
<1>1. /\ pc[h] \in {"offline", "offlineEmpty"} /\ TaskSound(h) /\ task[h] \in Tasks
      /\ task[h].op = "close" /\ task[h].uid \in Uids /\ task[h].rid \in Rooms
      /\ task[h].old \in Calls \cup {None} /\ c \in Calls \cup {None}
  BY BusyHasTask DEF Offline, TaskSound, TypeInv, TypeOK, CallTypes
<1>2. /\ t \in Tasks /\ t # None /\ t.op = op /\ t.uid \in Uids /\ t.call = c
      /\ op \in {"leave", "close"}
  <2>1. t \in Tasks
    BY <1>1 DEF Tasks, Ops
  <2> QED
    BY <1>1, <2>1, NoneApart DEF Tasks
<1>3. MediaTypes' /\ CallTypes'
  BY <1>1 DEF Offline, ClearMapping, TypeInv, TypeOK, CallTypes, MediaTypes, mediaVars
<1>4. CallsSound' /\ rid' = rid
  BY DEF Offline, TypeInv, CallsSound, Created, mediaVars
<1>5. SlotTypes' /\ \A g \in Slots : TaskSound(g)'
  <2>1. dirty' \in SUBSET Slots /\ overlapped' \in BOOLEAN /\ requests' \in 0 .. MaxRequests
    BY DEF Offline, TypeInv, TypeOK, SlotTypes
  <2>2. CASE c \in invite
    <3>1. s \in State /\ c \in Created
      <4>1. Read(c) \in State /\ c \in Created
        BY <2>2, InvitedIsCreated
      <4> QED
        BY <4>1 DEF State
    <3>2. /\ pc' = [pc EXCEPT ![h] = "leave"] /\ task' = [task EXCEPT ![h] = t]
          /\ copy' = [copy EXCEPT ![h] = s]
      BY <2>2 DEF Offline
    <3>3. TaskSound(h)'
      <4> HIDE DEF t, s, c, op
      <4>1. pc'[h] = "leave" /\ task'[h] = t
        BY <3>2 DEF TypeInv, TypeOK, SlotTypes
      <4> QED
        BY <1>2, <1>4, <3>1, <4>1 DEF TaskSound, Created
    <3> HIDE DEF t, s
    <3> QED
      BY <1>2, <1>4, <2>1, <3>1, <3>2, <3>3, SlotMoves DEF Steps, Writes
  <2>3. CASE c \notin invite
    <3> DEFINE next == Then(t)
               t1 == IF next = "idle" THEN None ELSE t
    <3>1. /\ next \in {"idle", "empty"}
          /\ next = "idle" <=> t1 = None
          /\ t1 \in Tasks \cup {None}
      BY <1>2 DEF Then
    <3>2. pc' = [pc EXCEPT ![h] = next] /\ task' = [task EXCEPT ![h] = t1] /\ copy' = copy
      BY <2>3 DEF Offline
    <3>3. copy' = [copy EXCEPT ![h] = copy[h]] /\ copy[h] \in State
      BY <3>2 DEF TypeInv, TypeOK, SlotTypes
    <3> HIDE DEF next
    <3>4. TaskSound(h)'
      <4> HIDE DEF t, c, op
      <4>1. pc'[h] = next /\ (next # "idle" => task'[h] = t)
        BY <3>2 DEF TypeInv, TypeOK, SlotTypes
      <4> QED
        BY <1>2, <3>1, <4>1 DEF TaskSound
    <3> HIDE DEF t1
    <3> QED
      BY <1>4, <2>1, <3>1, <3>2, <3>3, <3>4, SlotMoves DEF Steps
  <2> QED
    BY <2>2, <2>3
<1> QED
  BY <1>3, <1>4, <1>5 DEF TypeInv, TypeOK

LEMMA RoomEmptyTypes ==
  ASSUME TypeInv, NEW h \in Slots, RoomEmpty(h)
  PROVE  TypeInv'
<1> DEFINE c == ptr[task[h].rid]
           next == IF c = None THEN "idle"
                   ELSE IF c \notin invite THEN "keys"
                   ELSE IF Read(c).ended THEN "ptr"
                   ELSE IF Read(c).active # {} THEN "prune" ELSE "finish"
           t == Task("empty", task[h].uid, c, task[h].rid, None)
           t1 == IF next = "idle" THEN None ELSE t
           s == IF next = "idle" THEN NewState ELSE Read(c)
<1>1. /\ pc[h] = "empty" /\ task[h].rid \in Rooms /\ c \in Calls \cup {None}
      /\ task[h].uid \in Uids /\ (c \in Calls => c \in Created)
  BY BusyHasTask, NoneApart
     DEF RoomEmpty, TypeInv, TypeOK, CallTypes, CallsSound, TaskSound, Created
<1>2. /\ pc' = [pc EXCEPT ![h] = next] /\ task' = [task EXCEPT ![h] = t1]
      /\ copy' = [copy EXCEPT ![h] = s] /\ dirty' = dirty \ {h}
      /\ UNCHANGED <<callVars, mediaVars, overlapped, requests>>
  BY DEF RoomEmpty, TypeInv, TypeOK, SlotTypes
<1>3. t \in Tasks /\ t # None /\ t.op = "empty" /\ t.uid = task[h].uid /\ t.call = c
  BY <1>1, TaskIsTask DEF Ops
<1>4. /\ next \in {"idle", "keys", "ptr", "prune", "finish"}
      /\ next = "idle" <=> c = None
  OBVIOUS
<1>5. s \in State /\ t1 \in Tasks \cup {None} /\ (next = "idle" <=> t1 = None)
  BY <1>1, <1>3, <1>4, NewStateIsState, ReadIsState DEF TypeInv, TypeOK
<1>6. TaskSound(h)'
  <2>1. pc'[h] = next /\ task'[h] = t1 /\ Created' = Created
    BY <1>2 DEF TypeInv, TypeOK, SlotTypes, Created, callVars
  <2> HIDE DEF t, next, c
  <2> QED
    BY <1>1, <1>3, <1>4, <2>1 DEF TaskSound, Target
<1> HIDE DEF t1, s, next
<1>7. SlotTypes' /\ \A g \in Slots : TaskSound(g)'
  BY <1>2, <1>4, <1>5, <1>6, SlotMoves
     DEF Steps, Writes, callVars, TypeInv, TypeOK, SlotTypes
<1>8. CallTypes' /\ MediaTypes' /\ CallsSound'
  BY <1>2 DEF TypeInv, TypeOK, CallTypes, MediaTypes, CallsSound, Created, callVars, mediaVars
<1> QED
  BY <1>7, <1>8 DEF TypeInv, TypeOK

LEMMA InitTypes == Init => TypeInv
<1> SUFFICES ASSUME Init PROVE TypeInv
  OBVIOUS
<1>1. requests \in 0 .. MaxRequests
  BY ConstantsAssumption DEF Init
<1>2. TypeOK
  BY <1>1, NewStateIsState
     DEF Init, TypeOK, CallTypes, MediaTypes, SlotTypes, Steps
<1>3. CallsSound /\ \A h \in Slots : TaskSound(h)
  BY NoneApart DEF Init, CallsSound, TaskSound, Created
<1> QED
  BY <1>2, <1>3 DEF TypeInv

LEMMA TypeStep == TypeInv /\ [Next]_vars => TypeInv'
<1> SUFFICES ASSUME TypeInv, [Next]_vars PROVE TypeInv'
  OBVIOUS
<1>1. ASSUME NEW h \in Slots, Request(h) PROVE TypeInv'
  BY <1>1, IssueJoinSignTypes, CreateCallInviteTypes, MarkCallMemberJoinedTypes, LeaveCallTypes,
     RejectCallInviteTypes, HangupCallTypes, AcceptCallInviteTypes DEF Request
<1>2. ASSUME NEW h \in Slots, Work(h) PROVE TypeInv'
  BY <1>2, WriteJoinTypes, WriteLeaveTypes, WriteRejectTypes, WriteHangupTypes, FinishTypes,
     RecordTypes, DestroyKeysTypes, DestroyPointerTypes, WriteInviteTypes, WritePointerTypes,
     IssueSignTypes, DropHubTypes, OfflineTypes, RoomEmptyTypes, PruneTypes DEF Work
<1>3. CASE UNCHANGED vars
  BY <1>3 DEF vars, callVars, mediaVars, slotVars, TypeInv, TypeOK, CallTypes, MediaTypes,
     SlotTypes, CallsSound, TaskSound, Target, Created
<1> QED
  BY <1>1, <1>2, <1>3, CurrentCallTypes, DisconnectTypes, ConnectTypes DEF Next

(* The types hold for every number of handlers at once, however they       *)
(* overlap.                                                                *)
THEOREM TypeCorrect == Spec => []TypeInv
BY InitTypes, TypeStep, PTL DEF Spec

-----------------------------------------------------------------------------
(* The records of the calls.                                               *)

(* Who writes and stays among serial handlers is the only writer.          *)
LEMMA Turn ==
  ASSUME TypeInv, CallsSerial, NEW h \in Slots, pc[h] \in Writes, NEW next \in Steps,
         NEW s \in State, Write(h, next, s), Serial'
  PROVE  /\ Serial /\ Writing = {h}
         /\ Writing' = IF next \in Writes THEN {h} ELSE {}
         /\ pc'[h] = next
         /\ next \in Writes => task'[h] = task[h] /\ copy'[h] = s
         /\ \A c \in Calls : c \notin Halfway(h) => Settled(c)
         /\ Ending(h) /\ Creating(h)
<1>1. \A g \in Slots \ {h} : pc'[g] = pc[g]
  BY DEF Write, TypeInv, TypeOK, SlotTypes
<1>2. pc[h] # "idle"
  BY DEF Writes
<1>3. pc'[h] = next /\ (next \in Writes => task'[h] = task[h] /\ copy'[h] = s)
  BY <1>2, Written DEF Writes
<1>4. ~overlapped /\ h \notin dirty
  BY DEF Write, Serial
<1>5. ASSUME NEW g \in Slots \ {h} PROVE pc[g] \notin Writes
  <2> SUFFICES ASSUME pc[g] \in Writes PROVE FALSE
    OBVIOUS
  <2>1. g \in dirty'
    BY DEF Write, Writes
  <2> QED
    BY <1>1, <2>1 DEF Serial, Writing
<1>6. Writing = {h} /\ Writing' = IF next \in Writes THEN {h} ELSE {}
  BY <1>1, <1>3, <1>5 DEF Writing
<1>7. Serial
  BY <1>4, <1>6 DEF Serial
<1> QED
  BY <1>3, <1>6, <1>7 DEF CallsSerial

(* Who starts to write among serial handlers finds all calls settled.      *)
LEMMA Entry ==
  ASSUME TypeInv, CallsSerial, PointersSerial, NEW h \in Slots, pc[h] \notin Writes,
         NEW next \in Writes, pc' = [pc EXCEPT ![h] = next], overlapped' = overlapped, Serial'
  PROVE  /\ Serial /\ Writing = {} /\ Writing' = {h} /\ pc'[h] = next
         /\ \A c \in Calls : Settled(c)
         /\ OneRoom => PointersAgree
<1>1. pc'[h] = next /\ \A g \in Slots \ {h} : pc'[g] = pc[g]
  BY DEF TypeInv, TypeOK, SlotTypes
<1>2. ASSUME NEW g \in Slots PROVE pc[g] \notin Writes
  BY <1>1 DEF Serial, Writing
<1>3. Writing = {} /\ Writing' = {h}
  BY <1>1, <1>2 DEF Writing
<1>4. Serial
  BY <1>3 DEF Serial
<1> QED
  BY <1>1, <1>3, <1>4 DEF CallsSerial, PointersSerial, PointersAgree

(* A start that leaves the records alone for now.                          *)
LEMMA EntrySerial ==
  ASSUME TypeInv, CallsSerial, PointersSerial, NEW h \in Slots, pc[h] \notin Writes,
         NEW next \in Writes, pc' = [pc EXCEPT ![h] = next], overlapped' = overlapped,
         UNCHANGED callVars,
         Serial' => /\ next \in {"join", "leave", "reject", "hangup", "finish", "prune"}
                    /\ task'[h].op # "create" /\ task'[h].call \in invite
                    /\ CopyKnown(h, task[h].call)'
  PROVE  CallsSerial' /\ PointersSerial'
<1> SUFFICES ASSUME Serial' PROVE CallsSerial' /\ PointersSerial'
  BY DEF CallsSerial, PointersSerial
<1>1. /\ Writing' = {h} /\ pc'[h] = next
      /\ \A c \in Calls : Settled(c)
      /\ OneRoom => PointersAgree
  BY Entry
<1>2. \A c \in Calls : Settled(c)'
  BY <1>1 DEF Settled, Live, Over, callVars
<1>3. Ending(h)' /\ Creating(h)'
  BY <1>1 DEF Ending, Creating, Target, callVars
<1> QED
  BY <1>1, <1>2, <1>3 DEF CallsSerial, PointersSerial, PointersAgree, callVars

(* A step that neither writes records nor starts to.                       *)
LEMMA Bystander ==
  ASSUME TypeInv, CallsSerial, PointersSerial, NEW h \in Slots, pc[h] \notin Writes,
         NEW next \in Steps \ Writes, pc' = [pc EXCEPT ![h] = next],
         \A g \in Slots \ {h} : task'[g] = task[g] /\ copy'[g] = copy[g],
         dirty \ {h} \subseteq dirty', overlapped' = overlapped,
         UNCHANGED <<inviter, rid, invite, st, ptr, recorded>>,
         Serial /\ OneRoom => mapped' = mapped
  PROVE  CallsSerial' /\ PointersSerial'
<1> SUFFICES ASSUME Serial' PROVE CallsSerial' /\ PointersSerial'
  BY DEF CallsSerial, PointersSerial
<1>1. pc'[h] = next /\ \A g \in Slots \ {h} : pc'[g] = pc[g]
  BY DEF TypeInv, TypeOK, SlotTypes
<1>2. Writing' = Writing /\ h \notin Writing
  BY <1>1 DEF Writing
<1>3. Serial
  BY <1>2 DEF Serial, Writing
<1>4. \A g \in Writing : pc'[g] = pc[g] /\ task'[g] = task[g] /\ copy'[g] = copy[g]
  BY <1>1, <1>2 DEF Writing
<1>5. CallsSerial'
  <2>1. \A c \in Calls : Settled(c)' <=> Settled(c)
    BY DEF Settled, Live, Over
  <2>2. \A g \in Writing : Halfway(g)' = Halfway(g)
    BY <1>4 DEF Halfway, Target
  <2>3. ASSUME NEW g \in Writing PROVE Ending(g)' /\ Creating(g)'
    <3>1. pc'[g] = pc[g] /\ task'[g] = task[g] /\ copy'[g] = copy[g]
      BY <1>4
    <3>2. Ending(g) /\ Creating(g)
      BY <1>3 DEF CallsSerial
    <3>3. \A c : CopyKnown(g, c)' <=> CopyKnown(g, c)
      BY <3>1 DEF CopyKnown
    <3>4. Ending(g)'
      BY <3>1, <3>2, <3>3 DEF Ending, Target
    <3>5. Creating(g)'
      BY <3>1, <3>2 DEF Creating
    <3> QED
      BY <3>4, <3>5
  <2> QED
    BY <1>2, <1>3, <2>1, <2>2, <2>3 DEF CallsSerial
<1>6. PointersSerial'
  BY <1>2, <1>3, <1>4 DEF PointersSerial, PointersAgree, OneRoom
<1> QED
  BY <1>5, <1>6

-----------------------------------------------------------------------------
(* The steps that start, or write no record of a call.                     *)

(* A call with an invite, read among serial handlers.                      *)
LEMMA SettledRead ==
  ASSUME NEW c \in invite, Settled(c)
  PROVE  /\ st[c] # None /\ Read(c) = st[c] /\ ~Read(c).ended /\ ptr[rid[c]] = c
BY DEF Settled, Live, Read

LEMMA MarkCallMemberJoinedSerial ==
  ASSUME TypeInv, CallsSerial, PointersSerial, NEW h \in Slots, NEW u \in Uids,
         NEW c \in Calls, MarkCallMemberJoined(h, u, c)
  PROVE  CallsSerial' /\ PointersSerial'
<1> DEFINE t == Task("join", u, c, rid[c], None)
           s == [Read(c) EXCEPT !.active = @ \cup {u}]
<1>1. Start(h, "join", t, s) /\ c \in invite /\ UNCHANGED callVars
  BY DEF MarkCallMemberJoined
<1>2. pc[h] \notin Writes /\ pc' = [pc EXCEPT ![h] = "join"] /\ overlapped' = overlapped
      /\ pc'[h] = "join" /\ task'[h] = t /\ copy'[h] = s
  BY <1>1, Started DEF Start, Writes
<1>3. Read(c) \in State
  BY <1>1, InvitedIsCreated
<1>4. s.active = Read(c).active \cup {u} /\ s.ended = Read(c).ended
  BY <1>3 DEF State
<1>5. t.op = "join" /\ t.uid = u /\ t.call = c
  BY DEF Task
<1> HIDE DEF t, s
<1>6. ASSUME Serial' PROVE CopyKnown(h, c)'
  <2>1. Settled(c)
    BY <1>2, <1>6, Entry DEF Writes
  <2> QED
    BY <1>1, <1>2, <1>4, <1>5, <2>1, SettledRead DEF CopyKnown, callVars
<1> QED
  BY <1>1, <1>2, <1>5, <1>6, EntrySerial DEF Writes

LEMMA LeaveCallSerial ==
  ASSUME TypeInv, CallsSerial, PointersSerial, NEW h \in Slots, NEW u \in Uids,
         NEW c \in Calls, LeaveCall(h, u, c)
  PROVE  CallsSerial' /\ PointersSerial'
<1> DEFINE t == Task("leave", u, c, rid[c], None)
           s == [Read(c) EXCEPT !.active = @ \ {u}]
<1>1. Start(h, "leave", t, s) /\ c \in invite /\ UNCHANGED callVars
  BY DEF LeaveCall
<1>2. pc[h] \notin Writes /\ pc' = [pc EXCEPT ![h] = "leave"] /\ overlapped' = overlapped
      /\ pc'[h] = "leave" /\ task'[h] = t /\ copy'[h] = s
  BY <1>1, Started DEF Start, Writes
<1>3. Read(c) \in State
  BY <1>1, InvitedIsCreated
<1>4. s.active = Read(c).active \ {u} /\ s.ended = Read(c).ended
  BY <1>3 DEF State
<1>5. t.op = "leave" /\ t.uid = u /\ t.call = c
  BY DEF Task
<1> HIDE DEF t, s
<1>6. ASSUME Serial' PROVE CopyKnown(h, c)'
  <2>1. Settled(c)
    BY <1>2, <1>6, Entry DEF Writes
  <2> QED
    BY <1>1, <1>2, <1>4, <1>5, <2>1, SettledRead DEF CopyKnown, callVars
<1> QED
  BY <1>1, <1>2, <1>5, <1>6, EntrySerial DEF Writes

LEMMA RejectCallInviteSerial ==
  ASSUME TypeInv, CallsSerial, PointersSerial, NEW h \in Slots, NEW u \in Uids,
         NEW c \in Calls, RejectCallInvite(h, u, c)
  PROVE  CallsSerial' /\ PointersSerial'
<1> DEFINE t == Task("reject", u, c, rid[c], None)
           no == Read(c).rejected \cup {u}
           all == Cardinality(no) >= Cardinality(Uids) - 1
           s == [Read(c) EXCEPT !.rejected = no, !.ended = all]
<1>1. Start(h, "reject", t, s) /\ c \in invite /\ UNCHANGED callVars
  BY DEF RejectCallInvite
<1>2. pc[h] \notin Writes /\ pc' = [pc EXCEPT ![h] = "reject"] /\ overlapped' = overlapped
      /\ pc'[h] = "reject" /\ task'[h] = t /\ copy'[h] = s
  BY <1>1, Started DEF Start, Writes
<1>3. Read(c) \in State
  BY <1>1, InvitedIsCreated
<1> HIDE DEF all
<1>4. s.active = Read(c).active
  BY <1>3 DEF State
<1>5. t.op = "reject" /\ t.uid = u /\ t.call = c
  BY DEF Task
<1> HIDE DEF t, s
<1>6. ASSUME Serial' PROVE CopyKnown(h, c)'
  <2>1. Settled(c)
    BY <1>2, <1>6, Entry DEF Writes
  <2> QED
    BY <1>1, <1>2, <1>4, <1>5, <2>1, SettledRead DEF CopyKnown, callVars
<1> QED
  BY <1>1, <1>2, <1>5, <1>6, EntrySerial DEF Writes

LEMMA HangupCallSerial ==
  ASSUME TypeInv, CallsSerial, PointersSerial, NEW h \in Slots, NEW u \in Uids,
         NEW c \in Calls, HangupCall(h, u, c)
  PROVE  CallsSerial' /\ PointersSerial'
<1> DEFINE t == Task("hangup", u, c, rid[c], None)
           s == IF EndsForAll(u, c) THEN [Read(c) EXCEPT !.ended = TRUE]
                ELSE [Read(c) EXCEPT !.active = @ \ {u}, !.rejected = @ \cup {u}]
<1>1. Start(h, "hangup", t, s) /\ c \in invite /\ ~Read(c).ended /\ UNCHANGED callVars
  BY DEF HangupCall
<1>2. pc[h] \notin Writes /\ pc' = [pc EXCEPT ![h] = "hangup"] /\ overlapped' = overlapped
      /\ pc'[h] = "hangup" /\ task'[h] = t /\ copy'[h] = s
  BY <1>1, Started DEF Start, Writes
<1>3. Read(c) \in State
  BY <1>1, InvitedIsCreated
<1>4. s.active = IF s.ended THEN Read(c).active ELSE Read(c).active \ {u}
  BY <1>1, <1>3 DEF State
<1>5. t.op = "hangup" /\ t.uid = u /\ t.call = c
  BY DEF Task
<1> HIDE DEF t, s
<1>6. ASSUME Serial' PROVE CopyKnown(h, c)'
  <2>1. Settled(c)
    BY <1>2, <1>6, Entry DEF Writes
  <2> QED
    BY <1>1, <1>2, <1>4, <1>5, <2>1, SettledRead DEF CopyKnown, callVars
<1> QED
  BY <1>1, <1>2, <1>5, <1>6, EntrySerial DEF Writes

(* CurrentCall finds nothing to delete among serial handlers.              *)
LEMMA CurrentCallSerial ==
  ASSUME TypeInv, CallsSerial, PointersSerial, NEW h \in Slots, NEW r \in Rooms,
         CurrentCall(h, r)
  PROVE  CallsSerial' /\ PointersSerial'
<1>1. /\ pc[h] \notin Writes /\ pc' = [pc EXCEPT ![h] = "ptr"] /\ overlapped' = overlapped
      /\ ptr[r] # None /\ UNCHANGED callVars
      /\ ptr[r] \notin invite \/ Read(ptr[r]).ended
  BY DEF CurrentCall, Start, Writes
<1>2. ASSUME Serial' PROVE FALSE
  <2>1. ptr[r] \in Calls /\ Settled(ptr[r])
    BY <1>1, <1>2, Entry DEF Writes, TypeInv, TypeOK, CallTypes
  <2>2. ptr[r] \in invite
    BY <2>1 DEF Settled, Over
  <2> QED
    BY <1>1, <2>1, <2>2, SettledRead
<1> QED
  BY <1>2 DEF CallsSerial, PointersSerial

LEMMA CreateCallInviteSerial ==
  ASSUME TypeInv, CallsSerial, PointersSerial, NEW h \in Slots, NEW u \in Uids,
         NEW r \in Rooms, NEW c \in Calls, CreateCallInvite(h, u, r, c)
  PROVE  CallsSerial' /\ PointersSerial'
<1> SUFFICES ASSUME Serial' PROVE CallsSerial' /\ PointersSerial'
  BY DEF CallsSerial, PointersSerial
<1> PICK p : p = ptr[r]
  OBVIOUS
<1> DEFINE next == IF p = None THEN "new"
                   ELSE IF p \notin invite THEN "keys"
                   ELSE IF Read(p).ended THEN "new" ELSE "finish"
           t == Task("create", u, c, r, p)
           s == IF p = None THEN NewState ELSE Read(p)
<1>1. /\ Start(h, next, t, s) /\ ~Busy(p) /\ inviter[c] = None
      /\ inviter' = [inviter EXCEPT ![c] = u] /\ rid' = [rid EXCEPT ![c] = r]
      /\ UNCHANGED <<invite, st, ptr, mapped, recorded>>
  BY DEF CreateCallInvite
<1>2. /\ pc[h] \notin Writes /\ pc' = [pc EXCEPT ![h] = next] /\ overlapped' = overlapped
      /\ pc'[h] = next /\ task'[h] = t /\ copy'[h] = s /\ next \in Writes
  <2>1. next \in Writes
    BY DEF Writes
  <2> HIDE DEF next, t, s
  <2> QED
    BY <1>1, <2>1, Started DEF Start, Writes
<1>3. t.op = "create" /\ t.call = c /\ t.old = p /\ t.rid = r
  BY DEF Task
<1>4. /\ rid[c] = None /\ rid'[c] = r /\ \A d \in Calls \ {c} : rid'[d] = rid[d]
      /\ \A d \in Calls \ {c} : inviter'[d] = inviter[d]
  BY <1>1 DEF TypeInv, TypeOK, CallTypes, CallsSound
<1>5. /\ Writing' = {h}
      /\ \A d \in Calls : Settled(d)
      /\ OneRoom => PointersAgree
  BY <1>2, Entry
<1>6. c \notin invite /\ st[c] = None /\ \A q \in Rooms : ptr[q] # c
  <2>1. c \notin invite
    BY <1>4 DEF TypeInv, CallsSound, Created
  <2> QED
    BY <1>5, <2>1 DEF Settled, Over
<1>7. p # None => /\ p \in invite /\ p # c /\ rid[p] = r /\ rid'[p] = r /\ ~Read(p).ended
                  /\ st[p] # None /\ Read(p) = st[p] /\ st[p].active = {}
  <2> SUFFICES ASSUME p # None
               PROVE  /\ p \in invite /\ p # c /\ rid[p] = r /\ rid'[p] = r
                      /\ ~Read(p).ended
                      /\ st[p] # None /\ Read(p) = st[p] /\ st[p].active = {}
    OBVIOUS
  <2>1. p \in Calls /\ rid[p] = r /\ p # c
    BY <1>6 DEF TypeInv, TypeOK, CallTypes, CallsSound
  <2>2. p \in invite
    BY <1>5, <2>1 DEF Settled, Over
  <2>3. st[p] # None /\ Read(p) = st[p] /\ ~Read(p).ended
    BY <1>5, <2>1, <2>2, SettledRead
  <2> QED
    BY <1>1, <1>4, <2>1, <2>2, <2>3 DEF Busy
<1>8. /\ p = None => next = "new"
      /\ p # None => next = "finish" /\ s = st[p]
  BY <1>7
<1>9. next \in {"new", "finish"}
  BY <1>8
<1>10. ASSUME NEW d \in Calls \ {c} PROVE Settled(d)'
  <2>1. Settled(d)
    BY <1>5
  <2> QED
    BY <1>1, <1>4, <2>1 DEF Settled, Live, Over
<1>11. Halfway(h)' = {c}
  BY <1>2, <1>3, <1>9 DEF Halfway
<1>12. Creating(h)'
  <2>1. next = "new" => ptr'[rid'[c]] = None
    BY <1>1, <1>4, <1>8
  <2> HIDE DEF next, s, t
  <2> QED
    BY <1>1, <1>2, <1>3, <1>6, <1>9, <2>1 DEF Creating
<1>13. Ending(h)'
  <2>1. Target(task[h])' = p
    BY <1>2, <1>3 DEF Target
  <2>2. next = "finish" => p \in invite' /\ CopyKnown(h, p)'
    <3> HIDE DEF t
    <3>1. ASSUME next = "finish" PROVE p \in invite' /\ CopyKnown(h, p)'
      <4>1. p # None
        BY <3>1
      <4>2. copy'[h] = st[p] /\ st'[p] = st[p] /\ ~st[p].ended /\ p \in invite'
        BY <1>1, <1>2, <1>7, <1>8, <4>1
      <4> HIDE DEF next, s
      <4> QED
        BY <1>2, <3>1, <4>2 DEF CopyKnown
    <3> QED
      BY <3>1
  <2> HIDE DEF next, s, t
  <2> QED
    BY <1>2, <1>9, <2>1, <2>2 DEF Ending
<1>14. CallsSerial'
  BY <1>5, <1>10, <1>11, <1>12, <1>13 DEF CallsSerial
<1>15. PointersSerial'
  BY <1>1, <1>2, <1>5, <1>9 DEF PointersSerial, PointersAgree, OneRoom
<1> QED
  BY <1>14, <1>15

LEMMA StartBystander ==
  ASSUME TypeInv, CallsSerial, PointersSerial, NEW h \in Slots, NEW next \in Steps \ Writes,
         NEW t, NEW s, Start(h, next, t, s), UNCHANGED callVars
  PROVE  CallsSerial' /\ PointersSerial'
<1>1. /\ pc[h] \notin Writes /\ pc' = [pc EXCEPT ![h] = next]
      /\ dirty \ {h} \subseteq dirty' /\ overlapped' = overlapped
  BY DEF Start, Writes
<1>2. \A g \in Slots \ {h} : task'[g] = task[g] /\ copy'[g] = copy[g]
  BY DEF Start, TypeInv, TypeOK, SlotTypes
<1> QED
  BY <1>1, <1>2, Bystander DEF callVars

LEMMA RequestBystanders ==
  ASSUME TypeInv, CallsSerial, PointersSerial, NEW h \in Slots,
         \/ \E u \in Uids, c \in Calls : AcceptCallInvite(h, u, c)
         \/ \E u \in Uids, r \in Rooms : IssueJoinSign(h, u, r)
         \/ \E k \in Conns : Disconnect(h, k)
  PROVE  CallsSerial' /\ PointersSerial'
<1>1. ASSUME NEW u \in Uids, NEW c \in Calls, AcceptCallInvite(h, u, c)
      PROVE  CallsSerial' /\ PointersSerial'
  BY <1>1, StartBystander DEF AcceptCallInvite, Steps, Writes
<1>2. ASSUME NEW u \in Uids, NEW r \in Rooms, IssueJoinSign(h, u, r)
      PROVE  CallsSerial' /\ PointersSerial'
  BY <1>2, StartBystander DEF IssueJoinSign, Steps, Writes
<1>3. ASSUME NEW k \in Conns, Disconnect(h, k)
      PROVE  CallsSerial' /\ PointersSerial'
  <2> PICK next, t : /\ Start(h, next, t, NewState) /\ next \in {"drop", "offline"}
                     /\ UNCHANGED callVars
    BY <1>3 DEF Disconnect
  <2>1. next \in Steps \ Writes
    BY DEF Steps, Writes
  <2> QED
    BY <2>1, StartBystander
<1> QED
  BY <1>1, <1>2, <1>3

LEMMA IssueSignSerial ==
  ASSUME TypeInv, CallsSerial, PointersSerial, NEW h \in Slots, IssueSign(h)
  PROVE  CallsSerial' /\ PointersSerial'
<1>1. /\ pc[h] \notin Writes /\ pc' = [pc EXCEPT ![h] = "idle"] /\ "idle" \in Steps \ Writes
      /\ dirty \ {h} \subseteq dirty' /\ overlapped' = overlapped /\ UNCHANGED callVars
  BY DEF IssueSign, Steps, Writes
<1>2. \A g \in Slots \ {h} : task'[g] = task[g] /\ copy'[g] = copy[g]
  BY DEF IssueSign, TypeInv, TypeOK, SlotTypes
<1> QED
  BY <1>1, <1>2, Bystander DEF callVars

LEMMA DropHubSerial ==
  ASSUME TypeInv, CallsSerial, PointersSerial, NEW h \in Slots, DropHub(h)
  PROVE  CallsSerial' /\ PointersSerial'
<1>1. /\ pc[h] \notin Writes /\ pc' = [pc EXCEPT ![h] = "offlineEmpty"]
      /\ "offlineEmpty" \in Steps \ Writes
      /\ dirty \ {h} \subseteq dirty' /\ overlapped' = overlapped /\ UNCHANGED callVars
      /\ \A g \in Slots \ {h} : task'[g] = task[g] /\ copy'[g] = copy[g]
  BY DEF DropHub, Steps, Writes
<1> QED
  BY <1>1, Bystander DEF callVars

LEMMA SlotsStaySerial ==
  ASSUME CallsSerial, PointersSerial, UNCHANGED <<callVars, slotVars, dirty, overlapped>>
  PROVE  CallsSerial' /\ PointersSerial'
<1>1. Writing' = Writing /\ (Serial' <=> Serial)
  BY DEF Serial, Writing, slotVars
<1>2. \A c : Settled(c)' <=> Settled(c)
  BY DEF Settled, Live, Over, callVars
<1>3. ASSUME NEW h \in Writing
      PROVE  /\ Halfway(h)' = Halfway(h)
             /\ (Ending(h) => Ending(h)') /\ (Creating(h) => Creating(h)')
  BY DEF Halfway, Ending, Creating, CopyKnown, Target, callVars, slotVars
<1>4. CallsSerial'
  BY <1>1, <1>2, <1>3 DEF CallsSerial, callVars
<1>5. PointersSerial'
  BY <1>1 DEF PointersSerial, PointersAgree, OneRoom, callVars, slotVars
<1> QED
  BY <1>4, <1>5

(* The offline hook finds a call its user is in, or nothing to clear.      *)
LEMMA OfflineSerial ==
  ASSUME TypeInv, CallsSerial, PointersSerial, NEW h \in Slots, Offline(h)
  PROVE  CallsSerial' /\ PointersSerial'
<1> PICK u, c : u = task[h].uid /\ c = mapped[u]
  OBVIOUS
<1> DEFINE op == IF pc[h] = "offline" THEN "leave" ELSE "close"
           t == [task[h] EXCEPT !.op = op, !.call = c]
           s == [Read(c) EXCEPT !.active = @ \ {u}]
<1>1. /\ pc[h] \in {"offline", "offlineEmpty"} /\ task[h] \in Tasks /\ u \in Uids
      /\ c \in Calls \cup {None} /\ pc[h] \notin Writes
  BY BusyHasTask DEF Offline, TaskSound, TypeInv, TypeOK, CallTypes, Writes
<1>2. t.op = op /\ t.uid = u /\ t.call = c /\ op \in {"leave", "close"}
  BY <1>1 DEF Tasks
<1>3. overlapped' = overlapped /\ dirty' = dirty \ {h}
      /\ UNCHANGED <<inviter, rid, invite, st, ptr, recorded>>
  BY DEF Offline
<1>4. CASE c \in invite
  <2>1. /\ pc' = [pc EXCEPT ![h] = "leave"] /\ task' = [task EXCEPT ![h] = t]
        /\ copy' = [copy EXCEPT ![h] = s] /\ mapped' = mapped
    BY <1>4 DEF Offline
  <2>2. Read(c) \in State
    BY <1>4, InvitedIsCreated
  <2>3. s.active = Read(c).active \ {u} /\ s.ended = Read(c).ended
    BY <2>2 DEF State
  <2> HIDE DEF t, s
  <2>4. pc'[h] = "leave" /\ task'[h] = t /\ copy'[h] = s
    BY <2>1 DEF TypeInv, TypeOK, SlotTypes
  <2>5. ASSUME Serial' PROVE CopyKnown(h, c)'
    <3>1. Settled(c)
      BY <1>1, <1>3, <1>4, <2>1, <2>5, Entry, InvitedIsCreated DEF Writes
    <3> QED
      BY <1>2, <1>3, <1>4, <2>3, <2>4, <3>1, SettledRead DEF CopyKnown
  <2>6. task'[h].op # "create" /\ task'[h].call = c
    BY <1>2, <2>4
  <2> QED
    BY <1>1, <1>3, <1>4, <2>1, <2>5, <2>6, EntrySerial DEF Writes, callVars
<1>5. CASE c \notin invite
  <2> DEFINE next == Then(t)
  <2>1. pc' = [pc EXCEPT ![h] = next] /\ copy' = copy /\ mapped' = ClearMapping(u)
    BY <1>5 DEF Offline
  <2>2. \A g \in Slots \ {h} : task'[g] = task[g] /\ copy'[g] = copy[g]
    BY <1>5 DEF Offline, TypeInv, TypeOK, SlotTypes
  <2>3. next \in Steps \ Writes
    BY <1>2 DEF Then, Steps, Writes
  <2>4. ASSUME Serial, OneRoom PROVE mapped' = mapped
    <3>1. mapped[u] = None
      BY <1>1, <1>5, <2>4 DEF PointersSerial, PointersAgree
    <3> QED
      BY <2>1, <3>1 DEF ClearMapping, TypeInv, TypeOK, CallTypes
  <2> HIDE DEF next
  <2> QED
    BY <1>1, <1>3, <2>1, <2>2, <2>3, <2>4, Bystander
<1> QED
  BY <1>4, <1>5

LEMMA RoomEmptySerial ==
  ASSUME TypeInv, CallsSerial, PointersSerial, NEW h \in Slots, RoomEmpty(h)
  PROVE  CallsSerial' /\ PointersSerial'
<1> PICK r, c : r = task[h].rid /\ c = ptr[r]
  OBVIOUS
<1> DEFINE next == IF c = None THEN "idle"
                   ELSE IF c \notin invite THEN "keys"
                   ELSE IF Read(c).ended THEN "ptr"
                   ELSE IF Read(c).active # {} THEN "prune" ELSE "finish"
           t == Task("empty", task[h].uid, c, r, None)
<1>1. /\ pc[h] \notin Writes /\ r \in Rooms /\ c \in Calls \cup {None}
  BY BusyHasTask DEF RoomEmpty, TypeInv, TypeOK, CallTypes, Writes
<1>2. /\ pc' = [pc EXCEPT ![h] = next] /\ pc'[h] = next
      /\ next # "idle" => task'[h] = t /\ copy'[h] = Read(c)
      /\ \A g \in Slots \ {h} : task'[g] = task[g] /\ copy'[g] = copy[g]
      /\ dirty' = dirty \ {h} /\ overlapped' = overlapped /\ UNCHANGED callVars
  BY DEF RoomEmpty, TypeInv, TypeOK, SlotTypes
<1>3. t.op = "empty" /\ t.call = c
  BY DEF Task
<1>4. next = "idle" \/ (next \in Writes /\ c # None)
  BY DEF Writes
<1>5. CASE next = "idle"
  BY <1>1, <1>2, <1>5, Bystander DEF callVars, Steps, Writes
<1>6. CASE next \in Writes /\ c # None
  <2>1. ASSUME Serial'
        PROVE  /\ next \in {"finish", "prune"} /\ c \in invite
               /\ Read(c) = st[c] /\ ~st[c].ended
    <3>1. c \in Calls /\ Settled(c)
      <4> HIDE DEF next, t
      <4> QED
        BY <1>1, <1>2, <1>6, <2>1, Entry
    <3>2. c \in invite
      BY <1>1, <3>1 DEF Settled, Over
    <3> QED
      BY <1>6, <3>1, <3>2, SettledRead
  <2>2. next # "idle"
    BY <1>6
  <2> HIDE DEF next, t
  <2>3. ASSUME Serial' PROVE CopyKnown(h, c)'
    BY <1>2, <2>1, <2>2, <2>3 DEF CopyKnown, callVars
  <2>4. task'[h].op # "create" /\ task'[h].call = c
    BY <1>2, <1>3, <2>2
  <2> QED
    BY <1>1, <1>2, <1>6, <2>1, <2>3, <2>4, EntrySerial
<1> QED
  BY <1>4, <1>5, <1>6

-----------------------------------------------------------------------------
(* The writes of a handler.                                                *)

(* In one room, one call at most has its invite and the room's pointer.    *)
LEMMA OneCall ==
  ASSUME TypeInv, OneRoom, NEW c \in Calls, NEW d \in invite, ptr[rid[c]] = c, rid[c] \in Rooms,
         Settled(d)
  PROVE  c = d
<1>1. rid[d] \in Rooms /\ ptr[rid[d]] = d
  BY InvitedIsCreated DEF Settled, Live
<1>2. rid[c] = rid[d]
  BY <1>1 DEF OneRoom
<1> QED
  BY <1>1, <1>2

(* Writing the state of a call that goes on leaves all calls settled.      *)
LEMMA StateRewritten ==
  ASSUME TypeInv, NEW c \in invite, NEW s \in State, ~s.ended, st' = [st EXCEPT ![c] = s],
         UNCHANGED <<inviter, rid, invite, ptr, recorded>>, \A d \in Calls : Settled(d)
  PROVE  \A d \in Calls : Settled(d)'
<1>1. c \in Calls /\ Settled(c) /\ st'[c] = s /\ \A d \in Calls \ {c} : st'[d] = st[d]
  BY InvitedIsCreated DEF TypeInv, TypeOK, CallTypes
<1>2. Settled(c)'
  BY <1>1, NoneApart DEF Settled, Live
<1>3. ASSUME NEW d \in Calls \ {c} PROVE Settled(d)'
  BY <1>1, <1>3 DEF Settled, Live, Over
<1> QED
  BY <1>2, <1>3

LEMMA WriteJoinSerial ==
  ASSUME TypeInv, CallsSerial, PointersSerial, NEW h \in Slots, WriteJoin(h)
  PROVE  CallsSerial' /\ PointersSerial'
<1> SUFFICES ASSUME Serial' PROVE CallsSerial' /\ PointersSerial'
  BY DEF CallsSerial, PointersSerial
<1> PICK c, u, s : c = task[h].call /\ u = task[h].uid /\ s = copy[h]
  OBVIOUS
<1>1. /\ pc[h] = "join" /\ Write(h, "idle", NewState) /\ st' = [st EXCEPT ![c] = s]
      /\ mapped' = [mapped EXCEPT ![u] = c]
      /\ UNCHANGED <<inviter, rid, invite, ptr, recorded>>
  BY DEF WriteJoin, SetMapping
<1>2. /\ c \in Calls /\ rid[c] \in Rooms /\ Target(task[h]) = c /\ s \in State /\ u \in Uids
      /\ task[h].op # "create"
  BY <1>1, WriterKnows DEF Writes, Created
<1>3. /\ Serial /\ Writing = {h} /\ Writing' = {} /\ Ending(h)
      /\ \A d \in Calls : d \notin Halfway(h) => Settled(d)
  BY <1>1, NewStateIsState, Turn DEF Writes, Steps
<1>4. \A d \in Calls : Settled(d)
  BY <1>1, <1>2, <1>3 DEF Halfway
<1>5. c \in invite /\ ~s.ended /\ s.active = st[c].active \cup {u}
  BY <1>1, <1>2, <1>3 DEF Ending, CopyKnown
<1>6. CallsSerial'
  BY <1>1, <1>2, <1>3, <1>4, <1>5, StateRewritten DEF CallsSerial
<1>7. ASSUME OneRoom PROVE PointersAgree'
  <2>1. PointersAgree
    BY <1>1, <1>3, <1>7 DEF PointersSerial
  <2>2. \A d \in Calls : d \in invite => d = c
    BY <1>2, <1>4, <1>5, <1>7, OneCall DEF Settled, Live
  <2>3. st'[c] = s /\ \A d \in Calls \ {c} : st'[d] = st[d]
    BY <1>1, <1>2 DEF TypeInv, TypeOK, CallTypes
  <2>4. mapped'[u] = c /\ \A v \in Uids \ {u} : mapped'[v] = mapped[v]
    BY <1>1, <1>2 DEF TypeInv, TypeOK, CallTypes
  <2> QED
    BY <1>1, <1>5, <2>1, <2>2, <2>3, <2>4 DEF PointersAgree
<1> QED
  BY <1>3, <1>6, <1>7 DEF PointersSerial, OneRoom

(* A pointer cleared with the member dropped from the state.               *)
LEMMA MemberLeft ==
  ASSUME TypeInv, PointersAgree, OneRoom, NEW c \in invite, NEW u \in Uids, NEW s \in State,
         s.active = st[c].active \ {u}, \A d \in Calls : Settled(d),
         st' = [st EXCEPT ![c] = s], mapped' = ClearMapping(u), invite' = invite
  PROVE  PointersAgree'
<1>1. c \in Calls /\ rid[c] \in Rooms
  BY InvitedIsCreated
<1>2. \A d \in Calls : d \in invite => d = c
  BY <1>1, OneCall DEF Settled, Live
<1>3. st'[c] = s /\ \A d \in Calls \ {c} : st'[d] = st[d]
  BY <1>1 DEF TypeInv, TypeOK, CallTypes
<1>4. mapped'[u] = None /\ \A v \in Uids \ {u} : mapped'[v] = mapped[v]
  BY DEF ClearMapping, TypeInv, TypeOK, CallTypes
<1> QED
  BY <1>1, <1>2, <1>3, <1>4, NoneApart DEF PointersAgree

LEMMA WriteLeaveSerial ==
  ASSUME TypeInv, CallsSerial, PointersSerial, NEW h \in Slots, WriteLeave(h)
  PROVE  CallsSerial' /\ PointersSerial'
<1> SUFFICES ASSUME Serial' PROVE CallsSerial' /\ PointersSerial'
  BY DEF CallsSerial, PointersSerial
<1> PICK c, u, s : c = task[h].call /\ u = task[h].uid /\ s = copy[h]
  OBVIOUS
<1> DEFINE next == IF s.active = {} /\ ~s.ended THEN "finish" ELSE Then(task[h])
<1>1. /\ pc[h] = "leave" /\ Write(h, next, s) /\ st' = [st EXCEPT ![c] = s]
      /\ mapped' = ClearMapping(u)
      /\ UNCHANGED <<inviter, rid, invite, ptr, recorded>>
  BY DEF WriteLeave
<1>2. /\ c \in Calls /\ rid[c] \in Rooms /\ Target(task[h]) = c /\ s \in State /\ u \in Uids
      /\ task[h].op # "create"
  BY <1>1, WriterKnows DEF Writes, Created
<1>3. /\ next \in {"finish", "empty", "idle"}
      /\ next = "finish" => s.active = {}
  BY <1>2 DEF Then
<1> HIDE DEF next
<1>4. /\ Serial /\ Writing = {h} /\ Ending(h)
      /\ Writing' = IF next = "finish" THEN {h} ELSE {}
      /\ pc'[h] = next
      /\ next = "finish" => task'[h] = task[h] /\ copy'[h] = s
      /\ \A d \in Calls : d \notin Halfway(h) => Settled(d)
  BY <1>1, <1>2, <1>3, Turn DEF Writes, Steps
<1>5. \A d \in Calls : Settled(d)
  BY <1>1, <1>2, <1>4 DEF Halfway
<1>6. c \in invite /\ ~s.ended /\ s.active = st[c].active \ {u}
  BY <1>1, <1>2, <1>4 DEF Ending, CopyKnown
<1>7. \A d \in Calls : Settled(d)'
  BY <1>1, <1>2, <1>5, <1>6, StateRewritten
<1>8. next = "finish" => Ending(h)' /\ Creating(h)'
  <2>1. st'[c] = s
    BY <1>1, <1>2 DEF TypeInv, TypeOK, CallTypes
  <2> QED
    BY <1>1, <1>2, <1>4, <1>6, <2>1 DEF Ending, Creating, CopyKnown, Target
<1>9. CallsSerial'
  BY <1>4, <1>7, <1>8 DEF CallsSerial
<1>10. ASSUME OneRoom PROVE PointersAgree'
  <2>1. PointersAgree
    BY <1>1, <1>4, <1>10 DEF PointersSerial
  <2> QED
    BY <1>1, <1>2, <1>5, <1>6, <1>10, <2>1, MemberLeft
<1> QED
  BY <1>3, <1>4, <1>9, <1>10 DEF PointersSerial, OneRoom

(* The state of a call as it is when it has ended: the rest is settled.    *)
LEMMA CallEnded ==
  ASSUME TypeInv, NEW h \in Slots, NEW c \in invite, NEW s \in State, Target(task[h]) = c,
         st' = [st EXCEPT ![c] = s], UNCHANGED <<inviter, rid, invite, ptr, recorded>>,
         Writing' = {h}, pc'[h] = "record", task'[h] = task[h],
         \A d \in Calls : d \notin Halfway(h) => Settled(d), c \notin Halfway(h),
         Creating(h), pc[h] \notin {"idle", "new", "point", "record", "keys", "ptr"}
  PROVE  CallsSerial'
<1>1. c \in Calls /\ Settled(c) /\ st'[c] = s /\ \A d \in Calls \ {c} : st'[d] = st[d]
  BY InvitedIsCreated DEF TypeInv, TypeOK, CallTypes
<1>2. c \in Halfway(h)' /\ Halfway(h) \subseteq Halfway(h)'
  BY <1>1 DEF Halfway, Target
<1>3. ASSUME NEW d \in Calls, d \notin Halfway(h)' PROVE Settled(d)'
  <2>1. d # c /\ Settled(d)
    BY <1>2, <1>3
  <2> QED
    BY <1>1, <2>1 DEF Settled, Live, Over
<1>4. Ending(h)'
  BY <1>1, NoneApart DEF Ending, Target, Settled, Live
<1>5. Creating(h)'
  <2>1. ASSUME task[h].op = "create" PROVE task[h].call # c /\ task[h].call \notin invite
    BY <2>1 DEF Creating
  <2>2. task[h].op = "create" => task[h].call \in Calls
    BY BusyHasTask DEF TaskSound
  <2> QED
    BY <1>1, <2>1, <2>2 DEF Creating
<1> QED
  BY <1>3, <1>4, <1>5 DEF CallsSerial

LEMMA WriteRejectSerial ==
  ASSUME TypeInv, CallsSerial, PointersSerial, NEW h \in Slots, WriteReject(h)
  PROVE  CallsSerial' /\ PointersSerial'
<1> SUFFICES ASSUME Serial' PROVE CallsSerial' /\ PointersSerial'
  BY DEF CallsSerial, PointersSerial
<1> PICK c, s : c = task[h].call /\ s = copy[h]
  OBVIOUS
<1> DEFINE next == IF s.ended THEN "record" ELSE "idle"
<1>1. /\ pc[h] = "reject" /\ Write(h, next, s) /\ st' = [st EXCEPT ![c] = s]
      /\ mapped' = mapped
      /\ UNCHANGED <<inviter, rid, invite, ptr, recorded>>
  BY DEF WriteReject
<1>2. /\ c \in Calls /\ Target(task[h]) = c /\ s \in State /\ task[h].op # "create"
  BY <1>1, WriterKnows DEF Writes, Created
<1>3. /\ next \in {"record", "idle"}
      /\ next = "record" <=> s.ended
  OBVIOUS
<1> HIDE DEF next
<1>4. /\ Serial /\ Writing = {h} /\ Ending(h) /\ Creating(h)
      /\ Writing' = IF next = "record" THEN {h} ELSE {}
      /\ pc'[h] = next
      /\ next = "record" => task'[h] = task[h]
      /\ \A d \in Calls : d \notin Halfway(h) => Settled(d)
  BY <1>1, <1>2, <1>3, Turn DEF Writes, Steps
<1>5. Halfway(h) = {}
  BY <1>1, <1>2 DEF Halfway
<1>6. c \in invite /\ s.active = st[c].active
  BY <1>1, <1>2, <1>4 DEF Ending, CopyKnown
<1>7. CallsSerial'
  <2>1. CASE next = "record"
    BY <1>1, <1>2, <1>4, <1>5, <1>6, <2>1, CallEnded
  <2>2. CASE next # "record"
    BY <1>1, <1>2, <1>3, <1>4, <1>5, <1>6, <2>2, StateRewritten DEF CallsSerial
  <2> QED
    BY <2>1, <2>2
<1>8. ASSUME OneRoom PROVE PointersAgree'
  <2>1. PointersAgree
    BY <1>1, <1>4, <1>8 DEF PointersSerial
  <2>2. \A d \in Calls : d \in invite => st'[d].active = st[d].active
    BY <1>1, <1>2, <1>6 DEF TypeInv, TypeOK, CallTypes
  <2> QED
    BY <1>1, <2>1, <2>2 DEF PointersAgree
<1> QED
  BY <1>3, <1>4, <1>7, <1>8 DEF PointersSerial, OneRoom

LEMMA WriteHangupSerial ==
  ASSUME TypeInv, CallsSerial, PointersSerial, NEW h \in Slots, WriteHangup(h)
  PROVE  CallsSerial' /\ PointersSerial'
<1> SUFFICES ASSUME Serial' PROVE CallsSerial' /\ PointersSerial'
  BY DEF CallsSerial, PointersSerial
<1> PICK c, u, s : c = task[h].call /\ u = task[h].uid /\ s = copy[h]
  OBVIOUS
<1> DEFINE next == IF s.ended THEN "record" ELSE "idle"
<1>1. /\ pc[h] = "hangup" /\ Write(h, next, s) /\ st' = [st EXCEPT ![c] = s]
      /\ mapped' = IF s.ended THEN mapped ELSE ClearMapping(u)
      /\ UNCHANGED <<inviter, rid, invite, ptr, recorded>>
  BY DEF WriteHangup
<1>2. /\ c \in Calls /\ Target(task[h]) = c /\ s \in State /\ task[h].op # "create"
      /\ u \in Uids
  BY <1>1, WriterKnows DEF Writes, Created
<1>3. /\ next \in {"record", "idle"}
      /\ next = "record" <=> s.ended
  OBVIOUS
<1> HIDE DEF next
<1>4. /\ Serial /\ Writing = {h} /\ Ending(h) /\ Creating(h)
      /\ Writing' = IF next = "record" THEN {h} ELSE {}
      /\ pc'[h] = next
      /\ next = "record" => task'[h] = task[h]
      /\ \A d \in Calls : d \notin Halfway(h) => Settled(d)
  BY <1>1, <1>2, <1>3, Turn DEF Writes, Steps
<1>5. Halfway(h) = {}
  BY <1>1, <1>2 DEF Halfway
<1>6. c \in invite /\ s.active = IF s.ended THEN st[c].active ELSE st[c].active \ {u}
  BY <1>1, <1>2, <1>4 DEF Ending, CopyKnown
<1>7. CallsSerial'
  <2>1. CASE next = "record"
    BY <1>1, <1>2, <1>4, <1>5, <1>6, <2>1, CallEnded
  <2>2. CASE next # "record"
    BY <1>1, <1>2, <1>3, <1>4, <1>5, <1>6, <2>2, StateRewritten DEF CallsSerial
  <2> QED
    BY <2>1, <2>2
<1>8. ASSUME OneRoom PROVE PointersAgree'
  <2>1. PointersAgree
    BY <1>1, <1>4, <1>8 DEF PointersSerial
  <2>2. CASE s.ended
    <3>1. \A d \in Calls : d \in invite => st'[d].active = st[d].active
      BY <1>1, <1>2, <1>6, <2>2 DEF TypeInv, TypeOK, CallTypes
    <3> QED
      BY <1>1, <2>1, <2>2, <3>1 DEF PointersAgree
  <2>3. CASE ~s.ended
    BY <1>1, <1>2, <1>4, <1>5, <1>6, <1>8, <2>1, <2>3, MemberLeft
  <2> QED
    BY <2>2, <2>3
<1> QED
  BY <1>3, <1>4, <1>7, <1>8 DEF PointersSerial, OneRoom

LEMMA FinishSerial ==
  ASSUME TypeInv, CallsSerial, PointersSerial, NEW h \in Slots, Finish(h)
  PROVE  CallsSerial' /\ PointersSerial'
<1> SUFFICES ASSUME Serial' PROVE CallsSerial' /\ PointersSerial'
  BY DEF CallsSerial, PointersSerial
<1> PICK c, s : c = Target(task[h]) /\ s = [copy[h] EXCEPT !.ended = TRUE]
  OBVIOUS
<1>1. /\ pc[h] = "finish" /\ Write(h, "record", s) /\ st' = [st EXCEPT ![c] = s]
      /\ mapped' = mapped
      /\ UNCHANGED <<inviter, rid, invite, ptr, recorded>>
  BY DEF Finish
<1>2. /\ c \in Calls /\ copy[h] \in State
  BY <1>1, WriterKnows DEF Writes, Created
<1>3. s \in State /\ s.active = copy[h].active
  BY <1>2 DEF State
<1>4. /\ Serial /\ Writing = {h} /\ Ending(h) /\ Creating(h)
      /\ Writing' = {h} /\ pc'[h] = "record" /\ task'[h] = task[h]
      /\ \A d \in Calls : d \notin Halfway(h) => Settled(d)
  BY <1>1, <1>3, Turn DEF Writes, Steps
<1>5. c \in invite /\ s.active = st[c].active
  BY <1>1, <1>3, <1>4 DEF Ending, CopyKnown
<1>6. c \notin Halfway(h)
  BY <1>1, <1>4, <1>5 DEF Halfway, Creating
<1>7. CallsSerial'
  BY <1>1, <1>3, <1>4, <1>5, <1>6, CallEnded
<1>8. ASSUME OneRoom PROVE PointersAgree'
  <2>1. PointersAgree
    BY <1>1, <1>4, <1>8 DEF PointersSerial
  <2>2. \A d \in Calls : d \in invite => st'[d].active = st[d].active
    BY <1>1, <1>2, <1>5 DEF TypeInv, TypeOK, CallTypes
  <2> QED
    BY <1>1, <2>1, <2>2 DEF PointersAgree
<1> QED
  BY <1>4, <1>7, <1>8 DEF PointersSerial, OneRoom

LEMMA RecordSerial ==
  ASSUME TypeInv, CallsSerial, PointersSerial, NEW h \in Slots, Record(h)
  PROVE  CallsSerial' /\ PointersSerial'
<1> SUFFICES ASSUME Serial' PROVE CallsSerial' /\ PointersSerial'
  BY DEF CallsSerial, PointersSerial
<1> PICK c : c = Target(task[h])
  OBVIOUS
<1>1. /\ pc[h] = "record" /\ Write(h, "keys", copy[h]) /\ recorded' = recorded \cup {c}
      /\ mapped' = [u \in Uids |-> None]
      /\ UNCHANGED <<inviter, rid, invite, st, ptr>>
  BY DEF Record, ClearMappings, AddRecord
<1>2. copy[h] \in State
  BY <1>1, WriterKnows DEF Writes
<1>3. /\ Serial /\ Writing = {h} /\ Ending(h) /\ Creating(h)
      /\ Writing' = {h} /\ pc'[h] = "keys" /\ task'[h] = task[h]
      /\ \A d \in Calls : d \notin Halfway(h) => Settled(d)
  BY <1>1, <1>2, Turn DEF Writes, Steps
<1>4. Halfway(h)' = Halfway(h)
  BY <1>1, <1>3 DEF Halfway
<1>5. \A d \in Calls : Settled(d) => Settled(d)'
  BY <1>1 DEF Settled, Live, Over
<1>6. Ending(h)' /\ Creating(h)'
  BY <1>1, <1>3 DEF Ending, Creating, Target
<1>7. CallsSerial'
  BY <1>3, <1>4, <1>5, <1>6 DEF CallsSerial
<1>8. PointersSerial'
  BY <1>1, <1>3 DEF PointersSerial
<1> QED
  BY <1>7, <1>8

LEMMA DestroyKeysSerial ==
  ASSUME TypeInv, CallsSerial, PointersSerial, NEW h \in Slots, DestroyKeys(h)
  PROVE  CallsSerial' /\ PointersSerial'
<1> SUFFICES ASSUME Serial' PROVE CallsSerial' /\ PointersSerial'
  BY DEF CallsSerial, PointersSerial
<1> PICK c, n : c = Target(task[h]) /\ n = task[h].call
  OBVIOUS
<1>1. /\ pc[h] = "keys" /\ Write(h, "ptr", copy[h]) /\ invite' = invite \ {c}
      /\ st' = [st EXCEPT ![c] = None]
      /\ UNCHANGED <<inviter, rid, ptr, mapped, recorded>>
  BY DEF DestroyKeys
<1>2. c \in Calls /\ copy[h] \in State /\ rid[c] \in Rooms
  BY <1>1, WriterKnows DEF Writes, Created
<1>3. /\ Serial /\ Writing = {h} /\ Ending(h) /\ Creating(h)
      /\ Writing' = {h} /\ pc'[h] = "ptr" /\ task'[h] = task[h]
      /\ \A d \in Calls : d \notin Halfway(h) => Settled(d)
  BY <1>1, <1>2, Turn DEF Writes, Steps
<1>4. st'[c] = None /\ \A d \in Calls \ {c} : st'[d] = st[d]
  BY <1>1, <1>2 DEF TypeInv, TypeOK, CallTypes
<1>5. c \in invite /\ ptr[rid[c]] = c /\ c \in recorded
  BY <1>1, <1>3 DEF Ending
<1>6. /\ c \in Halfway(h) /\ Halfway(h)' = Halfway(h)
      /\ task[h].op = "create" => n \in Calls /\ n # c /\ n \notin invite
  <2>1. TaskSound(h)
    BY DEF TypeInv
  <2> QED
    BY <1>1, <1>2, <1>3, <1>5, <2>1 DEF Halfway, Creating, TaskSound
<1>7. ASSUME NEW d \in Calls, d \notin Halfway(h) PROVE Settled(d)'
  <2>1. Settled(d) /\ d # c
    BY <1>3, <1>6, <1>7
  <2> QED
    BY <1>1, <1>4, <2>1 DEF Settled, Live, Over
<1>8. Ending(h)' /\ Creating(h)'
  BY <1>1, <1>3, <1>4, <1>5, <1>6 DEF Ending, Creating, Target
<1>9. CallsSerial'
  BY <1>3, <1>6, <1>7, <1>8 DEF CallsSerial
<1>10. ASSUME OneRoom PROVE PointersAgree'
  <2>1. \A u \in Uids : mapped[u] = None
    BY <1>1, <1>3, <1>10 DEF PointersSerial
  <2>2. ASSUME NEW d \in invite' PROVE FALSE
    <3>1. d \in invite /\ d \in Calls /\ d # c
      BY <1>1, <2>2, InvitedIsCreated
    <3>2. Settled(d)
      BY <1>1, <1>3, <1>6, <3>1 DEF Halfway
    <3> QED
      BY <1>2, <1>5, <1>10, <3>1, <3>2, OneCall
  <2> QED
    BY <1>1, <2>1, <2>2, NoneApart DEF PointersAgree
<1> QED
  BY <1>3, <1>9, <1>10 DEF PointersSerial, OneRoom

LEMMA DestroyPointerSerial ==
  ASSUME TypeInv, CallsSerial, PointersSerial, NEW h \in Slots, DestroyPointer(h)
  PROVE  CallsSerial' /\ PointersSerial'
<1> SUFFICES ASSUME Serial' PROVE CallsSerial' /\ PointersSerial'
  BY DEF CallsSerial, PointersSerial
<1> PICK c, n : c = Target(task[h]) /\ n = task[h].call
  OBVIOUS
<1> DEFINE next == Then(task[h])
<1>1. /\ pc[h] = "ptr" /\ Write(h, next, copy[h]) /\ ptr' = [ptr EXCEPT ![rid[c]] = None]
      /\ UNCHANGED <<inviter, rid, invite, st, mapped, recorded>>
  BY DEF DestroyPointer, DropPointer
<1>2. c \in Calls /\ copy[h] \in State /\ rid[c] \in Rooms /\ TaskSound(h)
  BY <1>1, WriterKnows DEF Writes, Created, TypeInv
<1>3. /\ next \in {"new", "empty", "idle"}
      /\ next = "new" <=> task[h].op = "create"
  BY DEF Then
<1> HIDE DEF next
<1>4. /\ Serial /\ Writing = {h} /\ Ending(h) /\ Creating(h)
      /\ Writing' = IF next = "new" THEN {h} ELSE {}
      /\ pc'[h] = next /\ (next = "new" => task'[h] = task[h])
      /\ \A d \in Calls : d \notin Halfway(h) => Settled(d)
  BY <1>1, <1>2, <1>3, Turn DEF Writes, Steps
<1>5. ptr'[rid[c]] = None /\ \A r \in Rooms \ {rid[c]} : ptr'[r] = ptr[r]
  BY <1>1, <1>2 DEF TypeInv, TypeOK, CallTypes
<1>6. ptr[rid[c]] = c /\ c \in recorded /\ c \notin invite /\ st[c] = None
  BY <1>1, <1>4 DEF Ending
<1>7. Settled(c)'
  BY <1>1, <1>2, <1>5, <1>6, NoneApart DEF Settled, Over, TypeInv, CallsSound
<1>8. ASSUME NEW d \in Calls \ {c}, d \notin Halfway(h) PROVE Settled(d)'
  <2>1. Settled(d)
    BY <1>4, <1>8
  <2>2. CASE d \in invite
    <3>1. rid[d] \in Rooms /\ rid[d] # rid[c]
      BY <1>6, <2>1, <2>2, InvitedIsCreated DEF Settled, Live
    <3> QED
      BY <1>1, <1>5, <2>1, <2>2, <3>1 DEF Settled, Live
  <2>3. CASE d \notin invite
    BY <1>1, <1>5, <2>1, <2>3, NoneApart DEF Settled, Over
  <2> QED
    BY <2>2, <2>3
<1>9. CASE next = "new"
  <2>1. task[h].op = "create" /\ n \in Calls /\ rid[n] = rid[c] /\ n # c
    <3>1. task[h].op = "create" /\ c = task[h].old
      BY <1>3, <1>9 DEF Target
    <3>2. n \in Calls /\ rid[n] = rid[c]
      BY <1>1, <1>2, <3>1 DEF TaskSound
    <3> QED
      BY <1>2, <1>4, <1>6, <3>1, <3>2 DEF Creating
  <2>2. Halfway(h)' = {n} /\ Halfway(h) = {c, n}
    BY <1>1, <1>2, <1>4, <1>9, <2>1 DEF Halfway
  <2>3. Creating(h)'
    BY <1>1, <1>4, <1>5, <1>9, <2>1, NoneApart DEF Creating
  <2>4. Ending(h)'
    BY <1>4, <1>9 DEF Ending
  <2> QED
    BY <1>1, <1>4, <1>7, <1>8, <1>9, <2>2, <2>3, <2>4
       DEF CallsSerial, PointersSerial, PointersAgree, OneRoom
<1>10. CASE next # "new"
  <2>1. Halfway(h) \subseteq {c}
    BY <1>3, <1>10 DEF Halfway
  <2> QED
    BY <1>1, <1>4, <1>7, <1>8, <1>10, <2>1
       DEF CallsSerial, PointersSerial, PointersAgree, OneRoom
<1> QED
  BY <1>9, <1>10

LEMMA WriteInviteSerial ==
  ASSUME TypeInv, CallsSerial, PointersSerial, NEW h \in Slots, WriteInvite(h)
  PROVE  CallsSerial' /\ PointersSerial'
<1> SUFFICES ASSUME Serial' PROVE CallsSerial' /\ PointersSerial'
  BY DEF CallsSerial, PointersSerial
<1> PICK n : n = task[h].call
  OBVIOUS
<1>1. /\ pc[h] = "new" /\ Write(h, "point", NewState) /\ invite' = invite \cup {n}
      /\ st' = [st EXCEPT ![n] = NewState]
      /\ UNCHANGED <<inviter, rid, ptr, mapped, recorded>>
  BY DEF WriteInvite
<1>2. n \in Calls /\ task[h].op = "create"
  BY <1>1, WriterKnows DEF Writes, Created, TypeInv, TaskSound
<1>3. /\ Serial /\ Writing = {h} /\ Creating(h)
      /\ Writing' = {h} /\ pc'[h] = "point" /\ task'[h] = task[h]
      /\ \A d \in Calls : d \notin Halfway(h) => Settled(d)
  BY <1>1, NewStateIsState, Turn DEF Writes, Steps
<1>4. st'[n] = NewState /\ \A d \in Calls \ {n} : st'[d] = st[d]
  BY <1>1, <1>2 DEF TypeInv, TypeOK, CallTypes
<1>5. Halfway(h) = {n} /\ Halfway(h)' = {n}
  BY <1>1, <1>2, <1>3 DEF Halfway
<1>6. ASSUME NEW d \in Calls \ {n} PROVE Settled(d)'
  <2>1. Settled(d)
    BY <1>3, <1>5
  <2> QED
    BY <1>1, <1>4, <2>1 DEF Settled, Live, Over
<1>7. Ending(h)' /\ Creating(h)'
  BY <1>1, <1>3, <1>4 DEF Ending, Creating
<1>8. CallsSerial'
  BY <1>3, <1>5, <1>6, <1>7 DEF CallsSerial
<1>9. ASSUME OneRoom PROVE PointersAgree'
  <2>1. PointersAgree
    BY <1>1, <1>3, <1>9 DEF PointersSerial
  <2>2. n \notin invite
    BY <1>1, <1>2, <1>3 DEF Creating
  <2> QED
    BY <1>1, <1>2, <1>4, <2>1, <2>2 DEF PointersAgree, NewState
<1> QED
  BY <1>3, <1>8, <1>9 DEF PointersSerial, OneRoom

LEMMA WritePointerSerial ==
  ASSUME TypeInv, CallsSerial, PointersSerial, NEW h \in Slots, WritePointer(h)
  PROVE  CallsSerial' /\ PointersSerial'
<1> SUFFICES ASSUME Serial' PROVE CallsSerial' /\ PointersSerial'
  BY DEF CallsSerial, PointersSerial
<1> PICK n : n = task[h].call
  OBVIOUS
<1>1. /\ pc[h] = "point" /\ Write(h, "sign", NewState)
      /\ ptr' = [ptr EXCEPT ![task[h].rid] = n]
      /\ UNCHANGED <<inviter, rid, invite, st, mapped, recorded>>
  BY DEF WritePointer
<1>2. n \in Calls /\ task[h].op = "create" /\ rid[n] = task[h].rid /\ rid[n] \in Rooms
  BY <1>1, WriterKnows, CreatedHasRoom DEF Writes, TypeInv, TaskSound
<1>3. /\ Serial /\ Writing = {h} /\ Creating(h) /\ Writing' = {}
      /\ \A d \in Calls : d \notin Halfway(h) => Settled(d)
  BY <1>1, NewStateIsState, Turn DEF Writes, Steps
<1>4. ptr'[rid[n]] = n /\ \A r \in Rooms \ {rid[n]} : ptr'[r] = ptr[r]
  BY <1>1, <1>2 DEF TypeInv, TypeOK, CallTypes
<1>5. n \in invite /\ st[n] = NewState /\ ptr[rid[n]] = None
  BY <1>1, <1>2, <1>3 DEF Creating
<1>6. Halfway(h) = {n}
  BY <1>1, <1>2 DEF Halfway
<1>7. Settled(n)'
  <2>1. NewState # None /\ ~NewState.ended
    BY NewStateIsState, NoneApart DEF NewState
  <2> QED
    BY <1>1, <1>4, <1>5, <2>1 DEF Settled, Live
<1>8. ASSUME NEW d \in Calls \ {n} PROVE Settled(d)'
  <2>1. Settled(d)
    BY <1>3, <1>6
  <2>2. CASE d \in invite
    <3>1. rid[d] \in Rooms /\ rid[d] # rid[n]
      BY <1>5, <2>1, <2>2, InvitedIsCreated, NoneApart DEF Settled, Live
    <3> QED
      BY <1>1, <1>4, <2>1, <2>2, <3>1 DEF Settled, Live
  <2>3. CASE d \notin invite
    BY <1>1, <1>4, <2>1, <2>3 DEF Settled, Over
  <2> QED
    BY <2>2, <2>3
<1>9. CallsSerial'
  BY <1>3, <1>7, <1>8 DEF CallsSerial
<1>10. PointersSerial'
  BY <1>1, <1>3 DEF PointersSerial, PointersAgree, OneRoom
<1> QED
  BY <1>9, <1>10

(* OnMediaRoomEmpty prunes nobody among serial handlers in one room.       *)
LEMMA PruneSerial ==
  ASSUME TypeInv, CallsSerial, PointersSerial, NEW h \in Slots, Prune(h)
  PROVE  CallsSerial' /\ PointersSerial'
<1> SUFFICES ASSUME Serial' PROVE CallsSerial' /\ PointersSerial'
  BY DEF CallsSerial, PointersSerial
<1> PICK c, active : c = task[h].call /\ active = copy[h].active
  OBVIOUS
<1> PICK alive : alive = {u \in active : mapped[u] = c}
  OBVIOUS
<1> PICK s : s = [copy[h] EXCEPT !.active = alive]
  OBVIOUS
<1> DEFINE next == IF alive # {} THEN "idle" ELSE "finish"
<1>1. /\ pc[h] = "prune" /\ Write(h, next, s) /\ st' = [st EXCEPT ![c] = s]
      /\ mapped' = [u \in Uids |-> IF u \in active \ alive THEN None ELSE mapped[u]]
      /\ UNCHANGED <<inviter, rid, invite, ptr, recorded>>
  BY DEF Prune
<1>2. /\ c \in Calls /\ rid[c] \in Rooms /\ Target(task[h]) = c /\ copy[h] \in State
      /\ task[h].op # "create"
  BY <1>1, WriterKnows DEF Writes, Created
<1>3. s \in State /\ s.active = alive /\ s.ended = copy[h].ended /\ active \subseteq Uids
  BY <1>2 DEF State
<1>4. next \in {"finish", "idle"}
  OBVIOUS
<1> HIDE DEF next
<1>5. /\ Serial /\ Writing = {h} /\ Ending(h)
      /\ Writing' = IF next = "finish" THEN {h} ELSE {}
      /\ pc'[h] = next
      /\ next = "finish" => task'[h] = task[h] /\ copy'[h] = s
      /\ \A d \in Calls : d \notin Halfway(h) => Settled(d)
  BY <1>1, <1>3, <1>4, Turn DEF Writes, Steps
<1>6. \A d \in Calls : Settled(d)
  BY <1>1, <1>2, <1>5 DEF Halfway
<1>7. c \in invite /\ ~s.ended /\ active = st[c].active
  BY <1>1, <1>2, <1>3, <1>5 DEF Ending, CopyKnown
<1>8. \A d \in Calls : Settled(d)'
  BY <1>1, <1>3, <1>6, <1>7, StateRewritten
<1>9. next = "finish" => Ending(h)' /\ Creating(h)'
  <2>1. st'[c] = s
    BY <1>1, <1>2 DEF TypeInv, TypeOK, CallTypes
  <2> QED
    BY <1>1, <1>2, <1>5, <1>7, <2>1 DEF Ending, Creating, CopyKnown, Target
<1>10. CallsSerial'
  BY <1>5, <1>8, <1>9 DEF CallsSerial
<1>11. ASSUME OneRoom PROVE PointersAgree'
  <2>1. PointersAgree
    BY <1>1, <1>5, <1>11 DEF PointersSerial
  <2>2. alive = active
    BY <1>2, <1>3, <1>7, <2>1 DEF PointersAgree
  <2>3. \A d \in Calls : d \in invite => st'[d].active = st[d].active
    BY <1>1, <1>2, <1>3, <1>7, <2>2 DEF TypeInv, TypeOK, CallTypes
  <2>4. mapped' = mapped
    BY <1>1, <2>2 DEF TypeInv, TypeOK, CallTypes
  <2>5. invite' = invite
    BY <1>1
  <2> QED
    BY <2>1, <2>3, <2>4, <2>5 DEF PointersAgree
<1> QED
  BY <1>4, <1>5, <1>10, <1>11 DEF PointersSerial, OneRoom

-----------------------------------------------------------------------------
(* The properties.                                                         *)

LEMMA InitSerial == Init => CallsSerial /\ PointersSerial
<1> SUFFICES ASSUME Init PROVE CallsSerial /\ PointersSerial
  OBVIOUS
<1>1. Writing = {}
  BY DEF Init, Writing, Writes
<1>2. \A c \in Calls : Settled(c)
  BY NoneApart DEF Init, Settled, Over
<1>3. PointersAgree
  BY NoneApart DEF Init, PointersAgree
<1> QED
  BY <1>1, <1>2, <1>3 DEF CallsSerial, PointersSerial

LEMMA SerialStep ==
  TypeInv /\ CallsSerial /\ PointersSerial /\ [Next]_vars => CallsSerial' /\ PointersSerial'
<1> SUFFICES ASSUME TypeInv, CallsSerial, PointersSerial, [Next]_vars
             PROVE  CallsSerial' /\ PointersSerial'
  OBVIOUS
<1>1. ASSUME NEW h \in Slots, Request(h) PROVE CallsSerial' /\ PointersSerial'
  BY <1>1, RequestBystanders, CreateCallInviteSerial, MarkCallMemberJoinedSerial,
     LeaveCallSerial, RejectCallInviteSerial, HangupCallSerial DEF Request
<1>2. ASSUME NEW h \in Slots, Work(h) PROVE CallsSerial' /\ PointersSerial'
  BY <1>2, WriteJoinSerial, WriteLeaveSerial, WriteRejectSerial, WriteHangupSerial,
     FinishSerial, RecordSerial, DestroyKeysSerial, DestroyPointerSerial, WriteInviteSerial,
     WritePointerSerial, IssueSignSerial, DropHubSerial, OfflineSerial, RoomEmptySerial,
     PruneSerial DEF Work
<1>3. ASSUME NEW k \in Conns, NEW n \in Nonces, Connect(k, n)
      PROVE  CallsSerial' /\ PointersSerial'
  BY <1>3, SlotsStaySerial DEF Connect
<1>4. CASE UNCHANGED vars
  BY <1>4, SlotsStaySerial DEF vars
<1> QED
  BY <1>1, <1>2, <1>3, <1>4, CurrentCallSerial, RequestBystanders DEF Next

(* IInv is inductive, for any number of users, rooms, calls and handlers.  *)
THEOREM Invariance == Spec => []IInv
<1>1. Init => IInv
  BY InitTypes, InitSerial DEF IInv
<1>2. IInv /\ [Next]_vars => IInv'
  BY TypeStep, SerialStep DEF IInv
<1> QED
  BY <1>1, <1>2, PTL DEF Spec

(* Every variable keeps its shape.                                         *)
THEOREM TypesOK == Spec => []TypeOK
BY Invariance, PTL DEF IInv, TypeInv

LEMMA QuietIsSerial ==
  ASSUME Quiet, ~overlapped
  PROVE  Serial /\ Writing = {}
BY DEF Quiet, Serial, Writing, Writes

(* In any number of rooms: as long as no handler wrote on reads another    *)
(* one had overwritten, the calls with an invite are the calls of their    *)
(* rooms' pointers, go on, and all others left their record and no keys.   *)
THEOREM OneLiveCallAlways == Spec => []OneLiveCall
<1>1. IInv => OneLiveCall
  <2> SUFFICES ASSUME IInv, Quiet, ~overlapped
               PROVE  /\ \A c \in invite : ptr[rid[c]] = c /\ st[c] # None /\ ~st[c].ended
                      /\ \A r \in Rooms : ptr[r] # None => ptr[r] \in invite
                      /\ \A c \in Calls \ invite :
                           st[c] = None /\ (inviter[c] # None => c \in recorded)
    BY DEF OneLiveCall
  <2>1. \A c \in Calls : Settled(c)
    BY QuietIsSerial DEF IInv, CallsSerial
  <2>2. \A c \in invite : Live(c)
    BY <2>1, InvitedIsCreated DEF IInv, Settled
  <2>3. \A c \in Calls \ invite : Over(c)
    BY <2>1 DEF Settled
  <2>4. \A r \in Rooms : ptr[r] \in Calls \cup {None}
    BY DEF IInv, TypeInv, TypeOK, CallTypes
  <2> QED
    BY <2>2, <2>3, <2>4 DEF Live, Over
<1> QED
  BY <1>1, Invariance, PTL

(* In one room the users' pointers then name exactly the call each of them *)
(* is active in. (A user active in calls of two rooms has one pointer.)    *)
THEOREM PointersMatchActiveAlways ==
  ASSUME OneRoom
  PROVE  Spec => []PointersMatchActive
<1>1. IInv => PointersMatchActive
  BY QuietIsSerial DEF IInv, PointersSerial, PointersAgree, PointersMatchActive
<1> QED
  BY <1>1, Invariance, PTL

=============================================================================
