-------------------------- MODULE RoomMutesProofs --------------------------
(***************************************************************************)
(* Proofs about RoomMutes, for any finite number of slots and any number   *)
(* of users, strategies, requests, changes and failures.                   *)
(*                                                                         *)
(* IInv knows what the request of a slot is at each step, and that what a  *)
(* message is counted under is no later than now. On it rest three         *)
(* invariants, one for each promise: the limit (LimitsSound) adds up what  *)
(* is stored, passed and still to come for every counter; the              *)
(* announcements (NewsSound) follow from what the one request that changes *)
(* something knows was told; the notices (NoticesSound) from the update    *)
(* that wrote the rule reading it back before it schedules.                *)
(***************************************************************************)
EXTENDS RoomMutes, FiniteSetTheorems, TLAPS

(* A later time is in no earlier window.                                   *)
LEMMA WindowsInOrder ==
  ASSUME NEW s \in Nat, NEW t \in Nat, s <= t
  PROVE  WindowOf(s) \in Nat /\ WindowOf(s) <= WindowOf(t)
<1>1. Window \in Nat \ {0}
  BY RoomMutesAssumption
<1> QED
  BY <1>1 DEF WindowOf

-----------------------------------------------------------------------------
(* Types.                                                                  *)

Topics == Uids \cup {"config", "tasks", "count"}

RowsTyped ==
  /\ cfg \in Config /\ ~(cfg.all /\ cfg.on)
  /\ muteUntil \in [Speakers -> Nat]
  /\ told \in [all : BOOLEAN, on : BOOLEAN, mute : [Speakers -> Nat]]
CountersTyped == count \in [Counters -> Nat] /\ stored \in [Counters -> Nat]
TasksTyped == tasks \cup keys \subseteq [kind : {"start", "end"}, at : 0..MaxTime]
SlotsTyped ==
  /\ pc \in [Slots -> Steps] /\ req \in [Slots -> Requests]
  /\ \A h \in Slots : pc[h] = "idle" <=> req[h] = Idle
BoundsTyped ==
  /\ disturbed \subseteq Topics /\ now \in 0..MaxTime /\ requests \in 0..MaxRequests
  /\ changes \in 0..MaxChanges /\ failures \in 0..MaxFailures

(* What a slot's request is, by the step it is at.                         *)
Sound(step, r) ==
  /\ step \in {"write", "reset", "announce"} => r.op \in {"update", "muteAll"}
  /\ step \in {"reread", "strategy", "start", "end"} => r.op = "update"
  /\ step = "tell" => r.op \in {"mute", "unmute"} /\ r.target \in Speakers
  /\ step \in {"member", "config", "frequency", "store", "count"} =>
       r.op = "send" /\ r.uid \in Speakers
  /\ r.op = "muteAll" => r.next.strategy.rule = {} /\ ~r.next.on
  /\ ~(r.next.all /\ r.next.on)
  /\ r.key # NoKey => step \in {"store", "count"} /\ r.key \in Counters /\ r.key.uid = r.uid
SlotsSound == \A h \in Slots : Sound(pc[h], req[h])

(* Every reset of the counters was announced by a change.                  *)
Resetting == {h \in Slots : pc[h] \in {"write", "reset"}}
VersionSound == version \in Nat /\ version + Cardinality(Resetting) <= changes

(* What a message is counted under is not later than now.                  *)
TimesSound ==
  \A h \in Slots :
    /\ req[h].at <= now
    /\ req[h].key # NoKey => req[h].key.v <= version /\ req[h].key.window <= WindowOf(now)

IInv == RowsTyped /\ CountersTyped /\ TasksTyped /\ SlotsTyped /\ BoundsTyped
        /\ SlotsSound /\ VersionSound /\ TimesSound

-----------------------------------------------------------------------------
(* Helpers.                                                                *)

LEMMA Defaults ==
  /\ NoStrategy \in Strategy /\ DefaultConfig \in Config /\ Idle \in Requests
  /\ DefaultConfig.all = FALSE /\ DefaultConfig.on = FALSE
  /\ DefaultConfig.strategy.rule = {}
  /\ Sound("idle", Idle) /\ Idle.at = 0 /\ Idle.key = NoKey /\ Idle.op = None
<1>1. 0 \in 0..MaxTime
  BY RoomMutesAssumption
<1>2. NoStrategy \in Strategy
  BY <1>1 DEF NoStrategy, Strategy
<1>3. DefaultConfig \in Config
  BY <1>2 DEF DefaultConfig, Config
<1>4. Idle \in Requests
  BY <1>1, <1>3 DEF Idle, Requests
<1>5. /\ DefaultConfig.all = FALSE /\ DefaultConfig.on = FALSE
      /\ DefaultConfig.strategy.rule = {}
  BY DEF DefaultConfig, NoStrategy
<1>6. /\ Idle.op = None /\ Idle.key = NoKey /\ Idle.at = 0 /\ Idle.next = DefaultConfig
  BY DEF Idle
<1>7. Sound("idle", Idle)
  BY <1>5, <1>6, RoomMutesAssumption DEF Sound, Ops
<1> QED
  BY <1>2, <1>3, <1>4, <1>5, <1>6, <1>7

(* One slot moves.                                                         *)
SlotMoves(h, step, r) == pc' = [pc EXCEPT ![h] = step] /\ req' = [req EXCEPT ![h] = r]

LEMMA Moved ==
  ASSUME SlotsTyped, NEW h \in Slots, NEW step, NEW r, SlotMoves(h, step, r)
  PROVE  /\ pc'[h] = step /\ req'[h] = r
         /\ \A g \in Slots \ {h} : pc'[g] = pc[g] /\ req'[g] = req[g]
BY DEF SlotsTyped, SlotMoves

LEMMA MovedTyped ==
  ASSUME SlotsTyped, SlotsSound, NEW h \in Slots, NEW step \in Steps, NEW r \in Requests,
         SlotMoves(h, step, r), step = "idle" <=> r = Idle, Sound(step, r)
  PROVE  SlotsTyped' /\ SlotsSound'
<1>1. /\ pc'[h] = step /\ req'[h] = r
      /\ \A g \in Slots \ {h} : pc'[g] = pc[g] /\ req'[g] = req[g]
  BY Moved
<1>2. pc' \in [Slots -> Steps] /\ req' \in [Slots -> Requests]
  BY DEF SlotsTyped, SlotMoves
<1>3. \A g \in Slots : pc'[g] = "idle" <=> req'[g] = Idle
  <2> TAKE g \in Slots
  <2>1. CASE g = h
    BY <1>1, <2>1
  <2>2. CASE g # h
    BY <1>1, <2>2 DEF SlotsTyped
  <2> QED
    BY <2>1, <2>2
<1>4. SlotsSound'
  <2> SUFFICES ASSUME NEW g \in Slots PROVE Sound(pc'[g], req'[g])
    BY DEF SlotsSound, Sound
  <2>1. CASE g = h
    BY <1>1, <2>1
  <2>2. CASE g # h
    BY <1>1, <2>2 DEF SlotsSound
  <2> QED
    BY <2>1, <2>2
<1> QED
  BY <1>2, <1>3, <1>4 DEF SlotsTyped

LEMMA Leaves ==
  ASSUME NEW h \in Slots, Leave(h)
  PROVE  SlotMoves(h, "idle", Idle)
BY DEF Leave, Goto, SlotMoves

LEMMA Goes ==
  ASSUME SlotsTyped, NEW h \in Slots, NEW step, Goto(h, step), UNCHANGED req
  PROVE  SlotMoves(h, step, req[h])
BY DEF Goto, SlotMoves, SlotsTyped

(* The bounds under a call that may fail.                                  *)
LEMMA CallTyped ==
  ASSUME BoundsTyped, NEW T \in SUBSET Topics, Succeeds \/ Fails(T),
         UNCHANGED <<now, requests, changes>>
  PROVE  BoundsTyped'
<1>1. CASE Succeeds
  BY <1>1 DEF Succeeds, BoundsTyped
<1>2. CASE Fails(T)
  BY <1>2, RoomMutesAssumption DEF Fails, BoundsTyped
<1> QED
  BY <1>1, <1>2

(* The number of slots in some state, when one slot moves.                 *)
LEMMA CountMoves ==
  ASSUME NEW S \in SUBSET Slots, NEW T \in SUBSET Slots, NEW h \in Slots, S \ {h} = T \ {h}
  PROVE  /\ Cardinality(S) \in Nat /\ Cardinality(T) \in Nat
         /\ Cardinality(T) + (IF h \in S THEN 1 ELSE 0)
              = Cardinality(S) + (IF h \in T THEN 1 ELSE 0)
<1>1. IsFiniteSet(S) /\ IsFiniteSet(T)
  BY FS_Subset, RoomMutesAssumption
<1>2. /\ Cardinality(S) \in Nat /\ Cardinality(T) \in Nat
  BY <1>1, FS_CardinalityType
<1>3. /\ Cardinality(S \ {h}) = IF h \in S THEN Cardinality(S) - 1 ELSE Cardinality(S)
      /\ Cardinality(T \ {h}) = IF h \in T THEN Cardinality(T) - 1 ELSE Cardinality(T)
  BY <1>1, FS_RemoveElement
<1>4. Cardinality(S \ {h}) = Cardinality(T \ {h})
  OBVIOUS
<1> QED
  BY <1>2, <1>3, <1>4

(* The version does not change, and no slot starts to reset.               *)
LEMMA VersionStays ==
  ASSUME SlotsTyped, VersionSound, NEW h \in Slots, NEW step, NEW r,
         SlotMoves(h, step, r), step \in {"write", "reset"} => pc[h] \in {"write", "reset"},
         UNCHANGED version, changes \in Nat, changes' \in Nat, changes <= changes'
  PROVE  VersionSound'
<1>1. /\ pc'[h] = step
      /\ \A g \in Slots \ {h} : pc'[g] = pc[g]
  BY Moved
<1>2. Resetting \ {h} = Resetting' \ {h} /\ Resetting \subseteq Slots /\ Resetting' \subseteq Slots
  BY <1>1 DEF Resetting
<1>3. h \in Resetting' => h \in Resetting
  BY <1>1 DEF Resetting
<1>4. /\ Cardinality(Resetting) \in Nat /\ Cardinality(Resetting') \in Nat
      /\ Cardinality(Resetting') + (IF h \in Resetting THEN 1 ELSE 0)
           = Cardinality(Resetting) + (IF h \in Resetting' THEN 1 ELSE 0)
  BY <1>2, CountMoves
<1>5. Cardinality(Resetting') <= Cardinality(Resetting)
  BY <1>3, <1>4
<1> QED
  BY <1>4, <1>5 DEF VersionSound

LEMMA TimesMoved ==
  ASSUME SlotsTyped, TimesSound, NEW h \in Slots, NEW step, NEW r, SlotMoves(h, step, r),
         r.at <= now, r.key # NoKey => r.key.v <= version /\ r.key.window <= WindowOf(now),
         UNCHANGED <<now, version>>
  PROVE  TimesSound'
<1>1. req'[h] = r /\ \A g \in Slots \ {h} : req'[g] = req[g]
  BY Moved
<1> SUFFICES ASSUME NEW g \in Slots
             PROVE  /\ req'[g].at <= now
                    /\ req'[g].key # NoKey => /\ req'[g].key.v <= version
                                              /\ req'[g].key.window <= WindowOf(now)
  BY DEF TimesSound, WindowOf
<1>2. CASE g = h
  BY <1>1, <1>2
<1>3. CASE g # h
  BY <1>1, <1>3 DEF TimesSound
<1> QED
  BY <1>2, <1>3

(* A step of a slot that is no new request and resets no counters.         *)
LEMMA StepKeeps ==
  ASSUME IInv, NEW h \in Slots, NEW step \in Steps, NEW r \in Requests,
         SlotMoves(h, step, r), step = "idle" <=> r = Idle, Sound(step, r),
         step \in {"write", "reset"} => pc[h] \in {"write", "reset"},
         r.at <= now, r.key # NoKey => r.key.v <= version /\ r.key.window <= WindowOf(now),
         RowsTyped', CountersTyped', TasksTyped', BoundsTyped',
         UNCHANGED <<now, version, changes>>
  PROVE  IInv'
<1>1. SlotsTyped' /\ SlotsSound'
  BY MovedTyped DEF IInv
<1>2. changes \in Nat /\ changes' \in Nat /\ changes <= changes'
  BY DEF IInv, BoundsTyped
<1>3. VersionSound'
  BY <1>2, VersionStays DEF IInv
<1>4. TimesSound'
  BY TimesMoved DEF IInv
<1> QED
  BY <1>1, <1>3, <1>4 DEF IInv

(* The same for a request that goes on unchanged, and for one that ends.   *)
LEMMA GoesKeeps ==
  ASSUME IInv, NEW h \in Slots, NEW step \in Steps \ {"idle", "write"}, pc[h] # "idle",
         Goto(h, step), UNCHANGED req, Sound(step, req[h]),
         step = "reset" => pc[h] = "write",
         RowsTyped', CountersTyped', TasksTyped', BoundsTyped',
         UNCHANGED <<now, version, changes>>
  PROVE  IInv'
<1>1. SlotMoves(h, step, req[h])
  BY Goes DEF IInv
<1>2. req[h] \in Requests /\ req[h] # Idle
  BY DEF IInv, SlotsTyped
<1>3. /\ req[h].at <= now
      /\ req[h].key # NoKey => req[h].key.v <= version /\ req[h].key.window <= WindowOf(now)
  BY DEF IInv, TimesSound
<1> QED
  BY <1>1, <1>2, <1>3, StepKeeps

LEMMA LeaveKeeps ==
  ASSUME IInv, NEW h \in Slots, Leave(h),
         RowsTyped', CountersTyped', TasksTyped', BoundsTyped',
         UNCHANGED <<now, version, changes>>
  PROVE  IInv'
<1>1. SlotMoves(h, "idle", Idle)
  BY Leaves
<1>2. "idle" \in Steps /\ Idle.at <= now
  BY Defaults DEF Steps, IInv, BoundsTyped
<1> QED
  BY <1>1, <1>2, Defaults, StepKeeps

-----------------------------------------------------------------------------
(* New requests.                                                           *)

Entering(h, r, step) ==
  /\ r \in Requests /\ r # Idle /\ Sound(step, r) /\ r.at <= now /\ r.key = NoKey
  /\ Enter(h, r, step)
  /\ UNCHANGED <<cfg, told, version, count, stored, tasks, keys, now, failures>>

LEMMA NotIdle ==
  ASSUME NEW r, r.op \in Ops
  PROVE  r # Idle
BY Defaults, RoomMutesAssumption

LEMMA UpdateEnters ==
  ASSUME IInv, NEW h \in Slots, NEW u \in Uids, NEW all \in BOOLEAN, NEW on \in BOOLEAN,
         NEW s \in Strategies, UpdateRequest(h, u, all, on, s)
  PROVE  \E r : /\ Entering(h, r, "write") /\ r.op = "update" /\ r.prev = cfg
                /\ UNCHANGED muteUntil
<1> DEFINE n == Exclusive(all, on, s)
           r == [Idle EXCEPT !.op = "update", !.uid = u, !.prev = cfg, !.next = n]
<1>1. n \in Config /\ ~(n.all /\ n.on)
  <2>1. s \in Strategy
    BY StrategiesAssumption
  <2>2. n.all = all /\ n.on = (on /\ ~all)
    BY DEF Exclusive
  <2>3. n \in Config
    BY <2>1 DEF Exclusive, Config
  <2> QED
    BY <2>2, <2>3
<1>2. cfg \in Config
  BY DEF IInv, RowsTyped
<1> HIDE DEF n
<1>3. /\ r.op = "update" /\ r.prev = cfg /\ r.next = n /\ r.key = NoKey /\ r.at = 0
      /\ r \in Requests
  BY <1>1, <1>2, Defaults DEF Requests, Ops
<1>4. /\ Enter(h, r, "write")
      /\ UNCHANGED <<cfg, told, version, count, stored, tasks, keys, now, failures, muteUntil>>
  BY DEF UpdateRequest, n, redisVars
<1> HIDE DEF r
<1>5. r # Idle
  BY <1>3, NotIdle DEF Ops
<1>6. Sound("write", r) /\ r.at <= now
  BY <1>1, <1>3 DEF Sound, IInv, BoundsTyped
<1> QED
  BY <1>3, <1>4, <1>5, <1>6 DEF Entering

LEMMA MuteAllEnters ==
  ASSUME IInv, NEW h \in Slots, NEW u \in Uids, NEW mute \in BOOLEAN,
         MuteAllRequest(h, u, mute)
  PROVE  \E r : /\ Entering(h, r, "write") /\ r.op = "muteAll" /\ UNCHANGED muteUntil
<1> DEFINE n == MuteAllRule(mute)
           r == [Idle EXCEPT !.op = "muteAll", !.uid = u, !.next = n]
<1>1. n \in Config /\ n.on = FALSE /\ n.strategy.rule = {}
  <2> DEFINE s == [NoStrategy EXCEPT !.allow = {"admin", "owner"}, !.from = now]
  <2>1. now \in 0..MaxTime /\ 0 \in 0..MaxTime
    BY RoomMutesAssumption DEF IInv, BoundsTyped
  <2>2. s \in Strategy /\ s.rule = {}
    BY <2>1 DEF NoStrategy, Strategy
  <2>3. n = [all |-> mute, on |-> FALSE, strategy |-> s]
    BY DEF MuteAllRule
  <2> HIDE DEF s, n
  <2> QED
    BY <2>2, <2>3 DEF Config
<1> HIDE DEF n
<1>2. /\ r.op = "muteAll" /\ r.next = n /\ r.key = NoKey /\ r.at = 0 /\ r \in Requests
  BY <1>1, Defaults DEF Requests, Ops
<1>3. /\ Enter(h, r, "write")
      /\ UNCHANGED <<cfg, told, version, count, stored, tasks, keys, now, failures, muteUntil>>
  BY DEF MuteAllRequest, n, redisVars
<1> HIDE DEF r
<1>4. r # Idle
  BY <1>2, NotIdle DEF Ops
<1>5. Sound("write", r) /\ r.at <= now
  BY <1>1, <1>2 DEF Sound, IInv, BoundsTyped
<1> QED
  BY <1>2, <1>3, <1>4, <1>5 DEF Entering

LEMMA MuteEnters ==
  ASSUME IInv, NEW h \in Slots, NEW u \in Uids, NEW op \in {"mute", "unmute"},
         NEW target \in Speakers, NEW d \in Durations, MuteRequest(h, op, u, target, d)
  PROVE  \E r : /\ Entering(h, r, "tell") /\ r.op \in {"mute", "unmute"}
                /\ \E n \in Nat : /\ muteUntil' = [muteUntil EXCEPT ![r.target] = n]
                                  /\ r.op = "unmute" => n = 0
<1> DEFINE r == [Idle EXCEPT !.op = op, !.uid = u, !.target = target]
           n == IF op = "mute" THEN now + d ELSE 0
<1>1. n \in Nat /\ (op = "unmute" => n = 0)
  BY RoomMutesAssumption DEF IInv, BoundsTyped
<1>2. /\ r.op = op /\ r.target = target /\ r.key = NoKey /\ r.at = 0 /\ r \in Requests
      /\ r.next = Idle.next
  BY Defaults DEF Requests, Ops
<1>3. /\ Enter(h, r, "tell") /\ muteUntil' = [muteUntil EXCEPT ![target] = n]
      /\ UNCHANGED <<cfg, told, version, count, stored, tasks, keys, now, failures>>
  BY DEF MuteRequest, redisVars
<1> HIDE DEF r, n
<1>4. r # Idle
  BY <1>2, NotIdle DEF Ops
<1>5. Sound("tell", r) /\ r.at <= now
  BY <1>2, Defaults DEF Sound, IInv, BoundsTyped
<1> QED
  BY <1>1, <1>2, <1>3, <1>4, <1>5 DEF Entering

LEMMA SendEnters ==
  ASSUME IInv, NEW h \in Slots, NEW u \in Speakers, SendRequest(h, u)
  PROVE  \E r : /\ Entering(h, r, "member") /\ r.op = "send" /\ r.at = now
                /\ UNCHANGED muteUntil
<1> DEFINE r == [Idle EXCEPT !.op = "send", !.uid = u, !.at = now]
<1>1. now \in 0..MaxTime /\ u \in Uids
  BY RoomMutesAssumption DEF IInv, BoundsTyped
<1>2. /\ r.op = "send" /\ r.uid = u /\ r.key = NoKey /\ r.at = now /\ r \in Requests
      /\ r.next = Idle.next
  BY <1>1, Defaults DEF Requests, Ops
<1>3. /\ Enter(h, r, "member")
      /\ UNCHANGED <<cfg, told, version, count, stored, tasks, keys, now, failures, muteUntil>>
  BY DEF SendRequest, redisVars
<1> HIDE DEF r
<1>4. r # Idle
  BY <1>2, NotIdle DEF Ops
<1>5. Sound("member", r) /\ r.at <= now
  BY <1>1, <1>2, Defaults DEF Sound
<1> QED
  BY <1>2, <1>3, <1>4, <1>5 DEF Entering

(* What a request is when it begins.                                       *)
Begins(h, r, step) ==
  /\ Entering(h, r, step)
  /\ \/ step = "write" /\ r.op = "update" /\ r.prev = cfg /\ UNCHANGED muteUntil
     \/ step = "write" /\ r.op = "muteAll" /\ UNCHANGED muteUntil
     \/ /\ step = "tell" /\ r.op \in {"mute", "unmute"}
        /\ \E n \in Nat : /\ muteUntil' = [muteUntil EXCEPT ![r.target] = n]
                          /\ r.op = "unmute" => n = 0
     \/ step = "member" /\ r.op = "send" /\ r.at = now /\ UNCHANGED muteUntil

LEMMA RequestBegins ==
  ASSUME IInv, NEW h \in Slots, Request(h)
  PROVE  \E r, step : Begins(h, r, step)
<1>1. ASSUME NEW u \in Uids, NEW all \in BOOLEAN, NEW on \in BOOLEAN, NEW s \in Strategies,
             UpdateRequest(h, u, all, on, s)
      PROVE  \E r, step : Begins(h, r, step)
  BY <1>1, UpdateEnters DEF Begins
<1>2. ASSUME NEW u \in Uids, NEW mute \in BOOLEAN, MuteAllRequest(h, u, mute)
      PROVE  \E r, step : Begins(h, r, step)
  BY <1>2, MuteAllEnters DEF Begins
<1>3. ASSUME NEW u \in Uids, NEW op \in {"mute", "unmute"}, NEW target \in Speakers,
             NEW d \in Durations, MuteRequest(h, op, u, target, d)
      PROVE  \E r, step : Begins(h, r, step)
  BY <1>3, MuteEnters DEF Begins
<1>4. ASSUME NEW u \in Speakers, SendRequest(h, u)
      PROVE  \E r, step : Begins(h, r, step)
  BY <1>4, SendEnters DEF Begins
<1> QED
  BY <1>1, <1>2, <1>3, <1>4 DEF Request

LEMMA SizeOfOne == \A x : Cardinality({x}) = 1
BY FS_Singleton

(* What a request is about, and that it is counted as a change.            *)
LEMMA TopicOf ==
  ASSUME NEW r, r.op \in Ops, r.op \in {"mute", "unmute"} => r.target \in Uids
  PROVE  /\ Topic(r) \subseteq Topics /\ Cardinality(Topic(r)) \in Nat
         /\ r.op \in {"update", "muteAll"} => Cardinality(Topic(r)) = 1
<1>1. CASE r.op \in {"update", "muteAll"}
  <2>1. Topic(r) = {"config"}
    BY <1>1 DEF Topic
  <2>2. Cardinality(Topic(r)) = 1
    BY <2>1, SizeOfOne
  <2> QED
    BY <2>1, <2>2 DEF Topics
<1>2. CASE r.op \in {"mute", "unmute"}
  <2>1. Topic(r) = {r.target}
    BY <1>2 DEF Topic
  <2>2. Cardinality(Topic(r)) = 1
    BY <2>1, SizeOfOne
  <2> QED
    BY <1>2, <2>1, <2>2 DEF Topics
<1>3. CASE r.op = "send"
  <2>1. Topic(r) = {}
    BY <1>3 DEF Topic
  <2> QED
    BY <1>3, <2>1, FS_EmptySet DEF Topics
<1> QED
  BY <1>1, <1>2, <1>3 DEF Ops

LEMMA BeginKeeps ==
  ASSUME IInv, NEW h \in Slots, NEW r, NEW step, Begins(h, r, step)
  PROVE  /\ IInv' /\ SlotMoves(h, step, r) /\ pc[h] = "idle" /\ step # "idle"
         /\ disturbed' = disturbed \cup Overlapping(r)
<1>1. /\ r \in Requests /\ r # Idle /\ Sound(step, r) /\ r.at <= now /\ r.key = NoKey
      /\ UNCHANGED <<cfg, told, version, count, stored, tasks, keys, now, failures>>
      /\ step \in {"write", "tell", "member"}
      /\ r.op \in Ops
      /\ step = "write" <=> r.op \in {"update", "muteAll"}
  BY DEF Begins, Entering, Ops
<1>2. /\ pc[h] = "idle" /\ SlotMoves(h, step, r)
      /\ requests < MaxRequests /\ requests' = requests + 1
      /\ changes' = changes + Cardinality(Topic(r)) /\ changes' <= MaxChanges
      /\ disturbed' = disturbed \cup Overlapping(r)
  BY DEF Begins, Entering, Enter, SlotMoves
<1>3. r.op \in {"mute", "unmute"} => r.target \in Speakers /\ r.target \in Uids
  BY <1>1, RoomMutesAssumption DEF Begins, Sound
<1>4. /\ Topic(r) \subseteq Topics /\ Cardinality(Topic(r)) \in Nat
      /\ step = "write" => Cardinality(Topic(r)) = 1
  BY <1>1, <1>3, TopicOf
<1>5. RowsTyped'
  <2>1. muteUntil' \in [Speakers -> Nat]
    BY <1>3 DEF Begins, IInv, RowsTyped
  <2> QED
    BY <1>1, <2>1 DEF IInv, RowsTyped
<1>6. BoundsTyped'
  <2>1. disturbed' \subseteq Topics
    BY <1>2, <1>4 DEF Overlapping, IInv, BoundsTyped
  <2>2. requests' \in 0..MaxRequests /\ changes' \in 0..MaxChanges
    BY <1>2, <1>4, RoomMutesAssumption DEF IInv, BoundsTyped
  <2> QED
    BY <1>1, <2>1, <2>2 DEF IInv, BoundsTyped
<1>7. step \in Steps /\ step # "idle"
  BY <1>1 DEF Steps
<1>8. SlotsTyped' /\ SlotsSound'
  BY <1>1, <1>2, <1>7, MovedTyped DEF IInv
<1>9. changes \in Nat /\ changes' \in Nat /\ changes <= changes'
  BY <1>2, <1>4, <1>6 DEF IInv, BoundsTyped
<1>10. VersionSound'
  <2>1. CASE step # "write"
    BY <1>1, <1>2, <1>9, <2>1, VersionStays DEF IInv
  <2>2. CASE step = "write"
    <3>1. pc'[h] = "write" /\ \A g \in Slots \ {h} : pc'[g] = pc[g]
      BY <1>2, <2>2, Moved DEF IInv
    <3>2. /\ Resetting \ {h} = Resetting' \ {h} /\ h \notin Resetting /\ h \in Resetting'
          /\ Resetting \subseteq Slots /\ Resetting' \subseteq Slots
      BY <1>2, <3>1 DEF Resetting
    <3>3. /\ Cardinality(Resetting) \in Nat
          /\ Cardinality(Resetting') = Cardinality(Resetting) + 1
      <4>1. /\ Cardinality(Resetting) \in Nat /\ Cardinality(Resetting') \in Nat
            /\ Cardinality(Resetting') + (IF h \in Resetting THEN 1 ELSE 0)
                 = Cardinality(Resetting) + (IF h \in Resetting' THEN 1 ELSE 0)
        BY <3>2, CountMoves
      <4> QED
        BY <3>2, <4>1
    <3>4. changes' = changes + 1
      BY <1>2, <1>4, <2>2
    <3> QED
      BY <1>1, <1>9, <3>3, <3>4 DEF IInv, VersionSound
  <2> QED
    BY <2>1, <2>2
<1>11. TimesSound'
  BY <1>1, <1>2, TimesMoved DEF IInv
<1>12. CountersTyped' /\ TasksTyped'
  BY <1>1 DEF IInv, CountersTyped, TasksTyped
<1> QED
  BY <1>2, <1>5, <1>6, <1>7, <1>8, <1>10, <1>11, <1>12 DEF IInv

-----------------------------------------------------------------------------
(* The steps of a request about the configuration.                         *)

LEMMA RequestKnown ==
  ASSUME IInv, NEW h \in Slots, pc[h] # "idle"
  PROVE  /\ req[h] \in Requests /\ req[h] # Idle /\ Sound(pc[h], req[h])
         /\ req[h].next \in Config /\ req[h].prev \in Config /\ req[h].key \in Counters \cup {NoKey}
         /\ req[h].at \in 0..MaxTime /\ req[h].at <= now
<1>1. req[h] \in Requests /\ req[h] # Idle /\ Sound(pc[h], req[h]) /\ req[h].at <= now
  BY DEF IInv, SlotsTyped, SlotsSound, TimesSound
<1> QED
  BY <1>1 DEF Requests

LEMMA WriteRuleKeeps ==
  ASSUME IInv, NEW h \in Slots, WriteRule(h)
  PROVE  IInv'
<1>1. /\ pc[h] = "write"
      /\ UNCHANGED <<muteUntil, version, count, keys, tasks, told, stored, disturbed,
                     now, requests, changes, failures>>
  BY DEF WriteRule, redisVars, bounds
<1>2. CountersTyped' /\ TasksTyped' /\ BoundsTyped'
  BY <1>1 DEF IInv, CountersTyped, TasksTyped, BoundsTyped
<1>3. CASE cfg' = req[h].next /\ Goto(h, "reset") /\ UNCHANGED req
  <2>1. /\ req[h].next \in Config /\ Sound("write", req[h])
    BY <1>1, RequestKnown
  <2>2. RowsTyped'
    BY <1>1, <1>3, <2>1 DEF IInv, RowsTyped, Sound
  <2>3. Sound("reset", req[h])
    BY <2>1 DEF Sound
  <2> QED
    BY <1>1, <1>2, <1>3, <2>2, <2>3, GoesKeeps DEF Steps
<1>4. CASE Leave(h) /\ UNCHANGED cfg
  <2>1. RowsTyped'
    BY <1>1, <1>4 DEF IInv, RowsTyped
  <2> QED
    BY <1>1, <1>2, <1>4, <2>1, LeaveKeeps
<1> QED
  BY <1>3, <1>4 DEF WriteRule

LEMMA ResetCountersKeeps ==
  ASSUME IInv, NEW h \in Slots, ResetCounters(h)
  PROVE  IInv'
<1> DEFINE next == IF req[h].op = "update" THEN "reread" ELSE "announce"
<1>1. /\ pc[h] = "reset" /\ Goto(h, next)
      /\ UNCHANGED <<cfg, muteUntil, count, keys, tasks, told, req, stored, now, requests,
                     changes>>
      /\ \/ version' = version + 1 /\ Succeeds
         \/ Fails({}) /\ UNCHANGED version
  BY DEF ResetCounters
<1>2. next \in {"reread", "announce"} /\ next \in Steps /\ next # "idle" /\ Sound(next, req[h])
  <2>1. Sound("reset", req[h])
    BY <1>1, RequestKnown
  <2> QED
    BY <2>1 DEF Sound, Steps
<1> HIDE DEF next
<1>3. RowsTyped' /\ CountersTyped' /\ TasksTyped'
  BY <1>1 DEF IInv, RowsTyped, CountersTyped, TasksTyped
<1>4. BoundsTyped'
  <2>1. {} \in SUBSET Topics
    OBVIOUS
  <2> QED
    BY <1>1, <2>1, CallTyped DEF IInv
<1>5. CASE UNCHANGED version
  BY <1>1, <1>2, <1>3, <1>4, <1>5, GoesKeeps
<1>6. CASE version' = version + 1
  <2>1. SlotMoves(h, next, req[h])
    BY <1>1, Goes DEF IInv
  <2>2. req[h] \in Requests /\ req[h] # Idle
    BY <1>1, RequestKnown
  <2>3. SlotsTyped' /\ SlotsSound'
    BY <1>2, <2>1, <2>2, MovedTyped DEF IInv
  <2>4. /\ pc'[h] = next /\ \A g \in Slots \ {h} : pc'[g] = pc[g]
    BY <2>1, Moved DEF IInv
  <2>5. /\ Resetting \ {h} = Resetting' \ {h} /\ h \in Resetting /\ h \notin Resetting'
        /\ Resetting \subseteq Slots /\ Resetting' \subseteq Slots
    BY <1>1, <1>2, <2>4 DEF Resetting
  <2>6. /\ Cardinality(Resetting') \in Nat
        /\ Cardinality(Resetting) = Cardinality(Resetting') + 1
    <3>1. /\ Cardinality(Resetting) \in Nat /\ Cardinality(Resetting') \in Nat
          /\ Cardinality(Resetting') + (IF h \in Resetting THEN 1 ELSE 0)
               = Cardinality(Resetting) + (IF h \in Resetting' THEN 1 ELSE 0)
      BY <2>5, CountMoves
    <3> QED
      BY <2>5, <3>1
  <2>7. VersionSound'
    BY <1>1, <1>6, <2>6 DEF IInv, VersionSound, BoundsTyped
  <2>8. TimesSound'
    <3> SUFFICES ASSUME NEW g \in Slots
                 PROVE  /\ req'[g].at <= now'
                        /\ req'[g].key # NoKey => /\ req'[g].key.v <= version'
                                                  /\ req'[g].key.window <= WindowOf(now)'
      BY DEF TimesSound
    <3>1. /\ req[g].at <= now
          /\ req[g].key # NoKey => req[g].key.v <= version /\ req[g].key.window <= WindowOf(now)
      BY DEF IInv, TimesSound
    <3>2. version \in Nat /\ (req[g].key # NoKey => req[g].key.v \in Nat)
      BY RoomMutesAssumption DEF IInv, VersionSound, SlotsTyped, Requests, Counters
    <3> QED
      BY <1>1, <1>6, <3>1, <3>2 DEF WindowOf
  <2> QED
    BY <1>3, <1>4, <2>3, <2>7, <2>8 DEF IInv
<1> QED
  BY <1>1, <1>5, <1>6

LEMMA RereadKeeps ==
  ASSUME IInv, NEW h \in Slots, Reread(h)
  PROVE  IInv'
<1>1. /\ pc[h] = "reread"
      /\ UNCHANGED <<cfg, muteUntil, version, count, keys, tasks, told, stored, now,
                     requests, changes>>
      /\ \/ req' = [req EXCEPT ![h].next = cfg] /\ Goto(h, "announce") /\ Succeeds
         \/ Fails({"config", "tasks"}) /\ Leave(h)
  BY DEF Reread, redisVars
<1>2. RowsTyped' /\ CountersTyped' /\ TasksTyped'
  BY <1>1 DEF IInv, RowsTyped, CountersTyped, TasksTyped
<1>3. BoundsTyped'
  <2>1. {"config", "tasks"} \in SUBSET Topics
    BY DEF Topics
  <2> QED
    BY <1>1, <2>1, CallTyped DEF IInv
<1>4. CASE req' = [req EXCEPT ![h].next = cfg] /\ Goto(h, "announce")
  <2> DEFINE r == [req[h] EXCEPT !.next = cfg]
  <2>1. req[h] \in Requests /\ Sound("reread", req[h]) /\ cfg \in Config /\ ~(cfg.all /\ cfg.on)
    BY <1>1, RequestKnown DEF IInv, RowsTyped
  <2>2. /\ r \in Requests /\ r.op = req[h].op /\ r.key = req[h].key /\ r.at = req[h].at
        /\ r.uid = req[h].uid /\ r.target = req[h].target /\ r.next = cfg
    BY <2>1 DEF Requests
  <2>3. SlotMoves(h, "announce", r)
    BY <1>4 DEF SlotMoves, Goto
  <2> HIDE DEF r
  <2>4. Sound("announce", r)
    BY <2>1, <2>2 DEF Sound, Ops
  <2>5. r # Idle
    BY <2>1, <2>2, NotIdle DEF Sound, Ops
  <2>6. /\ r.at <= now
        /\ r.key # NoKey => r.key.v <= version /\ r.key.window <= WindowOf(now)
    BY <2>2 DEF IInv, TimesSound
  <2> QED
    BY <1>1, <1>2, <1>3, <2>2, <2>3, <2>4, <2>5, <2>6, StepKeeps DEF Steps
<1>5. CASE Leave(h)
  BY <1>1, <1>2, <1>3, <1>5, LeaveKeeps
<1> QED
  BY <1>1, <1>4, <1>5

LEMMA AnnounceTyped ==
  ASSUME IInv, NEW T \in SUBSET Topics, NEW news,
         news \in [all : BOOLEAN, on : BOOLEAN, mute : [Speakers -> Nat]],
         Announce(T, news) \/ (Succeeds /\ UNCHANGED told),
         UNCHANGED <<cfg, muteUntil, now, requests, changes>>
  PROVE  RowsTyped' /\ BoundsTyped'
<1>1. told' = news \/ UNCHANGED told
  BY DEF Announce
<1>2. Succeeds \/ Fails(T)
  BY DEF Announce
<1>3. BoundsTyped'
  BY <1>2, CallTyped DEF IInv
<1> QED
  BY <1>1, <1>3 DEF IInv, RowsTyped

LEMMA AnnounceMuteAllKeeps ==
  ASSUME IInv, NEW h \in Slots, AnnounceMuteAll(h)
  PROVE  IInv'
<1> DEFINE news == [told EXCEPT !.all = req[h].next.all]
<1>1. /\ pc[h] = "announce"
      /\ UNCHANGED <<cfg, muteUntil, version, count, keys, tasks, stored, now, requests, changes>>
      /\ Announce({"config"}, news) \/ (Succeeds /\ UNCHANGED told)
      /\ \/ req[h].op = "muteAll" /\ Leave(h)
         \/ req[h].op # "muteAll" /\ Goto(h, "strategy") /\ UNCHANGED req
  BY DEF AnnounceMuteAll, redisVars
<1>2. req[h].next.all \in BOOLEAN /\ Sound("announce", req[h])
  BY <1>1, RequestKnown DEF Config
<1>3. news \in [all : BOOLEAN, on : BOOLEAN, mute : [Speakers -> Nat]]
  BY <1>2 DEF IInv, RowsTyped
<1> HIDE DEF news
<1>4. RowsTyped' /\ BoundsTyped'
  BY <1>1, <1>3, AnnounceTyped DEF Topics
<1>5. CountersTyped' /\ TasksTyped'
  BY <1>1 DEF IInv, CountersTyped, TasksTyped
<1>6. CASE Leave(h)
  BY <1>1, <1>4, <1>5, <1>6, LeaveKeeps
<1>7. CASE req[h].op # "muteAll" /\ Goto(h, "strategy") /\ UNCHANGED req
  <2>1. Sound("strategy", req[h])
    BY <1>2, <1>7 DEF Sound
  <2> QED
    BY <1>1, <1>4, <1>5, <1>7, <2>1, GoesKeeps DEF Steps
<1> QED
  BY <1>1, <1>6, <1>7

LEMMA AnnounceStrategyKeeps ==
  ASSUME IInv, NEW h \in Slots, AnnounceStrategy(h)
  PROVE  IInv'
<1> DEFINE news == [told EXCEPT !.on = req[h].next.on]
           r == [req[h] EXCEPT !.prev = DefaultConfig]
<1>1. /\ pc[h] = "strategy"
      /\ UNCHANGED <<cfg, muteUntil, version, count, keys, tasks, stored, now, requests, changes>>
      /\ Announce({"config"}, news) \/ (Succeeds /\ UNCHANGED told)
      /\ SlotMoves(h, "start", r)
  BY DEF AnnounceStrategy, redisVars, SlotMoves, Goto
<1>2. /\ req[h] \in Requests /\ req[h].next.on \in BOOLEAN /\ Sound("strategy", req[h])
  BY <1>1, RequestKnown DEF Config
<1>3. news \in [all : BOOLEAN, on : BOOLEAN, mute : [Speakers -> Nat]]
  BY <1>2 DEF IInv, RowsTyped
<1> HIDE DEF news
<1>4. RowsTyped' /\ BoundsTyped'
  BY <1>1, <1>3, AnnounceTyped DEF Topics
<1>5. CountersTyped' /\ TasksTyped'
  BY <1>1 DEF IInv, CountersTyped, TasksTyped
<1>6. /\ r \in Requests /\ r.op = req[h].op /\ r.key = req[h].key /\ r.at = req[h].at
      /\ r.uid = req[h].uid /\ r.target = req[h].target /\ r.next = req[h].next
  BY <1>2, Defaults DEF Requests
<1> HIDE DEF r
<1>7. Sound("start", r)
  BY <1>2, <1>6 DEF Sound
<1>8. r # Idle
  BY <1>2, <1>6, NotIdle DEF Sound, Ops
<1>9. /\ r.at <= now
      /\ r.key # NoKey => r.key.v <= version /\ r.key.window <= WindowOf(now)
  BY <1>6 DEF IInv, TimesSound
<1> QED
  BY <1>1, <1>4, <1>5, <1>6, <1>7, <1>8, <1>9, StepKeeps DEF Steps

LEMMA ScheduleTyped ==
  ASSUME IInv, NEW n \in [kind : {"start", "end"}, at : 0..MaxTime],
         Schedule(n) \/ (Succeeds /\ UNCHANGED <<keys, tasks>>),
         UNCHANGED <<now, requests, changes>>
  PROVE  TasksTyped' /\ BoundsTyped'
<1>1. /\ keys' \subseteq keys \cup {n} /\ tasks' \subseteq tasks \cup {n}
      /\ Succeeds \/ Fails({"tasks"})
  BY DEF Schedule, ScheduleKey
<1>2. TasksTyped'
  BY <1>1 DEF IInv, TasksTyped
<1>3. {"tasks"} \in SUBSET Topics
  BY DEF Topics
<1> QED
  BY <1>1, <1>2, <1>3, CallTyped DEF IInv

LEMMA ScheduleStartKeeps ==
  ASSUME IInv, NEW h \in Slots, ScheduleStart(h)
  PROVE  IInv'
<1> DEFINE n == Notice("start", req[h].next.strategy.from)
<1>1. /\ pc[h] = "start" /\ Goto(h, "end")
      /\ UNCHANGED <<cfg, muteUntil, version, count, told, req, stored, now, requests, changes>>
      /\ Schedule(n) \/ (Succeeds /\ UNCHANGED <<keys, tasks>>)
  BY DEF ScheduleStart
<1>2. req[h].next \in Config /\ Sound("start", req[h])
  BY <1>1, RequestKnown
<1>3. n \in [kind : {"start", "end"}, at : 0..MaxTime]
  BY <1>2 DEF Notice, Config, Strategy
<1> HIDE DEF n
<1>4. TasksTyped' /\ BoundsTyped'
  BY <1>1, <1>3, ScheduleTyped
<1>5. RowsTyped' /\ CountersTyped'
  BY <1>1 DEF IInv, RowsTyped, CountersTyped
<1>6. Sound("end", req[h])
  BY <1>2 DEF Sound
<1> QED
  BY <1>1, <1>4, <1>5, <1>6, GoesKeeps DEF Steps

LEMMA ScheduleEndKeeps ==
  ASSUME IInv, NEW h \in Slots, ScheduleEnd(h)
  PROVE  IInv'
<1> DEFINE n == Notice("end", req[h].next.strategy.to)
<1>1. /\ pc[h] = "end" /\ Leave(h)
      /\ UNCHANGED <<cfg, muteUntil, version, count, told, stored, now, requests, changes>>
      /\ Schedule(n) \/ (Succeeds /\ UNCHANGED <<keys, tasks>>)
  BY DEF ScheduleEnd
<1>2. req[h].next \in Config
  BY <1>1, RequestKnown
<1>3. n \in [kind : {"start", "end"}, at : 0..MaxTime]
  BY <1>2 DEF Notice, Config, Strategy
<1> HIDE DEF n
<1>4. TasksTyped' /\ BoundsTyped'
  BY <1>1, <1>3, ScheduleTyped
<1>5. RowsTyped' /\ CountersTyped'
  BY <1>1 DEF IInv, RowsTyped, CountersTyped
<1> QED
  BY <1>1, <1>4, <1>5, LeaveKeeps

LEMMA TellMuteKeeps ==
  ASSUME IInv, NEW h \in Slots, TellMute(h)
  PROVE  IInv'
<1> DEFINE t == req[h].target
           n == IF req[h].op = "mute" THEN muteUntil[t] ELSE 0
           news == [told EXCEPT !.mute[t] = n]
<1>1. /\ pc[h] = "tell" /\ Leave(h)
      /\ UNCHANGED <<cfg, muteUntil, version, count, keys, tasks, stored, now, requests, changes>>
      /\ Announce({t}, news)
  BY DEF TellMute, redisVars
<1>2. t \in Speakers /\ t \in Uids
  BY <1>1, RequestKnown, RoomMutesAssumption DEF Sound
<1>3. n \in Nat
  BY <1>2 DEF IInv, RowsTyped
<1> HIDE DEF n
<1>4. news \in [all : BOOLEAN, on : BOOLEAN, mute : [Speakers -> Nat]]
  BY <1>2, <1>3 DEF IInv, RowsTyped
<1> HIDE DEF news, t
<1>5. RowsTyped' /\ BoundsTyped'
  BY <1>1, <1>2, <1>4, AnnounceTyped DEF Topics
<1>6. CountersTyped' /\ TasksTyped'
  BY <1>1 DEF IInv, CountersTyped, TasksTyped
<1> QED
  BY <1>1, <1>5, <1>6, LeaveKeeps

-----------------------------------------------------------------------------
(* The steps of a message.                                                 *)

LEMMA CheckMemberKeeps ==
  ASSUME IInv, NEW h \in Slots, CheckMember(h)
  PROVE  IInv'
<1>1. /\ pc[h] = "member"
      /\ UNCHANGED <<cfg, muteUntil, version, count, keys, tasks, told, stored, disturbed,
                     now, requests, changes, failures>>
      /\ Leave(h) \/ (Goto(h, "config") /\ UNCHANGED req)
  BY DEF CheckMember, redisVars, bounds, Rejected
<1>2. RowsTyped' /\ CountersTyped' /\ TasksTyped' /\ BoundsTyped'
  BY <1>1 DEF IInv, RowsTyped, CountersTyped, TasksTyped, BoundsTyped
<1>3. Sound("member", req[h])
  BY <1>1, RequestKnown
<1>4. Sound("config", req[h])
  BY <1>3 DEF Sound
<1> QED
  BY <1>1, <1>2, <1>4, LeaveKeeps, GoesKeeps DEF Steps

LEMMA CheckConfigKeeps ==
  ASSUME IInv, NEW h \in Slots, CheckConfig(h)
  PROVE  IInv'
<1>1. /\ pc[h] = "config"
      /\ UNCHANGED <<cfg, muteUntil, version, count, keys, tasks, told, stored, disturbed,
                     now, requests, changes, failures>>
      /\ \/ Leave(h)
         \/ Goto(h, "frequency") /\ UNCHANGED req
         \/ Goto(h, "store") /\ UNCHANGED req
  BY DEF CheckConfig, redisVars, bounds, Rejected
<1>2. RowsTyped' /\ CountersTyped' /\ TasksTyped' /\ BoundsTyped'
  BY <1>1 DEF IInv, RowsTyped, CountersTyped, TasksTyped, BoundsTyped
<1>3. Sound("config", req[h])
  BY <1>1, RequestKnown
<1>4. Sound("frequency", req[h]) /\ Sound("store", req[h])
  BY <1>3 DEF Sound
<1> QED
  BY <1>1, <1>2, <1>4, LeaveKeeps, GoesKeeps DEF Steps

(* A counter in use is one of the counters.                                *)
LEMMA CounterKnown ==
  ASSUME IInv, NEW u \in Speakers, NEW t \in 0..MaxTime
  PROVE  /\ Counter(u, t) \in Counters /\ Counter(u, t) # NoKey
         /\ Counter(u, t).v = version /\ Counter(u, t).uid = u
         /\ Counter(u, t).window = WindowOf(t)
<1>1. version \in 0..MaxChanges
  <2>1. version \in Nat /\ version + Cardinality(Resetting) <= changes
    BY DEF IInv, VersionSound
  <2>2. Cardinality(Resetting) \in Nat
    BY FS_Subset, FS_CardinalityType, RoomMutesAssumption DEF Resetting
  <2>3. changes \in 0..MaxChanges
    BY DEF IInv, BoundsTyped
  <2> QED
    BY <2>1, <2>2, <2>3, RoomMutesAssumption
<1>2. Counter(u, t).uid # NoKey.uid
  BY RoomMutesAssumption DEF Counter, NoKey
<1> QED
  BY <1>1, <1>2 DEF Counter, Counters

LEMMA CheckFrequencyKeeps ==
  ASSUME IInv, NEW h \in Slots, CheckFrequency(h)
  PROVE  IInv'
<1> DEFINE k == Counter(req[h].uid, req[h].at)
           r == [req[h] EXCEPT !.key = k]
<1>1. /\ pc[h] = "frequency"
      /\ UNCHANGED <<cfg, muteUntil, version, count, keys, tasks, told, stored, now,
                     requests, changes>>
      /\ \/ Leave(h) /\ Succeeds
         \/ SlotMoves(h, "store", r) /\ Succeeds
         \/ Goto(h, "store") /\ UNCHANGED req /\ Fails({"count"})
  BY DEF CheckFrequency, redisVars, Rejected, SlotMoves, Goto
<1>2. /\ req[h] \in Requests /\ Sound("frequency", req[h]) /\ req[h].at \in 0..MaxTime
      /\ req[h].at <= now
  BY <1>1, RequestKnown
<1>3. k \in Counters /\ k # NoKey /\ k.v = version /\ k.uid = req[h].uid
      /\ k.window = WindowOf(req[h].at)
  BY <1>2, CounterKnown DEF Sound
<1> HIDE DEF k
<1>4. RowsTyped' /\ CountersTyped' /\ TasksTyped'
  BY <1>1 DEF IInv, RowsTyped, CountersTyped, TasksTyped
<1>5. BoundsTyped'
  <2>1. {"count"} \in SUBSET Topics
    BY DEF Topics
  <2> QED
    BY <1>1, <2>1, CallTyped DEF IInv
<1>6. CASE Leave(h)
  BY <1>1, <1>4, <1>5, <1>6, LeaveKeeps
<1>7. CASE SlotMoves(h, "store", r)
  <2>1. /\ r \in Requests /\ r.op = req[h].op /\ r.key = k /\ r.at = req[h].at
        /\ r.uid = req[h].uid /\ r.next = req[h].next /\ r.target = req[h].target
    BY <1>2, <1>3 DEF Requests
  <2> HIDE DEF r
  <2>2. Sound("store", r)
    BY <1>2, <1>3, <2>1 DEF Sound
  <2>3. r # Idle
    BY <1>2, <2>1, NotIdle DEF Sound, Ops
  <2>4. r.at <= now /\ r.key.v <= version /\ r.key.window <= WindowOf(now)
    <3>1. req[h].at \in Nat /\ now \in Nat /\ version \in Nat
      BY <1>2 DEF IInv, BoundsTyped, VersionSound
    <3>2. WindowOf(req[h].at) <= WindowOf(now)
      BY <1>2, <3>1, WindowsInOrder
    <3> QED
      BY <1>2, <1>3, <2>1, <3>1, <3>2
  <2> QED
    BY <1>1, <1>4, <1>5, <1>7, <2>1, <2>2, <2>3, <2>4, StepKeeps DEF Steps
<1>8. CASE Goto(h, "store") /\ UNCHANGED req
  <2>1. Sound("store", req[h])
    BY <1>2 DEF Sound
  <2> QED
    BY <1>1, <1>4, <1>5, <1>8, <2>1, GoesKeeps DEF Steps
<1> QED
  BY <1>1, <1>6, <1>7, <1>8

LEMMA StoreMessageKeeps ==
  ASSUME IInv, NEW h \in Slots, StoreMessage(h)
  PROVE  IInv'
<1> DEFINE k == req[h].key
<1>1. /\ pc[h] = "store"
      /\ UNCHANGED <<cfg, muteUntil, version, count, keys, tasks, told, disturbed,
                     now, requests, changes, failures>>
      /\ \/ Goto(h, "count") /\ UNCHANGED req
         \/ Leave(h)
      /\ \/ UNCHANGED stored
         \/ k # NoKey /\ stored' = [stored EXCEPT ![k] = @ + 1]
  BY DEF StoreMessage, redisVars, bounds
<1>2. RowsTyped' /\ TasksTyped' /\ BoundsTyped'
  BY <1>1 DEF IInv, RowsTyped, TasksTyped, BoundsTyped
<1>3. Sound("store", req[h]) /\ k \in Counters \cup {NoKey}
  BY <1>1, RequestKnown
<1> HIDE DEF k
<1>4. CountersTyped'
  BY <1>1, <1>3 DEF IInv, CountersTyped
<1>5. Sound("count", req[h])
  BY <1>3 DEF Sound
<1> QED
  BY <1>1, <1>2, <1>4, <1>5, LeaveKeeps, GoesKeeps DEF Steps

LEMMA CountMessageKeeps ==
  ASSUME IInv, NEW h \in Slots, CountMessage(h)
  PROVE  IInv'
<1> DEFINE k == Counter(req[h].uid, now)
<1>1. /\ pc[h] = "count" /\ Leave(h)
      /\ UNCHANGED <<cfg, muteUntil, version, keys, tasks, told, stored, now,
                     requests, changes>>
      /\ UNCHANGED count \/ count' = [count EXCEPT ![k] = @ + 1]
      /\ \/ UNCHANGED failures
         \/ failures < MaxFailures /\ failures' = failures + 1
      /\ disturbed' \subseteq disturbed \cup {"count"}
  BY DEF CountMessage, Counted, Fails
<1>2. RowsTyped' /\ TasksTyped'
  BY <1>1 DEF IInv, RowsTyped, TasksTyped
<1>3. BoundsTyped'
  BY <1>1, RoomMutesAssumption DEF IInv, BoundsTyped, Topics
<1>4. k \in Counters
  BY <1>1, RequestKnown, CounterKnown DEF Sound, IInv, BoundsTyped
<1> HIDE DEF k
<1>5. CountersTyped'
  BY <1>1, <1>4 DEF IInv, CountersTyped
<1> QED
  BY <1>1, <1>2, <1>3, <1>5, LeaveKeeps

-----------------------------------------------------------------------------
(* The rest, and the types.                                                *)

LEMMA TaskRunsKeeps ==
  ASSUME IInv, NEW n \in tasks, TaskRuns(n)
  PROVE  IInv'
<1>1. /\ tasks' \subseteq tasks
      /\ UNCHANGED <<cfg, muteUntil, version, count, keys, told, pc, req, stored, disturbed,
                     now, requests, changes, failures>>
  BY DEF TaskRuns, redisVars, bounds
<1>2. TasksTyped'
  BY <1>1 DEF IInv, TasksTyped
<1>3. RowsTyped' /\ CountersTyped' /\ SlotsTyped' /\ BoundsTyped'
  BY <1>1 DEF IInv, RowsTyped, CountersTyped, SlotsTyped, BoundsTyped
<1>4. SlotsSound' /\ VersionSound' /\ TimesSound'
  BY <1>1 DEF IInv, SlotsSound, Sound, VersionSound, Resetting, TimesSound, WindowOf
<1> QED
  BY <1>2, <1>3, <1>4 DEF IInv

LEMMA TickKeeps ==
  ASSUME IInv, Tick
  PROVE  IInv'
<1>1. /\ keys' \subseteq keys /\ now < MaxTime /\ now' = now + 1
      /\ UNCHANGED <<cfg, muteUntil, version, count, tasks, told, pc, req, stored,
                     disturbed, requests, changes, failures>>
  BY DEF Tick
<1>2. TasksTyped'
  BY <1>1 DEF IInv, TasksTyped
<1>3. RowsTyped' /\ CountersTyped' /\ SlotsTyped'
  BY <1>1 DEF IInv, RowsTyped, CountersTyped, SlotsTyped
<1>4. BoundsTyped'
  BY <1>1, RoomMutesAssumption DEF IInv, BoundsTyped
<1>5. SlotsSound' /\ VersionSound'
  BY <1>1 DEF IInv, SlotsSound, Sound, VersionSound, Resetting
<1>6. TimesSound'
  <2> SUFFICES ASSUME NEW h \in Slots
               PROVE  /\ req[h].at <= now'
                      /\ req[h].key # NoKey =>
                           req[h].key.v <= version /\ req[h].key.window <= WindowOf(now')
    BY <1>1 DEF TimesSound, WindowOf
  <2>1. now \in Nat /\ now' \in Nat /\ now <= now' /\ req[h].at \in Nat
    BY <1>1 DEF IInv, BoundsTyped, SlotsTyped, Requests
  <2>2. /\ WindowOf(now) \in Nat /\ WindowOf(now') \in Nat /\ WindowOf(now) <= WindowOf(now')
    BY <2>1, WindowsInOrder
  <2>3. req[h].key # NoKey => req[h].key.window \in Nat
    <3>1. \A t \in 0..MaxTime : WindowOf(t) \in Nat
      BY WindowsInOrder
    <3>2. req[h].key \in Counters \cup {NoKey}
      BY DEF IInv, SlotsTyped, Requests
    <3> QED
      BY <3>1, <3>2 DEF Counters
  <2>4. /\ req[h].at <= now
        /\ req[h].key # NoKey => req[h].key.v <= version /\ req[h].key.window <= WindowOf(now)
    BY DEF IInv, TimesSound
  <2> HIDE DEF IInv
  <2> QED
    BY <2>1, <2>2, <2>3, <2>4
<1> QED
  BY <1>2, <1>3, <1>4, <1>5, <1>6 DEF IInv

LEMMA InitHolds == ASSUME Init PROVE IInv
<1>1. RowsTyped /\ CountersTyped /\ TasksTyped
  BY Defaults DEF Init, RowsTyped, CountersTyped, TasksTyped
<1>2. SlotsTyped
  BY Defaults DEF Init, SlotsTyped, Steps
<1>3. BoundsTyped
  BY RoomMutesAssumption DEF Init, BoundsTyped
<1>4. SlotsSound /\ TimesSound
  BY Defaults DEF Init, SlotsSound, TimesSound
<1>5. VersionSound
  <2>1. Resetting = {}
    BY DEF Init, Resetting
  <2> QED
    BY <2>1, FS_EmptySet DEF Init, VersionSound
<1> QED
  BY <1>1, <1>2, <1>3, <1>4, <1>5 DEF IInv

LEMMA NextKeeps == ASSUME IInv, [Next]_vars PROVE IInv'
<1>1. CASE UNCHANGED vars
  BY <1>1 DEF vars, redisVars, bounds, IInv, RowsTyped, CountersTyped, TasksTyped, SlotsTyped,
     BoundsTyped, SlotsSound, Sound, VersionSound, Resetting, TimesSound, WindowOf
<1>2. ASSUME NEW h \in Slots, Request(h) PROVE IInv'
  BY <1>2, RequestBegins, BeginKeeps
<1>3. ASSUME NEW h \in Slots, ConfigStep(h) PROVE IInv'
  BY <1>3, WriteRuleKeeps, ResetCountersKeeps, RereadKeeps, AnnounceMuteAllKeeps,
     AnnounceStrategyKeeps, ScheduleStartKeeps, ScheduleEndKeeps, TellMuteKeeps DEF ConfigStep
<1>4. ASSUME NEW h \in Slots, SendStep(h) PROVE IInv'
  BY <1>4, CheckMemberKeeps, CheckConfigKeeps, CheckFrequencyKeeps, StoreMessageKeeps,
     CountMessageKeeps DEF SendStep
<1> QED
  BY <1>1, <1>2, <1>3, <1>4, TaskRunsKeeps, TickKeeps DEF Next

(* The invariant holds in every reachable state.                           *)
LEMMA Invariance == Spec => []IInv
BY InitHolds, NextKeeps, PTL DEF Spec

(* Every variable of the mutes keeps its type: updates advance the version *)
(* no further than the number of changes allows (ResetRoomMuteFrequencyCount), *)
(* and a message is counted under a counter that exists.                   *)
THEOREM TypeCorrect == Spec => []TypeOK
<1>1. IInv => TypeOK
  <2> SUFFICES ASSUME IInv PROVE TypeOK
    OBVIOUS
  <2>1. version \in 0..MaxChanges
    <3>1. version \in Nat /\ version + Cardinality(Resetting) <= changes
      BY DEF IInv, VersionSound
    <3>2. Cardinality(Resetting) \in Nat
      BY FS_Subset, FS_CardinalityType, RoomMutesAssumption DEF Resetting
    <3>3. changes \in 0..MaxChanges
      BY DEF IInv, BoundsTyped
    <3> QED
      BY <3>1, <3>2, <3>3, RoomMutesAssumption
  <2>2. SlotsTyped /\ RowsTyped /\ CountersTyped /\ TasksTyped /\ BoundsTyped
    BY DEF IInv
  <2> QED
    BY <2>1, <2>2 DEF TypeOK, SlotsTyped, RowsTyped, CountersTyped, TasksTyped, BoundsTyped, Topics
<1> QED
  BY <1>1, Invariance, PTL

-----------------------------------------------------------------------------
(* The limit. Messages checked against a counter, not yet stored or stored *)
(* and not yet counted, and those that may still be checked against it.    *)

Passed(step, r, k) == step = "store" /\ r.key = k
Owed(step, r, k) == step = "count" /\ r.key = k
Coming(step, r, k) ==
  /\ step \in {"member", "config", "frequency"}
  /\ r.uid = k.uid /\ WindowOf(r.at) = k.window

PassedSlots(k) == {h \in Slots : Passed(pc[h], req[h], k)}
OwedSlots(k) == {h \in Slots : Owed(pc[h], req[h], k)}
ComingSlots(k) == {h \in Slots : Coming(pc[h], req[h], k)}

Most == MaxMessages + Cardinality(Slots) - 1

(* No counter lets more than Most through. Of the counter in use, what is  *)
(* stored is counted or owed; of one that is closed either the limit was   *)
(* reached, so that every later check of it rejects, or what was stored    *)
(* and all that may still follow fit.                                      *)
LimitSound(k) ==
  /\ stored[k] + Cardinality(PassedSlots(k)) <= Most
  /\ k.v > version \/ k.window > WindowOf(now) => stored[k] = 0
  /\ k.v = version /\ k.window = WindowOf(now) =>
       stored[k] <= count[k] + Cardinality(OwedSlots(k))
  /\ k.v = version /\ k.window < WindowOf(now) =>
       \/ count[k] >= MaxMessages
       \/ stored[k] + Cardinality(PassedSlots(k)) + Cardinality(ComingSlots(k)) <= Most

LimitsSound == "count" \notin disturbed => \A k \in Counters : LimitSound(k)

(* The counters of the slots, when slot h moves to step and r.              *)
LEMMA SlotCounts ==
  ASSUME SlotsTyped, NEW h \in Slots, NEW step, NEW r, SlotMoves(h, step, r), NEW k
  PROVE  /\ Cardinality(PassedSlots(k)) \in Nat /\ Cardinality(PassedSlots(k)') \in Nat
         /\ Cardinality(OwedSlots(k)) \in Nat /\ Cardinality(OwedSlots(k)') \in Nat
         /\ Cardinality(ComingSlots(k)) \in Nat /\ Cardinality(ComingSlots(k)') \in Nat
         /\ Cardinality(PassedSlots(k)') + (IF Passed(pc[h], req[h], k) THEN 1 ELSE 0)
              = Cardinality(PassedSlots(k)) + (IF Passed(step, r, k) THEN 1 ELSE 0)
         /\ Cardinality(OwedSlots(k)') + (IF Owed(pc[h], req[h], k) THEN 1 ELSE 0)
              = Cardinality(OwedSlots(k)) + (IF Owed(step, r, k) THEN 1 ELSE 0)
         /\ Cardinality(ComingSlots(k)') + (IF Coming(pc[h], req[h], k) THEN 1 ELSE 0)
              = Cardinality(ComingSlots(k)) + (IF Coming(step, r, k) THEN 1 ELSE 0)
<1>1. /\ pc'[h] = step /\ req'[h] = r
      /\ \A g \in Slots \ {h} : pc'[g] = pc[g] /\ req'[g] = req[g]
  BY Moved
<1>2. /\ PassedSlots(k) \subseteq Slots /\ PassedSlots(k)' \subseteq Slots
      /\ PassedSlots(k) \ {h} = PassedSlots(k)' \ {h}
      /\ h \in PassedSlots(k) <=> Passed(pc[h], req[h], k)
      /\ h \in PassedSlots(k)' <=> Passed(step, r, k)
  BY <1>1 DEF PassedSlots, Passed
<1>3. /\ OwedSlots(k) \subseteq Slots /\ OwedSlots(k)' \subseteq Slots
      /\ OwedSlots(k) \ {h} = OwedSlots(k)' \ {h}
      /\ h \in OwedSlots(k) <=> Owed(pc[h], req[h], k)
      /\ h \in OwedSlots(k)' <=> Owed(step, r, k)
  BY <1>1 DEF OwedSlots, Owed
<1>4. /\ ComingSlots(k) \subseteq Slots /\ ComingSlots(k)' \subseteq Slots
      /\ ComingSlots(k) \ {h} = ComingSlots(k)' \ {h}
      /\ h \in ComingSlots(k) <=> Coming(pc[h], req[h], k)
      /\ h \in ComingSlots(k)' <=> Coming(step, r, k)
  BY <1>1 DEF ComingSlots, Coming, WindowOf
<1> QED
  BY <1>2, <1>3, <1>4, CountMoves

LEMMA SumOfDisjoint ==
  ASSUME NEW S, NEW T, IsFiniteSet(S), IsFiniteSet(T), S \cap T = {}
  PROVE  Cardinality(S \cup T) = Cardinality(S) + Cardinality(T)
<1>1. Cardinality(S \cup T) = Cardinality(S) + Cardinality(T) - Cardinality(S \cap T)
  BY FS_Union
<1>2. Cardinality(S \cap T) = 0
  BY FS_EmptySet
<1>3. Cardinality(S) \in Nat /\ Cardinality(T) \in Nat
  BY FS_CardinalityType
<1> QED
  BY <1>1, <1>2, <1>3

(* No slot is in two of these states.                                      *)
LEMMA SlotsFit ==
  ASSUME NEW k
  PROVE  /\ Cardinality(PassedSlots(k)) \in Nat /\ Cardinality(OwedSlots(k)) \in Nat
         /\ Cardinality(ComingSlots(k)) \in Nat /\ Cardinality(Slots) \in Nat
         /\ Cardinality(PassedSlots(k)) + Cardinality(OwedSlots(k)) + Cardinality(ComingSlots(k))
              <= Cardinality(Slots)
<1> DEFINE P == PassedSlots(k)
           O == OwedSlots(k)
           C == ComingSlots(k)
<1>1. /\ P \subseteq Slots /\ O \subseteq Slots /\ C \subseteq Slots
      /\ P \cap O = {} /\ (P \cup O) \cap C = {}
  BY DEF PassedSlots, OwedSlots, ComingSlots, Passed, Owed, Coming
<1> HIDE DEF P, O, C
<1>2. IsFiniteSet(P) /\ IsFiniteSet(O) /\ IsFiniteSet(C) /\ IsFiniteSet(P \cup O)
  BY <1>1, RoomMutesAssumption, FS_Subset
<1>3. Cardinality(P \cup O) = Cardinality(P) + Cardinality(O)
  BY <1>1, <1>2, SumOfDisjoint
<1>4. Cardinality((P \cup O) \cup C) = Cardinality(P \cup O) + Cardinality(C)
  BY <1>1, <1>2, SumOfDisjoint
<1>5. Cardinality((P \cup O) \cup C) <= Cardinality(Slots)
  BY <1>1, RoomMutesAssumption, FS_Subset
<1>6. /\ Cardinality(P) \in Nat /\ Cardinality(O) \in Nat /\ Cardinality(C) \in Nat
      /\ Cardinality(Slots) \in Nat
  BY <1>2, RoomMutesAssumption, FS_CardinalityType
<1> QED
  BY <1>3, <1>4, <1>5, <1>6 DEF P, O, C

(* The numbers of a counter are natural.                                   *)
LEMMA CountersKnown ==
  ASSUME IInv, NEW k \in Counters
  PROVE  /\ stored[k] \in Nat /\ count[k] \in Nat /\ k.v \in Nat /\ k.window \in Nat
         /\ version \in Nat /\ now \in Nat /\ WindowOf(now) \in Nat
<1>1. \A t \in Nat : WindowOf(t) \in Nat
  BY WindowsInOrder
<1>2. stored[k] \in Nat /\ count[k] \in Nat /\ version \in Nat /\ now \in Nat
  BY DEF IInv, CountersTyped, VersionSound, BoundsTyped
<1>3. k.v \in Nat /\ k.window \in Nat
  BY <1>1, RoomMutesAssumption DEF Counters
<1> QED
  BY <1>1, <1>2, <1>3

(* A slot that moves without counting, and is not checked against k.       *)
LEMMA LimitQuiet ==
  ASSUME IInv, NEW k \in Counters, LimitSound(k),
         NEW h \in Slots, NEW step, NEW r, SlotMoves(h, step, r),
         Passed(step, r, k) => Passed(pc[h], req[h], k),
         Owed(pc[h], req[h], k) => Owed(step, r, k),
         Coming(step, r, k) => Coming(pc[h], req[h], k) \/ k.window = WindowOf(now),
         UNCHANGED <<stored, count, version, now>>
  PROVE  LimitSound(k)'
<1> DEFINE p == Cardinality(PassedSlots(k))
           o == Cardinality(OwedSlots(k))
           c == Cardinality(ComingSlots(k))
<1>1. /\ p \in Nat /\ o \in Nat /\ c \in Nat /\ p' \in Nat /\ o' \in Nat /\ c' \in Nat
      /\ p' <= p /\ o <= o' /\ (k.window # WindowOf(now) => c' <= c)
  BY SlotCounts DEF IInv
<1>2. WindowOf(now)' = WindowOf(now)
  BY DEF WindowOf
<1>3. Most' = Most /\ Most \in Int
  BY SlotsFit, RoomMutesAssumption DEF Most
<1>4. /\ stored[k] \in Nat /\ count[k] \in Nat /\ k.v \in Nat /\ k.window \in Nat
      /\ version \in Nat /\ WindowOf(now) \in Nat
  BY CountersKnown
<1> HIDE DEF p, o, c, Most
<1>5. /\ stored[k] + p <= Most
      /\ k.v > version \/ k.window > WindowOf(now) => stored[k] = 0
      /\ k.v = version /\ k.window = WindowOf(now) => stored[k] <= count[k] + o
      /\ k.v = version /\ k.window < WindowOf(now) =>
           count[k] >= MaxMessages \/ stored[k] + p + c <= Most
  BY DEF LimitSound, p, o, c
<1> HIDE DEF IInv, LimitSound, WindowOf
<1>6. /\ stored[k] + p' <= Most
      /\ k.v > version \/ k.window > WindowOf(now) => stored[k] = 0
      /\ k.v = version /\ k.window = WindowOf(now) => stored[k] <= count[k] + o'
      /\ k.v = version /\ k.window < WindowOf(now) =>
           count[k] >= MaxMessages \/ stored[k] + p' + c' <= Most
  BY <1>1, <1>3, <1>4, <1>5
<1> QED
  BY <1>2, <1>3, <1>6 DEF LimitSound, p, o, c

LEMMA NoKeyNoCounter == NoKey \notin Counters
BY RoomMutesAssumption DEF NoKey, Counters

(* The steps of a configuration leave the counters alone, but for a reset. *)
ConfigSteps == {"write", "reset", "reread", "announce", "strategy", "start", "end", "tell"}

LEMMA ConfigMoves ==
  ASSUME IInv, NEW h \in Slots, ConfigStep(h)
  PROVE  /\ \E step \in ConfigSteps \cup {"idle"} : \E r : SlotMoves(h, step, r)
         /\ pc[h] \in ConfigSteps
         /\ UNCHANGED <<stored, count, now>> /\ version' \in {version, version + 1}
         /\ disturbed \subseteq disturbed'
<1>1. ASSUME Leave(h)
      PROVE  \E step \in ConfigSteps \cup {"idle"} : \E r : SlotMoves(h, step, r)
  BY <1>1, Leaves
<1>2. ASSUME NEW step \in ConfigSteps, Goto(h, step), UNCHANGED req
      PROVE  \E s \in ConfigSteps \cup {"idle"} : \E r : SlotMoves(h, s, r)
  BY <1>2, Goes DEF IInv
<1>3. CASE WriteRule(h)
  BY <1>1, <1>2, <1>3 DEF WriteRule, ConfigSteps, redisVars, bounds
<1>4. CASE ResetCounters(h)
  <2> DEFINE next == IF req[h].op = "update" THEN "reread" ELSE "announce"
  <2>1. next \in ConfigSteps /\ Goto(h, next) /\ UNCHANGED req
    BY <1>4 DEF ResetCounters, ConfigSteps
  <2> HIDE DEF next
  <2>2. \E step \in ConfigSteps \cup {"idle"} : \E r : SlotMoves(h, step, r)
    BY <1>2, <2>1
  <2> QED
    BY <1>4, <2>2 DEF ResetCounters, ConfigSteps, Succeeds, Fails
<1>5. CASE Reread(h)
  <2>1. \E step \in ConfigSteps \cup {"idle"} : \E r : SlotMoves(h, step, r)
    <3>1. CASE Leave(h)
      BY <1>1, <3>1
    <3>2. CASE req' = [req EXCEPT ![h].next = cfg] /\ Goto(h, "announce")
      <4> DEFINE q == [req[h] EXCEPT !.next = cfg]
      <4>1. SlotMoves(h, "announce", q)
        BY <3>2 DEF SlotMoves, Goto
      <4> HIDE DEF q
      <4> QED
        BY <4>1 DEF ConfigSteps
    <3> QED
      BY <1>5, <3>1, <3>2 DEF Reread
  <2> QED
    BY <1>5, <2>1 DEF Reread, redisVars, ConfigSteps, Succeeds, Fails
<1>6. CASE AnnounceMuteAll(h)
  <2>1. \E step \in ConfigSteps \cup {"idle"} : \E r : SlotMoves(h, step, r)
    BY <1>1, <1>2, <1>6 DEF AnnounceMuteAll, ConfigSteps
  <2> QED
    BY <1>6, <2>1 DEF AnnounceMuteAll, redisVars, ConfigSteps, Announce, Succeeds, Fails
<1>7. CASE AnnounceStrategy(h)
  <2>1. SlotMoves(h, "start", [req[h] EXCEPT !.prev = DefaultConfig])
    BY <1>7 DEF AnnounceStrategy, SlotMoves, Goto
  <2> QED
    BY <1>7, <2>1 DEF AnnounceStrategy, redisVars, ConfigSteps, Announce, Succeeds, Fails
<1>8. CASE ScheduleStart(h)
  <2>1. \E step \in ConfigSteps \cup {"idle"} : \E r : SlotMoves(h, step, r)
    BY <1>2, <1>8 DEF ScheduleStart, ConfigSteps
  <2>2. Succeeds \/ Fails({"tasks"})
    BY <1>8 DEF ScheduleStart, Schedule
  <2> QED
    BY <1>8, <2>1, <2>2 DEF ScheduleStart, ConfigSteps, Succeeds, Fails
<1>9. CASE ScheduleEnd(h)
  <2>1. Succeeds \/ Fails({"tasks"})
    BY <1>9 DEF ScheduleEnd, Schedule
  <2> QED
    BY <1>1, <1>9, <2>1 DEF ScheduleEnd, ConfigSteps, Succeeds, Fails
<1>10. CASE TellMute(h)
  <2>1. disturbed \subseteq disturbed'
    BY <1>10 DEF TellMute, Announce, Succeeds, Fails
  <2> QED
    BY <1>1, <1>10, <2>1 DEF TellMute, redisVars, ConfigSteps
<1> QED
  BY <1>3, <1>4, <1>5, <1>6, <1>7, <1>8, <1>9, <1>10 DEF ConfigStep

LEMMA LimitConfig ==
  ASSUME IInv, NEW h \in Slots, ConfigStep(h), NEW k \in Counters, LimitSound(k)
  PROVE  LimitSound(k)'
<1>1. PICK step, r : step \in ConfigSteps \cup {"idle"} /\ SlotMoves(h, step, r)
  BY ConfigMoves
<1>2. /\ pc[h] \in ConfigSteps /\ UNCHANGED <<stored, count, now>>
      /\ version' \in {version, version + 1}
  BY ConfigMoves
<1>3. /\ ~Passed(step, r, k) /\ ~Owed(pc[h], req[h], k) /\ ~Coming(step, r, k)
      /\ ~Passed(pc[h], req[h], k) /\ ~Owed(step, r, k) /\ ~Coming(pc[h], req[h], k)
  BY <1>1, <1>2 DEF Passed, Owed, Coming, ConfigSteps
<1>4. CASE UNCHANGED version
  BY <1>1, <1>2, <1>3, <1>4, LimitQuiet
<1>5. CASE version' = version + 1
  <2> DEFINE p == Cardinality(PassedSlots(k))
             c == Cardinality(ComingSlots(k))
  <2>1. p \in Nat /\ c \in Nat /\ p' = p /\ c' = c
    BY <1>1, <1>3, SlotCounts DEF IInv
  <2>2. WindowOf(now)' = WindowOf(now) /\ Most' = Most
    BY <1>2 DEF WindowOf, Most
  <2>3. /\ stored[k] \in Nat /\ count[k] \in Nat /\ k.v \in Nat /\ k.window \in Nat
        /\ version \in Nat
    BY CountersKnown
  <2>4. /\ stored[k] + p <= Most
        /\ k.v > version \/ k.window > WindowOf(now) => stored[k] = 0
    BY DEF LimitSound
  <2>5. k.v > version => p + c <= Most
    BY SlotsFit, RoomMutesAssumption DEF Most
  <2> HIDE DEF p, c, Most, IInv, LimitSound, WindowOf
  <2>6. k.v > version' \/ k.window > WindowOf(now) => stored[k] = 0
    BY <1>5, <2>3, <2>4
  <2>7. k.v = version' => stored[k] = 0 /\ p + c <= Most
    BY <1>5, <2>3, <2>4, <2>5
  <2>8. k.v = version' => stored[k] <= count[k] + Cardinality(OwedSlots(k))'
    <3>1. Cardinality(OwedSlots(k))' \in Nat
      BY <1>1, SlotCounts DEF IInv
    <3> QED
      BY <2>3, <2>7, <3>1
  <2>9. k.v = version' => stored[k] + p + c <= Most
    BY <2>1, <2>7
  <2> QED
    BY <1>2, <2>1, <2>2, <2>4, <2>6, <2>8, <2>9 DEF LimitSound, p, c
<1> QED
  BY <1>2, <1>4, <1>5

LEMMA LimitBegins ==
  ASSUME IInv, NEW h \in Slots, Request(h), NEW k \in Counters, LimitSound(k)
  PROVE  LimitSound(k)'
<1>1. PICK r, step : Begins(h, r, step)
  BY RequestBegins
<1>2. /\ SlotMoves(h, step, r) /\ pc[h] = "idle" /\ disturbed \subseteq disturbed'
  BY <1>1, BeginKeeps
<1>3. /\ UNCHANGED <<stored, count, version, now>> /\ step \in {"write", "tell", "member"}
      /\ step = "member" => r.at = now
  BY <1>1 DEF Begins, Entering
<1>4. /\ ~Passed(step, r, k) /\ ~Owed(pc[h], req[h], k)
      /\ Coming(step, r, k) => k.window = WindowOf(now)
  BY <1>2, <1>3 DEF Passed, Owed, Coming
<1> QED
  BY <1>2, <1>3, <1>4, LimitQuiet

LEMMA LimitLeave ==
  ASSUME IInv, NEW h \in Slots, Leave(h), NEW k \in Counters, LimitSound(k),
         ~Owed(pc[h], req[h], k), UNCHANGED <<stored, count, version, now>>
  PROVE  LimitSound(k)'
<1>1. SlotMoves(h, "idle", Idle)
  BY Leaves
<1>2. ~Passed("idle", Idle, k) /\ ~Coming("idle", Idle, k)
  BY DEF Passed, Coming
<1> QED
  BY <1>1, <1>2, LimitQuiet

LEMMA LimitCheckMember ==
  ASSUME IInv, NEW h \in Slots, CheckMember(h), NEW k \in Counters, LimitSound(k)
  PROVE  LimitSound(k)'
<1>1. /\ pc[h] = "member" /\ UNCHANGED <<stored, count, version, now>>
      /\ Leave(h) \/ (Goto(h, "config") /\ UNCHANGED req)
  BY DEF CheckMember, redisVars, bounds, Rejected
<1>2. ~Owed(pc[h], req[h], k)
  BY <1>1 DEF Owed
<1>3. CASE Goto(h, "config") /\ UNCHANGED req
  <2>1. SlotMoves(h, "config", req[h])
    BY <1>3, Goes DEF IInv
  <2>2. ~Passed("config", req[h], k)
        /\ (Coming("config", req[h], k) => Coming(pc[h], req[h], k))
    BY <1>1 DEF Passed, Coming
  <2> QED
    BY <1>1, <1>2, <2>1, <2>2, LimitQuiet
<1> QED
  BY <1>1, <1>2, <1>3, LimitLeave

LEMMA LimitCheckConfig ==
  ASSUME IInv, NEW h \in Slots, CheckConfig(h), NEW k \in Counters, LimitSound(k)
  PROVE  LimitSound(k)'
<1>1. /\ pc[h] = "config" /\ UNCHANGED <<stored, count, version, now>>
      /\ \/ Leave(h)
         \/ Goto(h, "frequency") /\ UNCHANGED req
         \/ Goto(h, "store") /\ UNCHANGED req
  BY DEF CheckConfig, redisVars, bounds, Rejected
<1>2. ~Owed(pc[h], req[h], k)
  BY <1>1 DEF Owed
<1>3. ASSUME NEW step \in {"frequency", "store"}, Goto(h, step), UNCHANGED req
      PROVE  LimitSound(k)'
  <2>1. SlotMoves(h, step, req[h])
    BY <1>3, Goes DEF IInv
  <2>2. req[h].key = NoKey
    BY <1>1, RequestKnown DEF Sound
  <2>3. ~Passed(step, req[h], k) /\ (Coming(step, req[h], k) => Coming(pc[h], req[h], k))
    BY <1>1, <2>2, NoKeyNoCounter DEF Passed, Coming
  <2> QED
    BY <1>1, <1>2, <2>1, <2>3, LimitQuiet
<1> QED
  BY <1>1, <1>2, <1>3, LimitLeave

LEMMA LimitStore ==
  ASSUME IInv, NEW h \in Slots, StoreMessage(h), NEW k \in Counters, LimitSound(k)
  PROVE  LimitSound(k)'
<1> DEFINE q == req[h]
           p == Cardinality(PassedSlots(k))
           o == Cardinality(OwedSlots(k))
           c == Cardinality(ComingSlots(k))
<1>1. /\ pc[h] = "store" /\ UNCHANGED <<count, version, now>>
      /\ \/ /\ stored' = IF q.key = NoKey THEN stored ELSE [stored EXCEPT ![q.key] = @ + 1]
            /\ Goto(h, "count") /\ UNCHANGED req
         \/ Leave(h) /\ UNCHANGED stored
  BY DEF StoreMessage, redisVars, bounds
<1>2. CASE Leave(h) /\ UNCHANGED stored
  BY <1>1, <1>2, LimitLeave DEF Owed
<1>3. CASE /\ stored' = IF q.key = NoKey THEN stored ELSE [stored EXCEPT ![q.key] = @ + 1]
           /\ Goto(h, "count") /\ UNCHANGED req
  <2>1. SlotMoves(h, "count", q)
    BY <1>3, Goes DEF IInv
  <2>2. CASE q.key # k
    <3>1. stored'[k] = stored[k]
      BY <1>3, <2>2 DEF IInv, CountersTyped
    <3>2. /\ ~Passed("count", q, k) /\ ~Owed("count", q, k) /\ ~Coming("count", q, k)
          /\ ~Passed(pc[h], q, k) /\ ~Owed(pc[h], q, k) /\ ~Coming(pc[h], q, k)
      BY <1>1, <2>2 DEF Passed, Owed, Coming
    <3>3. /\ p' = p /\ o' = o /\ c' = c
      BY <2>1, <3>2, SlotCounts DEF IInv
    <3>4. WindowOf(now)' = WindowOf(now) /\ Most' = Most
      BY <1>1 DEF WindowOf, Most
    <3> QED
      BY <1>1, <3>1, <3>3, <3>4 DEF LimitSound
  <2>3. CASE q.key = k
    <3>1. stored'[k] = stored[k] + 1
      BY <1>3, <2>3, NoKeyNoCounter DEF IInv, CountersTyped
    <3>2. /\ ~Passed("count", q, k) /\ Owed("count", q, k) /\ ~Coming("count", q, k)
          /\ Passed(pc[h], q, k) /\ ~Owed(pc[h], q, k) /\ ~Coming(pc[h], q, k)
      BY <1>1, <2>3 DEF Passed, Owed, Coming
    <3>3. /\ p' + 1 = p /\ o' = o + 1 /\ c' = c
          /\ p \in Nat /\ o \in Nat /\ c \in Nat /\ p' \in Nat
      BY <2>1, <3>2, SlotCounts DEF IInv
    <3>4. WindowOf(now)' = WindowOf(now) /\ Most' = Most /\ Most \in Int
      BY <1>1, SlotsFit, RoomMutesAssumption DEF WindowOf, Most
    <3>5. k.v <= version /\ k.window <= WindowOf(now)
      BY <2>3, NoKeyNoCounter DEF IInv, TimesSound
    <3>6. /\ stored[k] \in Nat /\ count[k] \in Nat /\ k.v \in Nat /\ k.window \in Nat
          /\ version \in Nat /\ WindowOf(now) \in Nat
      BY CountersKnown
    <3>7. /\ stored[k] + p <= Most
          /\ k.v = version /\ k.window = WindowOf(now) => stored[k] <= count[k] + o
          /\ k.v = version /\ k.window < WindowOf(now) =>
               count[k] >= MaxMessages \/ stored[k] + p + c <= Most
      BY DEF LimitSound
    <3> HIDE DEF p, o, c, q, Most, IInv, LimitSound, WindowOf
    <3>8. /\ stored'[k] + p' = stored[k] + p
          /\ stored'[k] + p' + c' = stored[k] + p + c
      BY <3>1, <3>3, <3>6
    <3>9. ~(k.v > version \/ k.window > WindowOf(now))
      BY <3>5, <3>6
    <3>10. stored[k] <= count[k] + o => stored'[k] <= count[k] + o'
      BY <3>1, <3>3, <3>6
    <3> QED
      BY <1>1, <3>4, <3>7, <3>8, <3>9, <3>10 DEF LimitSound, p, o, c
  <2> QED
    BY <2>2, <2>3
<1> QED
  BY <1>1, <1>2, <1>3

(* A message that has passed the check under a counter is one of those the *)
(* counter had room for, or that were coming when the window closed.       *)
LEMMA LimitCheckFrequency ==
  ASSUME IInv, NEW h \in Slots, CheckFrequency(h), "count" \notin disturbed',
         NEW k \in Counters, LimitSound(k)
  PROVE  LimitSound(k)'
<1> DEFINE f == Counter(req[h].uid, req[h].at)
           r == [req[h] EXCEPT !.key = f]
           p == Cardinality(PassedSlots(k))
           o == Cardinality(OwedSlots(k))
           c == Cardinality(ComingSlots(k))
<1>1. /\ pc[h] = "frequency" /\ UNCHANGED <<stored, count, version, now>>
      /\ \/ Leave(h)
         \/ SlotMoves(h, "store", r) /\ ~OverLimit(f)
         \/ "count" \in disturbed'
  BY DEF CheckFrequency, redisVars, Rejected, SlotMoves, Goto, Fails
<1>2. ~Owed(pc[h], req[h], k)
  BY <1>1 DEF Owed
<1>3. CASE Leave(h)
  BY <1>1, <1>2, <1>3, LimitLeave
<1>4. CASE SlotMoves(h, "store", r) /\ ~OverLimit(f)
  <2>1. /\ req[h] \in Requests /\ Sound("frequency", req[h]) /\ req[h].at \in 0..MaxTime
        /\ req[h].at <= now
    BY <1>1, RequestKnown
  <2>2. f \in Counters /\ f.v = version /\ f.uid = req[h].uid /\ f.window = WindowOf(req[h].at)
    BY <2>1, CounterKnown DEF Sound
  <2>3. r.key = f
    BY <2>1 DEF Requests
  <2>4. CASE k # f
    <3>1. ~Passed("store", r, k) /\ ~Coming("store", r, k)
      BY <2>3, <2>4 DEF Passed, Coming
    <3> QED
      BY <1>1, <1>2, <1>4, <3>1, LimitQuiet
  <2>5. CASE k = f
    <3>1. /\ k.v = version /\ k.window = WindowOf(req[h].at) /\ ~(count[k] >= MaxMessages)
          /\ k.window <= WindowOf(now)
      <4>1. WindowOf(req[h].at) <= WindowOf(now)
        BY <2>1, WindowsInOrder DEF IInv, BoundsTyped
      <4> QED
        BY <1>4, <2>2, <2>5, <4>1 DEF OverLimit
    <3>2. /\ ~Passed(pc[h], req[h], k) /\ Passed("store", r, k)
          /\ ~Owed(pc[h], req[h], k) /\ ~Owed("store", r, k)
          /\ Coming(pc[h], req[h], k) /\ ~Coming("store", r, k)
      BY <1>1, <2>2, <2>3, <2>5 DEF Passed, Owed, Coming
    <3> HIDE DEF f, r
    <3>3. /\ p' = p + 1 /\ o' = o /\ c = c' + 1
          /\ p \in Nat /\ o \in Nat /\ c \in Nat /\ p' \in Nat /\ c' \in Nat
      BY <1>4, <3>2, SlotCounts DEF IInv
    <3>4. WindowOf(now)' = WindowOf(now) /\ Most' = Most
      BY <1>1 DEF WindowOf, Most
    <3>5. /\ stored[k] \in Nat /\ count[k] \in Nat /\ k.v \in Nat /\ k.window \in Nat
          /\ version \in Nat /\ WindowOf(now) \in Nat
      BY CountersKnown
    <3>6. /\ k.window = WindowOf(now) => stored[k] <= count[k] + o
          /\ k.window < WindowOf(now) => stored[k] + p + c <= Most
      BY <3>1 DEF LimitSound
    <3>7. /\ Cardinality(Slots) \in Nat /\ MaxMessages \in Nat
          /\ p + o + c <= Cardinality(Slots)
          /\ Most = MaxMessages + Cardinality(Slots) - 1
      BY SlotsFit, RoomMutesAssumption DEF Most
    <3> HIDE DEF p, o, c, Most, IInv, LimitSound, WindowOf
    <3>8. stored[k] + p' <= Most
      <4>1. CASE k.window = WindowOf(now)
        <5>1. stored[k] <= count[k] + o /\ count[k] < MaxMessages
          BY <3>1, <3>5, <3>6, <3>7, <4>1
        <5>2. p' + o <= Cardinality(Slots)
          BY <3>3, <3>7
        <5> QED
          BY <3>3, <3>5, <3>7, <5>1, <5>2
      <4>2. CASE k.window < WindowOf(now)
        <5>1. stored[k] + p + c <= Most
          BY <3>6, <4>2
        <5> QED
          BY <3>3, <3>5, <3>7, <5>1
      <4> QED
        BY <3>1, <3>5, <4>1, <4>2
    <3>9. ~(k.v > version \/ k.window > WindowOf(now))
      BY <3>1, <3>5
    <3>10. stored[k] + p' + c' = stored[k] + p + c
      BY <3>3, <3>5
    <3> QED
      BY <1>1, <3>3, <3>4, <3>6, <3>8, <3>9, <3>10 DEF LimitSound, p, o, c
  <2> QED
    BY <2>4, <2>5
<1> QED
  BY <1>1, <1>3, <1>4

LEMMA LimitCount ==
  ASSUME IInv, NEW h \in Slots, CountMessage(h), "count" \notin disturbed',
         NEW k \in Counters, LimitSound(k)
  PROVE  LimitSound(k)'
<1> DEFINE f == Counter(req[h].uid, now)
           p == Cardinality(PassedSlots(k))
           o == Cardinality(OwedSlots(k))
           c == Cardinality(ComingSlots(k))
<1>1. /\ pc[h] = "count" /\ Leave(h) /\ UNCHANGED <<stored, version, now>>
      /\ count' = Counted(req[h].uid, now) /\ ~Uncounted(req[h])
  BY DEF CountMessage, Fails
<1>2. SlotMoves(h, "idle", Idle)
  BY <1>1, Leaves
<1>3. /\ ~Passed(pc[h], req[h], k) /\ ~Passed("idle", Idle, k)
      /\ ~Owed("idle", Idle, k)
      /\ ~Coming(pc[h], req[h], k) /\ ~Coming("idle", Idle, k)
  BY <1>1 DEF Passed, Owed, Coming
<1>4. /\ p' = p /\ c' = c /\ o \in Nat /\ o' \in Nat
      /\ o' + (IF Owed(pc[h], req[h], k) THEN 1 ELSE 0) = o
  BY <1>2, <1>3, SlotCounts DEF IInv
<1>5. WindowOf(now)' = WindowOf(now) /\ Most' = Most
  BY <1>1 DEF WindowOf, Most
<1>6. stored[k] \in Nat /\ count[k] \in Nat
  BY CountersKnown
<1>7. f \in Counters
  BY <1>1, RequestKnown, CounterKnown DEF Sound, IInv, BoundsTyped
<1>8. count'[k] \in {count[k], count[k] + 1}
  BY <1>1, <1>7 DEF Counted, IInv, CountersTyped
<1>9. ASSUME Owed(pc[h], req[h], k), k.v = version, k.window = WindowOf(now)
      PROVE  count'[k] = count[k] + 1
  <2>1. req[h].key = k /\ Sound("count", req[h])
    BY <1>1, <1>9, RequestKnown DEF Owed
  <2>2. k = f
    <3>1. k.uid = req[h].uid
      BY <2>1, NoKeyNoCounter DEF Sound
    <3>2. k = [v |-> k.v, uid |-> k.uid, window |-> k.window]
      BY DEF Counters
    <3> QED
      BY <1>9, <3>1, <3>2 DEF Counter
  <2>3. "frequency" \in cfg.strategy.rule
    BY <1>1, <2>1, <2>2 DEF Uncounted
  <2>4. count' = [count EXCEPT ![f] = @ + 1]
    BY <1>1, <2>3 DEF Counted
  <2> QED
    BY <1>7, <2>2, <2>4 DEF IInv, CountersTyped
<1>10. /\ stored[k] + p <= Most
       /\ k.v > version \/ k.window > WindowOf(now) => stored[k] = 0
       /\ k.v = version /\ k.window = WindowOf(now) => stored[k] <= count[k] + o
       /\ k.v = version /\ k.window < WindowOf(now) =>
            count[k] >= MaxMessages \/ stored[k] + p + c <= Most
  BY DEF LimitSound
<1> HIDE DEF p, o, c, Most, IInv, LimitSound, WindowOf, f
<1>11. k.v = version /\ k.window = WindowOf(now) => stored[k] <= count'[k] + o'
  BY <1>4, <1>6, <1>8, <1>9, <1>10
<1>12. count[k] >= MaxMessages => count'[k] >= MaxMessages
  BY <1>6, <1>8, RoomMutesAssumption
<1> QED
  BY <1>1, <1>4, <1>5, <1>10, <1>11, <1>12 DEF LimitSound, p, o, c

(* Time goes on.                                                           *)
LEMMA LimitTick ==
  ASSUME IInv, Tick, NEW k \in Counters, LimitSound(k)
  PROVE  LimitSound(k)'
<1> DEFINE p == Cardinality(PassedSlots(k))
           o == Cardinality(OwedSlots(k))
           c == Cardinality(ComingSlots(k))
<1>1. now' = now + 1 /\ UNCHANGED <<pc, req, version, count, stored>>
  BY DEF Tick
<1>2. p' = p /\ o' = o /\ c' = c /\ Most' = Most /\ WindowOf(now)' = WindowOf(now')
  BY <1>1 DEF PassedSlots, OwedSlots, ComingSlots, Passed, Owed, Coming, WindowOf, Most
<1>3. /\ stored[k] \in Nat /\ count[k] \in Nat /\ k.v \in Nat /\ k.window \in Nat
      /\ version \in Nat /\ now \in Nat
  BY CountersKnown
<1>4. /\ WindowOf(now) \in Nat /\ WindowOf(now') \in Nat /\ WindowOf(now) <= WindowOf(now')
  BY <1>1, <1>3, WindowsInOrder
<1>5. /\ Cardinality(Slots) \in Nat /\ MaxMessages \in Nat
      /\ p \in Nat /\ o \in Nat /\ c \in Nat
      /\ p + o + c <= Cardinality(Slots)
      /\ Most = MaxMessages + Cardinality(Slots) - 1
  BY SlotsFit, RoomMutesAssumption DEF Most
<1>6. /\ stored[k] + p <= Most
      /\ k.v > version \/ k.window > WindowOf(now) => stored[k] = 0
      /\ k.v = version /\ k.window = WindowOf(now) => stored[k] <= count[k] + o
      /\ k.v = version /\ k.window < WindowOf(now) =>
           count[k] >= MaxMessages \/ stored[k] + p + c <= Most
  BY DEF LimitSound
<1> HIDE DEF p, o, c, Most, IInv, LimitSound, WindowOf
<1>7. k.v > version \/ k.window > WindowOf(now') => stored[k] = 0
  BY <1>3, <1>4, <1>6
<1>8. k.v = version /\ k.window = WindowOf(now') => stored[k] <= count[k] + o
  <2>1. CASE k.window = WindowOf(now)
    BY <1>6, <2>1
  <2>2. CASE k.window # WindowOf(now)
    BY <1>3, <1>4, <1>5, <1>6, <2>2
  <2> QED
    BY <2>1, <2>2
<1>9. ASSUME k.v = version, k.window < WindowOf(now'), ~(count[k] >= MaxMessages)
      PROVE  stored[k] + p + c <= Most
  <2>1. CASE k.window < WindowOf(now)
    BY <1>6, <1>9, <2>1
  <2>2. CASE k.window = WindowOf(now)
    <3>1. stored[k] <= count[k] + o /\ count[k] < MaxMessages
      BY <1>3, <1>5, <1>6, <1>9, <2>2
    <3> QED
      BY <1>3, <1>5, <3>1
  <2>3. CASE k.window > WindowOf(now)
    <3>1. stored[k] = 0
      BY <1>6, <2>3
    <3>2. MaxMessages >= 1
      BY RoomMutesAssumption
    <3> QED
      BY <1>3, <1>5, <3>1, <3>2
  <2> QED
    BY <1>3, <1>4, <2>1, <2>2, <2>3
<1> QED
  BY <1>1, <1>2, <1>6, <1>7, <1>8, <1>9 DEF LimitSound, p, o, c

LEMMA LimitsKept ==
  ASSUME IInv, LimitsSound, [Next]_vars
  PROVE  LimitsSound'
<1>1. ASSUME UNCHANGED <<pc, req, stored, count, version, now, disturbed>>
      PROVE  LimitsSound'
  <2>1. \A k : /\ PassedSlots(k)' = PassedSlots(k) /\ OwedSlots(k)' = OwedSlots(k)
               /\ ComingSlots(k)' = ComingSlots(k)
    BY <1>1 DEF PassedSlots, OwedSlots, ComingSlots, Passed, Owed, Coming, WindowOf
  <2>2. WindowOf(now)' = WindowOf(now) /\ Most' = Most
    BY <1>1 DEF WindowOf, Most
  <2> QED
    BY <1>1, <2>1, <2>2 DEF LimitsSound, LimitSound
<1>2. ASSUME NEW h \in Slots, Request(h) PROVE LimitsSound'
  <2>1. disturbed \subseteq disturbed'
    BY <1>2, RequestBegins, BeginKeeps
  <2> QED
    BY <1>2, <2>1, LimitBegins DEF LimitsSound
<1>3. ASSUME NEW h \in Slots, ConfigStep(h) PROVE LimitsSound'
  BY <1>3, LimitConfig, ConfigMoves DEF LimitsSound
<1>4. ASSUME NEW h \in Slots, SendStep(h) PROVE LimitsSound'
  <2> SUFFICES ASSUME "count" \notin disturbed', NEW k \in Counters
               PROVE  LimitSound(k)'
    BY DEF LimitsSound
  <2>1. disturbed \subseteq disturbed'
    BY <1>4 DEF SendStep, CheckMember, CheckConfig, CheckFrequency, StoreMessage, CountMessage,
       Succeeds, Fails
  <2>2. LimitSound(k)
    BY <2>1 DEF LimitsSound
  <2> QED
    BY <1>4, <2>2, LimitCheckMember, LimitCheckConfig, LimitCheckFrequency, LimitStore, LimitCount
       DEF SendStep
<1>5. ASSUME NEW n \in tasks, TaskRuns(n) PROVE LimitsSound'
  BY <1>1, <1>5 DEF TaskRuns, redisVars, bounds
<1>6. CASE Tick
  <2>1. UNCHANGED disturbed
    BY <1>6 DEF Tick
  <2> QED
    BY <1>6, <2>1, LimitTick DEF LimitsSound
<1>7. CASE UNCHANGED vars
  BY <1>1, <1>7 DEF vars, redisVars, bounds
<1> QED
  BY <1>2, <1>3, <1>4, <1>5, <1>6, <1>7 DEF Next

LEMMA LimitsInit == ASSUME Init PROVE LimitsSound
<1> SUFFICES ASSUME NEW k \in Counters PROVE LimitSound(k)
  BY DEF LimitsSound
<1>1. PassedSlots(k) = {} /\ OwedSlots(k) = {} /\ ComingSlots(k) = {}
  BY DEF Init, PassedSlots, OwedSlots, ComingSlots, Passed, Owed, Coming
<1>2. /\ Cardinality(PassedSlots(k)) = 0 /\ Cardinality(OwedSlots(k)) = 0
      /\ Cardinality(ComingSlots(k)) = 0
  BY <1>1, FS_EmptySet
<1>3. stored[k] = 0 /\ count[k] = 0
  BY DEF Init
<1>4. Most \in Nat
  BY SlotsFit, RoomMutesAssumption DEF Most
<1> QED
  BY <1>2, <1>3, <1>4 DEF LimitSound

(* A frequency rule limits: in one window, under one version of the rules, *)
(* no more messages get past isUserOverFrequencyLimit than the rule allows *)
(* plus one for each other request that runs at the same time, for any     *)
(* number of requests, updates, windows and slots.                         *)
THEOREM LimitHoldsAlways == Spec => []LimitHolds
<1>1. IInv /\ LimitsSound => LimitHolds
  <2> SUFFICES ASSUME IInv, LimitsSound, "count" \notin disturbed, NEW k \in Counters
               PROVE  stored[k] <= MaxMessages + Cardinality(Slots) - 1
    BY DEF LimitHolds
  <2> QED
    BY SlotsFit, CountersKnown, RoomMutesAssumption DEF LimitsSound, LimitSound, Most
<1> QED
  BY <1>1, InitHolds, NextKeeps, LimitsInit, LimitsKept, PTL DEF Spec

-----------------------------------------------------------------------------
(* What the room was told. While one request at a time changes the rule,   *)
(* it knows what was told before and announces the difference.             *)

LEMMA SendMoves ==
  ASSUME IInv, NEW h \in Slots, SendStep(h)
  PROVE  /\ \E step, r : SlotMoves(h, step, r) /\ r.op \in {"send", None}
         /\ req[h].op = "send" /\ disturbed \subseteq disturbed'
         /\ UNCHANGED <<cfg, told, muteUntil, tasks, keys, now>>
<1>1. /\ pc[h] \in {"member", "config", "frequency", "store", "count"}
      /\ UNCHANGED <<cfg, told, muteUntil, tasks, keys, now>>
      /\ \/ Leave(h)
         \/ \E step : Goto(h, step) /\ UNCHANGED req
         \/ \E k : Goto(h, "store") /\ req' = [req EXCEPT ![h].key = k]
  BY DEF SendStep, CheckMember, CheckConfig, CheckFrequency, StoreMessage, CountMessage,
     redisVars, bounds, Rejected
<1>2. req[h].op = "send"
  BY <1>1, RequestKnown DEF Sound
<1>3. disturbed \subseteq disturbed'
  BY DEF SendStep, CheckMember, CheckConfig, CheckFrequency, StoreMessage, CountMessage,
     Succeeds, Fails
<1>4. \E step, r : SlotMoves(h, step, r) /\ r.op \in {"send", None}
  <2>1. CASE Leave(h)
    BY <2>1, Leaves, Defaults
  <2>2. ASSUME NEW step, Goto(h, step), UNCHANGED req
        PROVE  SlotMoves(h, step, req[h])
    BY <2>2, Goes DEF IInv
  <2>3. ASSUME NEW k, Goto(h, "store"), req' = [req EXCEPT ![h].key = k]
        PROVE  \E step, r : SlotMoves(h, step, r) /\ r.op \in {"send", None}
    <3> DEFINE r == [req[h] EXCEPT !.key = k]
    <3>1. SlotMoves(h, "store", r)
      BY <2>3 DEF SlotMoves, Goto
    <3>2. req[h] \in Requests
      BY DEF IInv, SlotsTyped
    <3>3. r.op = req[h].op
      BY <3>2 DEF Requests
    <3> HIDE DEF r
    <3> QED
      BY <1>2, <3>1, <3>3
  <2> QED
    BY <1>1, <1>2, <2>1, <2>2, <2>3
<1> QED
  BY <1>1, <1>2, <1>3, <1>4

(* What a changing request knows, step by step: up to its write the rule   *)
(* and what was told agree; after it the room was told of the rule before. *)
Changes(r) == r.op \in {"update", "muteAll"}
AllTold(c, t) == t.all = c.all
OnTold(c, t) == c.on => t.on
AsTold(step, r, c, t) ==
  /\ step = "write" => AllTold(c, t) /\ OnTold(c, t) /\ (r.op = "update" => r.prev = c)
  /\ step \in {"reset", "reread", "announce"} =>
       r.next = c /\ (r.op = "update" => t.all = r.prev.all /\ (r.prev.on => t.on))
  /\ step = "strategy" => r.next = c /\ AllTold(c, t) /\ (r.prev.on => t.on)
  /\ step \in {"start", "end"} => AllTold(c, t) /\ OnTold(c, t)

OneChanges == \A g, h \in Slots : Changes(req[g]) /\ Changes(req[h]) => g = h
ChangesTold == \A h \in Slots : Changes(req[h]) => AsTold(pc[h], req[h], cfg, told)
RestTold == (\A h \in Slots : ~Changes(req[h])) => AllTold(cfg, told) /\ OnTold(cfg, told)
ModesSound == "config" \notin disturbed => OneChanges /\ ChangesTold /\ RestTold

LEMMA ModesQuiet ==
  ASSUME IInv, ModesSound, NEW h \in Slots, NEW step, NEW r, SlotMoves(h, step, r),
         ~Changes(req[h]), ~Changes(r), disturbed \subseteq disturbed',
         cfg' = cfg, told'.all = told.all, told'.on = told.on
  PROVE  ModesSound'
<1> SUFFICES ASSUME "config" \notin disturbed'
             PROVE  (OneChanges /\ ChangesTold /\ RestTold)'
  BY DEF ModesSound
<1>1. OneChanges /\ ChangesTold /\ RestTold
  BY DEF ModesSound
<1>2. /\ req'[h] = r /\ pc'[h] = step
      /\ \A g \in Slots \ {h} : pc'[g] = pc[g] /\ req'[g] = req[g]
  BY Moved DEF IInv
<1>3. \A g \in Slots : Changes(req'[g]) => Changes(req[g]) /\ req'[g] = req[g] /\ pc'[g] = pc[g]
  BY <1>2 DEF Changes
<1>4. (\A g \in Slots : ~Changes(req'[g])) => \A g \in Slots : ~Changes(req[g])
  BY <1>2 DEF Changes
<1>5. OneChanges'
  BY <1>1, <1>3 DEF OneChanges, Changes
<1>6. ChangesTold'
  <2> SUFFICES ASSUME NEW g \in Slots, Changes(req'[g])
               PROVE  AsTold(pc'[g], req'[g], cfg', told')
    BY DEF ChangesTold, Changes, AsTold, AllTold, OnTold
  <2>1. AsTold(pc[g], req[g], cfg, told) /\ pc'[g] = pc[g] /\ req'[g] = req[g]
    BY <1>1, <1>3 DEF ChangesTold
  <2> QED
    BY <2>1 DEF AsTold, AllTold, OnTold
<1>7. RestTold'
  BY <1>1, <1>4 DEF RestTold, Changes, AllTold, OnTold
<1> QED
  BY <1>5, <1>6, <1>7

(* A step of the one request that changes the rule.                        *)
LEMMA ModesStep ==
  ASSUME IInv, OneChanges, NEW h \in Slots, NEW step, NEW r, SlotMoves(h, step, r),
         Changes(req[h]) \/ \A g \in Slots : ~Changes(req[g]),
         Changes(r) => AsTold(step, r, cfg', told'),
         ~Changes(r) => AllTold(cfg', told') /\ OnTold(cfg', told')
  PROVE  ModesSound'
<1>1. /\ req'[h] = r /\ pc'[h] = step
      /\ \A g \in Slots \ {h} : pc'[g] = pc[g] /\ req'[g] = req[g]
  BY Moved DEF IInv
<1>2. \A g \in Slots : Changes(req'[g]) => g = h
  BY <1>1 DEF OneChanges
<1>3. OneChanges'
  BY <1>2 DEF OneChanges, Changes
<1>4. ChangesTold'
  BY <1>1, <1>2 DEF ChangesTold, Changes, AsTold, AllTold, OnTold
<1>5. RestTold'
  BY <1>1 DEF RestTold, Changes, AllTold, OnTold
<1> QED
  BY <1>3, <1>4, <1>5 DEF ModesSound

LEMMA ModesBegin ==
  ASSUME IInv, ModesSound, NEW h \in Slots, Request(h)
  PROVE  ModesSound'
<1>1. PICK r, step : Begins(h, r, step)
  BY RequestBegins
<1>2. /\ SlotMoves(h, step, r) /\ pc[h] = "idle" /\ disturbed' = disturbed \cup Overlapping(r)
  BY <1>1, BeginKeeps
<1>3. req[h] = Idle /\ ~Changes(req[h])
  BY <1>2, Defaults, RoomMutesAssumption DEF IInv, SlotsTyped, Changes, Ops
<1>4. UNCHANGED <<cfg, told>>
  BY <1>1 DEF Begins, Entering
<1>5. CASE ~Changes(r)
  BY <1>2, <1>3, <1>4, <1>5, ModesQuiet
<1>6. CASE Changes(r)
  <2>1. step = "write" /\ (r.op = "update" => r.prev = cfg)
    BY <1>1, <1>6 DEF Begins, Changes
  <2> SUFFICES ASSUME "config" \notin disturbed'
               PROVE  ModesSound'
    BY DEF ModesSound
  <2>2. OneChanges /\ ChangesTold /\ RestTold
    BY <1>2 DEF ModesSound
  <2>3. \A g \in Slots : ~Changes(req[g])
    <3> SUFFICES ASSUME NEW g \in Slots, Changes(req[g])
                 PROVE  "config" \in Overlapping(r)
      BY <1>2
    <3>1. req[g] # Idle
      BY Defaults, RoomMutesAssumption DEF Changes, Ops
    <3>2. pc[g] # "idle"
      BY <3>1 DEF IInv, SlotsTyped
    <3> QED
      BY <1>6, <3>2 DEF Changes, Topic, Overlapping
  <2>4. AllTold(cfg, told) /\ OnTold(cfg, told)
    BY <2>2, <2>3 DEF RestTold
  <2>5. AsTold(step, r, cfg, told)
    BY <2>1, <2>4 DEF AsTold
  <2> QED
    BY <1>2, <1>4, <1>6, <2>2, <2>3, <2>5, ModesStep
<1> QED
  BY <1>5, <1>6

LEMMA ModesConfig ==
  ASSUME IInv, ModesSound, NEW h \in Slots, ConfigStep(h)
  PROVE  ModesSound'
<1>1. pc[h] \in ConfigSteps /\ disturbed \subseteq disturbed'
  BY ConfigMoves
<1>2. /\ req[h] \in Requests /\ Sound(pc[h], req[h]) /\ req[h].next \in Config
      /\ req[h].prev \in Config
  BY <1>1, RequestKnown DEF ConfigSteps
<1>3. CASE TellMute(h)
  <2>1. /\ pc[h] = "tell" /\ cfg' = cfg /\ SlotMoves(h, "idle", Idle)
        /\ told'.all = told.all /\ told'.on = told.on
    BY <1>3, Leaves DEF TellMute, Announce, IInv, RowsTyped
  <2>2. ~Changes(req[h]) /\ ~Changes(Idle)
    BY <1>2, <2>1, Defaults, RoomMutesAssumption DEF Sound, Changes, Ops
  <2> QED
    BY <1>1, <2>1, <2>2, ModesQuiet
<1> SUFFICES ASSUME ~TellMute(h), "config" \notin disturbed'
             PROVE  ModesSound'
  BY <1>3 DEF ModesSound
<1>4. OneChanges /\ ChangesTold
  BY <1>1 DEF ModesSound
<1>5. Changes(req[h])
  BY <1>2 DEF ConfigStep, WriteRule, ResetCounters, Reread, AnnounceMuteAll, AnnounceStrategy,
     ScheduleStart, ScheduleEnd, Sound, Changes
<1>6. AsTold(pc[h], req[h], cfg, told)
  BY <1>4, <1>5 DEF ChangesTold
<1>7. ~Changes(Idle)
  BY Defaults, RoomMutesAssumption DEF Changes, Ops
<1>8. ASSUME Leave(h), AllTold(cfg', told'), OnTold(cfg', told')
      PROVE  ModesSound'
  BY <1>4, <1>5, <1>7, <1>8, Leaves, ModesStep
<1>9. ASSUME NEW step, Goto(h, step), UNCHANGED req, AsTold(step, req[h], cfg', told')
      PROVE  ModesSound'
  <2>1. SlotMoves(h, step, req[h])
    BY <1>9, Goes DEF IInv
  <2> QED
    BY <1>4, <1>5, <1>9, <2>1, ModesStep
<1>10. CASE WriteRule(h)
  <2>1. pc[h] = "write" /\ UNCHANGED told
    BY <1>10 DEF WriteRule
  <2>2. CASE cfg' = req[h].next /\ Goto(h, "reset") /\ UNCHANGED req
    <3>1. AsTold("reset", req[h], cfg', told')
      BY <1>6, <2>1, <2>2 DEF AsTold, AllTold, OnTold
    <3> QED
      BY <1>9, <2>2, <3>1
  <2>3. CASE Leave(h) /\ UNCHANGED cfg
    <3>1. AllTold(cfg', told') /\ OnTold(cfg', told')
      BY <1>6, <2>1, <2>3 DEF AsTold, AllTold, OnTold
    <3> QED
      BY <1>8, <2>3, <3>1
  <2> QED
    BY <1>10, <2>2, <2>3 DEF WriteRule
<1>11. CASE ResetCounters(h)
  <2> DEFINE next == IF req[h].op = "update" THEN "reread" ELSE "announce"
  <2>1. pc[h] = "reset" /\ UNCHANGED <<cfg, told, req>> /\ Goto(h, next)
    BY <1>11 DEF ResetCounters
  <2>2. AsTold(next, req[h], cfg', told')
    BY <1>6, <2>1 DEF AsTold, AllTold, OnTold
  <2> HIDE DEF next
  <2> QED
    BY <1>9, <2>1, <2>2
<1>12. CASE Reread(h)
  <2> DEFINE r == [req[h] EXCEPT !.next = cfg]
  <2>1. pc[h] = "reread" /\ UNCHANGED <<cfg, told>> /\ SlotMoves(h, "announce", r)
    BY <1>12 DEF Reread, Fails, SlotMoves, Goto
  <2>2. r.op = req[h].op /\ r.prev = req[h].prev /\ r.next = cfg
    BY <1>2 DEF Requests
  <2> HIDE DEF r
  <2>3. AsTold("announce", r, cfg', told') /\ Changes(r)
    BY <1>5, <1>6, <2>1, <2>2 DEF AsTold, Changes
  <2> QED
    BY <1>4, <1>5, <2>1, <2>3, ModesStep
<1>13. CASE AnnounceMuteAll(h)
  <2>1. /\ pc[h] = "announce" /\ UNCHANGED cfg
        /\ IF TellsAll(req[h]) THEN told' = [told EXCEPT !.all = req[h].next.all]
           ELSE UNCHANGED told
        /\ IF req[h].op = "muteAll" THEN Leave(h) ELSE Goto(h, "strategy") /\ UNCHANGED req
    BY <1>13 DEF AnnounceMuteAll, Announce, Fails
  <2>2. /\ req[h].next = cfg
        /\ req[h].op = "update" => told.all = req[h].prev.all /\ (req[h].prev.on => told.on)
    BY <1>6, <2>1 DEF AsTold
  <2>3. told'.all = cfg'.all /\ told'.on = told.on
    <3>1. CASE TellsAll(req[h])
      BY <2>1, <2>2, <3>1 DEF IInv, RowsTyped
    <3>2. CASE ~TellsAll(req[h])
      <4>1. req[h].op # "muteAll" /\ req[h].prev.all = req[h].next.all
        BY <3>2 DEF TellsAll
      <4>2. req[h].op = "update"
        BY <1>5, <4>1 DEF Changes
      <4> QED
        BY <2>1, <2>2, <3>2, <4>1, <4>2
    <3> QED
      BY <3>1, <3>2
  <2>4. CASE req[h].op = "muteAll"
    <3>1. ~cfg'.on
      BY <1>2, <2>1, <2>2, <2>4 DEF Sound
    <3> QED
      BY <1>8, <2>1, <2>3, <2>4, <3>1 DEF AllTold, OnTold
  <2>5. CASE req[h].op # "muteAll"
    <3>1. AsTold("strategy", req[h], cfg', told')
      BY <1>5, <2>1, <2>2, <2>3, <2>5 DEF AsTold, AllTold, Changes
    <3> QED
      BY <1>9, <2>1, <2>5, <3>1
  <2> QED
    BY <2>4, <2>5
<1>14. CASE AnnounceStrategy(h)
  <2> DEFINE r == [req[h] EXCEPT !.prev = DefaultConfig]
  <2>1. /\ pc[h] = "strategy" /\ UNCHANGED cfg /\ SlotMoves(h, "start", r)
        /\ IF TellsStrategy(req[h]) THEN told' = [told EXCEPT !.on = req[h].next.on]
           ELSE UNCHANGED told
    BY <1>14 DEF AnnounceStrategy, Announce, Fails, SlotMoves, Goto
  <2>2. req[h].next = cfg /\ told.all = cfg.all /\ (req[h].prev.on => told.on)
    BY <1>6, <2>1 DEF AsTold, AllTold
  <2>3. told'.all = cfg'.all
    BY <2>1, <2>2 DEF IInv, RowsTyped
  <2>4. cfg'.on => told'.on
    <3>1. CASE TellsStrategy(req[h])
      BY <2>1, <2>2, <3>1 DEF IInv, RowsTyped
    <3>2. CASE ~TellsStrategy(req[h])
      BY <2>1, <2>2, <3>2 DEF TellsStrategy
    <3> QED
      BY <3>1, <3>2
  <2>5. r.op = req[h].op
    BY <1>2 DEF Requests
  <2> HIDE DEF r
  <2>6. AsTold("start", r, cfg', told') /\ Changes(r)
    BY <1>5, <2>3, <2>4, <2>5 DEF AsTold, AllTold, OnTold, Changes
  <2> QED
    BY <1>4, <1>5, <2>1, <2>6, ModesStep
<1>15. CASE ScheduleStart(h)
  <2>1. pc[h] = "start" /\ UNCHANGED <<cfg, told, req>> /\ Goto(h, "end")
    BY <1>15 DEF ScheduleStart
  <2>2. AsTold("end", req[h], cfg', told')
    BY <1>6, <2>1 DEF AsTold, AllTold, OnTold
  <2> QED
    BY <1>9, <2>1, <2>2
<1>16. CASE ScheduleEnd(h)
  <2>1. pc[h] = "end" /\ UNCHANGED <<cfg, told>> /\ Leave(h)
    BY <1>16 DEF ScheduleEnd
  <2>2. AllTold(cfg', told') /\ OnTold(cfg', told')
    BY <1>6, <2>1 DEF AsTold, AllTold, OnTold
  <2> QED
    BY <1>8, <2>1, <2>2
<1> QED
  BY <1>10, <1>11, <1>12, <1>13, <1>14, <1>15, <1>16 DEF ConfigStep

LEMMA ModesKept ==
  ASSUME IInv, ModesSound, [Next]_vars
  PROVE  ModesSound'
<1>1. ASSUME UNCHANGED <<pc, req, cfg, told, disturbed>>
      PROVE  ModesSound'
  BY <1>1 DEF ModesSound, OneChanges, ChangesTold, RestTold, Changes, AsTold, AllTold, OnTold
<1>2. ASSUME NEW h \in Slots, SendStep(h) PROVE ModesSound'
  <2>1. PICK step, r : SlotMoves(h, step, r) /\ r.op \in {"send", None}
    BY <1>2, SendMoves
  <2>2. ~Changes(req[h]) /\ ~Changes(r)
    BY <1>2, <2>1, SendMoves, RoomMutesAssumption DEF Changes, Ops
  <2> QED
    BY <1>2, <2>1, <2>2, SendMoves, ModesQuiet
<1>3. ASSUME NEW n \in tasks, TaskRuns(n) PROVE ModesSound'
  BY <1>1, <1>3 DEF TaskRuns, redisVars, bounds
<1>4. CASE Tick
  BY <1>1, <1>4 DEF Tick
<1>5. CASE UNCHANGED vars
  BY <1>1, <1>5 DEF vars
<1> QED
  BY <1>2, <1>3, <1>4, <1>5, ModesBegin, ModesConfig DEF Next

(* The mute of one member: an unmute has reset the row before it tells.    *)
Muting(r, u) == r.op \in {"mute", "unmute"} /\ r.target = u
MuteSound(u) ==
  u \notin disturbed =>
    /\ \A g, h \in Slots : Muting(req[g], u) /\ Muting(req[h], u) => g = h
    /\ \A h \in Slots : Muting(req[h], u) /\ req[h].op = "unmute" => muteUntil[u] = 0
    /\ (\A h \in Slots : ~Muting(req[h], u)) => told.mute[u] = muteUntil[u]

LEMMA MuteQuiet ==
  ASSUME IInv, NEW u \in Speakers, MuteSound(u),
         NEW h \in Slots, NEW step, NEW r, SlotMoves(h, step, r),
         ~Muting(req[h], u), ~Muting(r, u), disturbed \subseteq disturbed',
         told'.mute[u] = told.mute[u], muteUntil'[u] = muteUntil[u]
  PROVE  MuteSound(u)'
<1>1. /\ req'[h] = r /\ \A g \in Slots \ {h} : req'[g] = req[g]
  BY Moved DEF IInv
<1>2. \A g \in Slots : Muting(req'[g], u) => Muting(req[g], u) /\ req'[g] = req[g]
  BY <1>1
<1>3. (\A g \in Slots : ~Muting(req'[g], u)) => \A g \in Slots : ~Muting(req[g], u)
  BY <1>1
<1> SUFFICES ASSUME u \notin disturbed'
             PROVE  /\ \A f, g \in Slots : Muting(req'[f], u) /\ Muting(req'[g], u) => f = g
                    /\ \A g \in Slots : Muting(req'[g], u) /\ req'[g].op = "unmute" =>
                         muteUntil'[u] = 0
                    /\ (\A g \in Slots : ~Muting(req'[g], u)) => told'.mute[u] = muteUntil'[u]
  BY DEF MuteSound, Muting
<1>4. /\ \A f, g \in Slots : Muting(req[f], u) /\ Muting(req[g], u) => f = g
      /\ \A g \in Slots : Muting(req[g], u) /\ req[g].op = "unmute" => muteUntil[u] = 0
      /\ (\A g \in Slots : ~Muting(req[g], u)) => told.mute[u] = muteUntil[u]
  BY DEF MuteSound
<1> QED
  BY <1>2, <1>3, <1>4

LEMMA MuteBegin ==
  ASSUME IInv, NEW u \in Speakers, MuteSound(u), NEW h \in Slots, Request(h)
  PROVE  MuteSound(u)'
<1>1. PICK r, step : Begins(h, r, step)
  BY RequestBegins
<1>2. /\ SlotMoves(h, step, r) /\ pc[h] = "idle" /\ disturbed' = disturbed \cup Overlapping(r)
  BY <1>1, BeginKeeps
<1>3. req[h] = Idle /\ \A v : ~Muting(Idle, v)
  BY <1>2, Defaults, RoomMutesAssumption DEF IInv, SlotsTyped, Muting, Ops
<1>4. UNCHANGED told
  BY <1>1 DEF Begins, Entering
<1>5. CASE ~Muting(r, u)
  <2>1. muteUntil'[u] = muteUntil[u]
    BY <1>1, <1>5 DEF Begins, Muting, IInv, RowsTyped
  <2> QED
    BY <1>2, <1>3, <1>4, <1>5, <2>1, MuteQuiet
<1>6. CASE Muting(r, u)
  <2>1. r.op = "unmute" => muteUntil'[u] = 0
    BY <1>1, <1>6 DEF Begins, Muting, IInv, RowsTyped
  <2>2. ASSUME u \notin disturbed'
        PROVE  \A g \in Slots : ~Muting(req[g], u)
    <3> SUFFICES ASSUME NEW g \in Slots, Muting(req[g], u)
                 PROVE  u \in Overlapping(r)
      BY <1>2, <2>2
    <3>1. pc[g] # "idle"
      BY <1>3 DEF IInv, SlotsTyped
    <3> QED
      BY <1>6, <3>1 DEF Muting, Topic, Overlapping
  <2>3. /\ req'[h] = r /\ \A g \in Slots \ {h} : req'[g] = req[g]
    BY <1>2, Moved DEF IInv
  <2> QED
    BY <1>6, <2>1, <2>2, <2>3 DEF MuteSound, Muting
<1> QED
  BY <1>5, <1>6

LEMMA MuteConfig ==
  ASSUME IInv, NEW u \in Speakers, MuteSound(u), NEW h \in Slots, ConfigStep(h)
  PROVE  MuteSound(u)'
<1>1. pc[h] \in ConfigSteps /\ disturbed \subseteq disturbed'
  BY ConfigMoves
<1>2. req[h] \in Requests /\ Sound(pc[h], req[h])
  BY <1>1, RequestKnown DEF ConfigSteps
<1>3. muteUntil' = muteUntil
  BY DEF ConfigStep, WriteRule, ResetCounters, Reread, AnnounceMuteAll, AnnounceStrategy,
     ScheduleStart, ScheduleEnd, TellMute
<1>4. \A v : ~Muting(Idle, v)
  BY Defaults, RoomMutesAssumption DEF Muting, Ops
<1>5. CASE TellMute(h)
  <2> DEFINE t == req[h].target
             n == IF req[h].op = "mute" THEN muteUntil[t] ELSE 0
  <2>1. /\ pc[h] = "tell" /\ SlotMoves(h, "idle", Idle)
        /\ told' = [told EXCEPT !.mute[t] = n] \/ t \in disturbed'
        /\ told' = [told EXCEPT !.mute[t] = n] \/ UNCHANGED told
    BY <1>5, Leaves DEF TellMute, Announce, Fails
  <2>2. req[h].op \in {"mute", "unmute"} /\ t \in Speakers
    BY <1>2, <2>1 DEF Sound
  <2>3. CASE u # t
    <3>1. told'.mute[u] = told.mute[u]
      BY <2>1, <2>3 DEF IInv, RowsTyped
    <3>2. ~Muting(req[h], u)
      BY <2>3 DEF Muting
    <3> QED
      BY <1>1, <1>3, <1>4, <2>1, <3>1, <3>2, MuteQuiet
  <2>4. CASE u = t
    <3> SUFFICES ASSUME u \notin disturbed'
                 PROVE  MuteSound(u)'
      BY DEF MuteSound
    <3>1. Muting(req[h], u)
      BY <2>2, <2>4 DEF Muting
    <3>2. /\ \A f, g \in Slots : Muting(req[f], u) /\ Muting(req[g], u) => f = g
          /\ req[h].op = "unmute" => muteUntil[u] = 0
      BY <1>1, <3>1 DEF MuteSound
    <3>3. n = muteUntil[u]
      BY <2>2, <2>4, <3>2
    <3>4. told'.mute[u] = muteUntil[u]
      <4>1. told' = [told EXCEPT !.mute[t] = n]
        BY <2>1, <2>4
      <4> HIDE DEF n
      <4> QED
        BY <2>4, <3>3, <4>1 DEF IInv, RowsTyped
    <3>5. \A g \in Slots : ~Muting(req'[g], u)
      <4>1. req'[h] = Idle /\ \A g \in Slots \ {h} : req'[g] = req[g]
        BY <2>1, Moved DEF IInv
      <4> QED
        BY <1>4, <3>1, <3>2, <4>1
    <3> QED
      BY <1>3, <3>4, <3>5 DEF MuteSound, Muting
  <2> QED
    BY <2>3, <2>4
<1>6. CASE ~TellMute(h)
  <2>1. Changes(req[h])
    BY <1>2, <1>6 DEF ConfigStep, WriteRule, ResetCounters, Reread, AnnounceMuteAll,
       AnnounceStrategy, ScheduleStart, ScheduleEnd, Sound, Changes
  <2>2. told'.mute = told.mute
    BY <1>6 DEF ConfigStep, WriteRule, ResetCounters, Reread, AnnounceMuteAll,
       AnnounceStrategy, ScheduleStart, ScheduleEnd, Announce, IInv, RowsTyped
  <2>3. \E step, r : SlotMoves(h, step, r) /\ r.op \in {req[h].op, None}
    <3>1. \/ Leave(h)
          \/ \E step : Goto(h, step) /\ UNCHANGED req
          \/ Goto(h, "announce") /\ req' = [req EXCEPT ![h].next = cfg]
          \/ Goto(h, "start") /\ req' = [req EXCEPT ![h].prev = DefaultConfig]
      BY <1>6 DEF ConfigStep, WriteRule, ResetCounters, Reread, AnnounceMuteAll,
         AnnounceStrategy, ScheduleStart, ScheduleEnd
    <3>2. CASE Leave(h)
      BY <3>2, Leaves, Defaults
    <3>3. ASSUME NEW step, Goto(h, step), UNCHANGED req
          PROVE  SlotMoves(h, step, req[h])
      BY <3>3, Goes DEF IInv
    <3>4. CASE Goto(h, "announce") /\ req' = [req EXCEPT ![h].next = cfg]
      <4> DEFINE r == [req[h] EXCEPT !.next = cfg]
      <4>1. SlotMoves(h, "announce", r) /\ r.op = req[h].op
        BY <1>2, <3>4 DEF SlotMoves, Goto, Requests
      <4> HIDE DEF r
      <4> QED
        BY <4>1
    <3>5. CASE Goto(h, "start") /\ req' = [req EXCEPT ![h].prev = DefaultConfig]
      <4> DEFINE r == [req[h] EXCEPT !.prev = DefaultConfig]
      <4>1. SlotMoves(h, "start", r) /\ r.op = req[h].op
        BY <1>2, <3>5 DEF SlotMoves, Goto, Requests
      <4> HIDE DEF r
      <4> QED
        BY <4>1
    <3> QED
      BY <3>1, <3>2, <3>3, <3>4, <3>5
  <2>4. PICK step, r : SlotMoves(h, step, r) /\ r.op \in {req[h].op, None}
    BY <2>3
  <2>5. ~Muting(req[h], u) /\ ~Muting(r, u)
    BY <2>1, <2>4, RoomMutesAssumption DEF Muting, Changes, Ops
  <2> QED
    BY <1>1, <1>3, <2>2, <2>4, <2>5, MuteQuiet
<1> QED
  BY <1>5, <1>6

LEMMA MuteKept ==
  ASSUME IInv, NEW u \in Speakers, MuteSound(u), [Next]_vars
  PROVE  MuteSound(u)'
<1>1. ASSUME UNCHANGED <<pc, req, muteUntil, told, disturbed>>
      PROVE  MuteSound(u)'
  BY <1>1 DEF MuteSound, Muting
<1>2. ASSUME NEW h \in Slots, SendStep(h) PROVE MuteSound(u)'
  <2>1. PICK step, r : SlotMoves(h, step, r) /\ r.op \in {"send", None}
    BY <1>2, SendMoves
  <2>2. ~Muting(req[h], u) /\ ~Muting(r, u)
    BY <1>2, <2>1, SendMoves, RoomMutesAssumption DEF Muting, Ops
  <2> QED
    BY <1>2, <2>1, <2>2, SendMoves, MuteQuiet
<1>3. ASSUME NEW n \in tasks, TaskRuns(n) PROVE MuteSound(u)'
  BY <1>1, <1>3 DEF TaskRuns, redisVars, bounds
<1>4. CASE Tick
  BY <1>1, <1>4 DEF Tick
<1>5. CASE UNCHANGED vars
  BY <1>1, <1>5 DEF vars
<1> QED
  BY <1>2, <1>3, <1>4, <1>5, MuteBegin, MuteConfig DEF Next

NewsSound == ModesSound /\ \A u \in Speakers : MuteSound(u)

LEMMA NewsKept ==
  ASSUME IInv, NewsSound, [Next]_vars
  PROVE  NewsSound'
BY ModesKept, MuteKept DEF NewsSound

LEMMA NewsInit == ASSUME Init PROVE NewsSound
<1>1. \A h \in Slots : ~Changes(req[h]) /\ \A u : ~Muting(req[h], u)
  BY Defaults, RoomMutesAssumption DEF Init, Changes, Muting, Ops
<1>2. told.all = cfg.all /\ ~cfg.on /\ \A u \in Speakers : told.mute[u] = muteUntil[u]
  BY Defaults DEF Init
<1> QED
  BY <1>1, <1>2 DEF NewsSound, ModesSound, OneChanges, ChangesTold, RestTold, AllTold, OnTold,
     MuteSound

(* What the room was told by createRoomSystemMessageAndNotify is what      *)
(* holds, for any number of requests at a time, unless two that are about  *)
(* the same thing overlapped or an announcement failed.                    *)
THEOREM ModesAnnouncedHolds == Spec => []ModesAnnounced
<1>1. IInv /\ NewsSound => ModesAnnounced
  <2> SUFFICES ASSUME IInv, NewsSound PROVE ModesAnnounced
    OBVIOUS
  <2>1. \A h \in Slots : pc[h] = "idle" => ~Changes(req[h]) /\ \A u : ~Muting(req[h], u)
    BY Defaults, RoomMutesAssumption DEF IInv, SlotsTyped, Changes, Muting, Ops
  <2>2. ASSUME "config" \notin disturbed, Quiet("config")
        PROVE  told.all = cfg.all /\ (cfg.on => told.on)
    <3>1. \A h \in Slots : ~Changes(req[h])
      BY <2>1, <2>2 DEF Quiet, Topic, Changes
    <3> QED
      BY <2>2, <3>1 DEF NewsSound, ModesSound, RestTold, AllTold, OnTold
  <2>3. ASSUME NEW u \in Speakers, u \notin disturbed, Quiet(u)
        PROVE  told.mute[u] = muteUntil[u]
    <3>1. \A h \in Slots : ~Muting(req[h], u)
      BY <2>1, <2>3 DEF Quiet, Topic, Muting
    <3> QED
      BY <2>3, <3>1 DEF NewsSound, MuteSound
  <2> QED
    BY <2>2, <2>3 DEF ModesAnnounced
<1> QED
  BY <1>1, InitHolds, NextKeeps, NewsInit, NewsKept, PTL DEF Spec

-----------------------------------------------------------------------------
(* The notices of a time range. Whoever has written the rule reads it back *)
(* and schedules what it reads; when another has written since, that one   *)
(* will.                                                                   *)

Awaits(n, T, t) == n.at > t => n \in T
StartAwaits(c, T, t) == Awaits(Notice("start", c.strategy.from), T, t)
EndAwaits(c, T, t) == Awaits(Notice("end", c.strategy.to), T, t)

(* An update that will read the row again, or has read what is there now.  *)
OnItsWay(step, r, c, T, t) ==
  /\ r.op = "update"
  /\ \/ step \in {"reset", "reread"}
     \/ step \in {"announce", "strategy", "start"} /\ r.next.strategy = c.strategy
     \/ step = "end" /\ r.next.strategy = c.strategy /\ StartAwaits(c, T, t)

RangeSound(c, T, t) ==
  "range" \in c.strategy.rule =>
    \/ StartAwaits(c, T, t) /\ EndAwaits(c, T, t)
    \/ \E h \in Slots : OnItsWay(pc[h], req[h], c, T, t)
KeysSound == \A n \in keys : Awaits(n, tasks, now)
NoticesSound == "tasks" \notin disturbed => KeysSound /\ RangeSound(cfg, tasks, now)

LEMMA NoticesMove ==
  ASSUME IInv, NoticesSound, NEW h \in Slots, NEW step, NEW r, SlotMoves(h, step, r),
         cfg' = cfg, now' = now, tasks \subseteq tasks', disturbed \subseteq disturbed',
         "tasks" \notin disturbed' => \A n \in keys' \ keys : n \in tasks',
         "tasks" \notin disturbed' /\ KeysSound /\ OnItsWay(pc[h], req[h], cfg, tasks, now) =>
           \/ OnItsWay(step, r, cfg, tasks', now)
           \/ StartAwaits(cfg, tasks', now) /\ EndAwaits(cfg, tasks', now)
  PROVE  NoticesSound'
<1> SUFFICES ASSUME "tasks" \notin disturbed'
             PROVE  KeysSound' /\ RangeSound(cfg, tasks, now)'
  BY DEF NoticesSound
<1>1. KeysSound /\ RangeSound(cfg, tasks, now)
  BY DEF NoticesSound
<1>2. KeysSound'
  BY <1>1 DEF KeysSound, Awaits
<1>3. /\ req'[h] = r /\ pc'[h] = step
      /\ \A g \in Slots \ {h} : pc'[g] = pc[g] /\ req'[g] = req[g]
  BY Moved DEF IInv
<1>4. /\ StartAwaits(cfg, tasks, now) => StartAwaits(cfg, tasks', now)
      /\ EndAwaits(cfg, tasks, now) => EndAwaits(cfg, tasks', now)
  BY DEF StartAwaits, EndAwaits, Awaits
<1>5. ASSUME NEW g \in Slots, OnItsWay(pc[g], req[g], cfg, tasks, now)
      PROVE  \/ OnItsWay(pc'[g], req'[g], cfg, tasks', now)
             \/ StartAwaits(cfg, tasks', now) /\ EndAwaits(cfg, tasks', now)
  <2>1. CASE g = h
    BY <1>1, <1>3, <1>5, <2>1
  <2>2. CASE g # h
    BY <1>3, <1>4, <1>5, <2>2 DEF OnItsWay
  <2> QED
    BY <2>1, <2>2
<1>6. "range" \in cfg.strategy.rule =>
        \/ StartAwaits(cfg, tasks', now) /\ EndAwaits(cfg, tasks', now)
        \/ \E g \in Slots : OnItsWay(pc'[g], req'[g], cfg, tasks', now)
  BY <1>1, <1>4, <1>5 DEF RangeSound
<1>7. RangeSound(cfg, tasks, now)'
  BY <1>6 DEF RangeSound, OnItsWay, StartAwaits, EndAwaits, Awaits
<1> QED
  BY <1>2, <1>7

(* A notice that is scheduled waits for its time.                          *)
LEMMA ScheduleAwaits ==
  ASSUME NEW n, Schedule(n), "tasks" \notin disturbed'
  PROVE  /\ tasks \subseteq tasks' /\ disturbed \subseteq disturbed'
         /\ \A m \in keys' \ keys : m \in tasks'
         /\ KeysSound => Awaits(n, tasks', now)
BY DEF Schedule, ScheduleKey, Fails, Succeeds, KeysSound, Awaits

LEMMA NoticesBegin ==
  ASSUME IInv, NoticesSound, NEW h \in Slots, Request(h)
  PROVE  NoticesSound'
<1>1. PICK r, step : Begins(h, r, step)
  BY RequestBegins
<1>2. /\ SlotMoves(h, step, r) /\ pc[h] = "idle" /\ disturbed \subseteq disturbed'
  BY <1>1, BeginKeeps
<1>3. UNCHANGED <<cfg, now, tasks, keys>>
  BY <1>1 DEF Begins, Entering
<1>4. ~OnItsWay(pc[h], req[h], cfg, tasks, now)
  BY <1>2 DEF OnItsWay
<1> QED
  BY <1>2, <1>3, <1>4, NoticesMove

LEMMA NoticesConfig ==
  ASSUME IInv, NoticesSound, NEW h \in Slots, ConfigStep(h)
  PROVE  NoticesSound'
<1>1. pc[h] \in ConfigSteps /\ disturbed \subseteq disturbed'
  BY ConfigMoves
<1>2. /\ req[h] \in Requests /\ Sound(pc[h], req[h]) /\ req[h].next \in Config
  BY <1>1, RequestKnown DEF ConfigSteps
<1> SUFFICES ASSUME "tasks" \notin disturbed'
             PROVE  NoticesSound'
  BY DEF NoticesSound
<1>3. ASSUME Leave(h), UNCHANGED <<cfg, now, tasks, keys>>,
             ~OnItsWay(pc[h], req[h], cfg, tasks, now)
      PROVE  NoticesSound'
  BY <1>1, <1>3, Leaves, NoticesMove
<1>4. ASSUME NEW step, Goto(h, step), UNCHANGED <<req, cfg, now, tasks, keys>>,
             OnItsWay(pc[h], req[h], cfg, tasks, now) => OnItsWay(step, req[h], cfg, tasks, now)
      PROVE  NoticesSound'
  <2>1. SlotMoves(h, step, req[h])
    BY <1>4, Goes DEF IInv
  <2> QED
    BY <1>1, <1>4, <2>1, NoticesMove
<1>5. CASE WriteRule(h)
  <2>1. pc[h] = "write" /\ UNCHANGED <<now, tasks, keys, disturbed>>
    BY <1>5 DEF WriteRule, redisVars, bounds
  <2>2. CASE cfg' = req[h].next /\ Goto(h, "reset") /\ UNCHANGED req
    <3>1. KeysSound'
      BY <1>1, <2>1 DEF NoticesSound, KeysSound, Awaits
    <3>2. pc'[h] = "reset" /\ req'[h] = req[h]
      BY <2>2, Goes, Moved DEF IInv
    <3>3. CASE req[h].op = "update"
      <4>1. OnItsWay(pc'[h], req'[h], cfg', tasks', now')
        BY <3>2, <3>3 DEF OnItsWay
      <4>2. RangeSound(cfg, tasks, now)'
        BY <4>1 DEF RangeSound, OnItsWay, StartAwaits, Awaits
      <4> QED
        BY <3>1, <4>2 DEF NoticesSound
    <3>4. CASE req[h].op # "update"
      <4>1. "range" \notin cfg'.strategy.rule
        BY <1>2, <2>1, <2>2, <3>4 DEF Sound
      <4> QED
        BY <3>1, <4>1 DEF NoticesSound, RangeSound
    <3> QED
      BY <3>3, <3>4
  <2>3. CASE Leave(h) /\ UNCHANGED cfg
    <3>1. ~OnItsWay(pc[h], req[h], cfg, tasks, now)
      BY <2>1 DEF OnItsWay
    <3> QED
      BY <1>3, <2>1, <2>3, <3>1
  <2> QED
    BY <1>5, <2>2, <2>3 DEF WriteRule
<1>6. CASE ResetCounters(h)
  <2> DEFINE next == IF req[h].op = "update" THEN "reread" ELSE "announce"
  <2>1. Goto(h, next) /\ UNCHANGED <<req, cfg, now, tasks, keys>>
    BY <1>6 DEF ResetCounters
  <2>2. OnItsWay(pc[h], req[h], cfg, tasks, now) => OnItsWay(next, req[h], cfg, tasks, now)
    BY DEF OnItsWay
  <2> HIDE DEF next
  <2> QED
    BY <1>4, <2>1, <2>2
<1>7. CASE Reread(h)
  <2> DEFINE r == [req[h] EXCEPT !.next = cfg]
  <2>1. UNCHANGED <<cfg, now, tasks, keys>> /\ SlotMoves(h, "announce", r)
    BY <1>7 DEF Reread, Fails, SlotMoves, Goto, redisVars
  <2>2. r.op = req[h].op /\ r.next = cfg
    BY <1>2 DEF Requests
  <2> HIDE DEF r
  <2>3. OnItsWay(pc[h], req[h], cfg, tasks, now) => OnItsWay("announce", r, cfg, tasks, now)
    BY <2>2 DEF OnItsWay
  <2> QED
    BY <1>1, <2>1, <2>3, NoticesMove
<1>8. CASE AnnounceMuteAll(h)
  <2>1. /\ pc[h] = "announce" /\ UNCHANGED <<cfg, now, tasks, keys>>
        /\ IF req[h].op = "muteAll" THEN Leave(h) ELSE Goto(h, "strategy") /\ UNCHANGED req
    BY <1>8 DEF AnnounceMuteAll, redisVars
  <2>2. CASE req[h].op = "muteAll"
    <3>1. ~OnItsWay(pc[h], req[h], cfg, tasks, now)
      BY <2>2 DEF OnItsWay
    <3> QED
      BY <1>3, <2>1, <2>2, <3>1
  <2>3. CASE req[h].op # "muteAll"
    <3>1. OnItsWay(pc[h], req[h], cfg, tasks, now) => OnItsWay("strategy", req[h], cfg, tasks, now)
      BY <2>1 DEF OnItsWay
    <3> QED
      BY <1>4, <2>1, <2>3, <3>1
  <2> QED
    BY <2>2, <2>3
<1>9. CASE AnnounceStrategy(h)
  <2> DEFINE r == [req[h] EXCEPT !.prev = DefaultConfig]
  <2>1. /\ pc[h] = "strategy" /\ UNCHANGED <<cfg, now, tasks, keys>> /\ SlotMoves(h, "start", r)
    BY <1>9 DEF AnnounceStrategy, redisVars, SlotMoves, Goto
  <2>2. r.op = req[h].op /\ r.next = req[h].next
    BY <1>2 DEF Requests
  <2> HIDE DEF r
  <2>3. OnItsWay(pc[h], req[h], cfg, tasks, now) => OnItsWay("start", r, cfg, tasks, now)
    BY <2>1, <2>2 DEF OnItsWay
  <2> QED
    BY <1>1, <2>1, <2>3, NoticesMove
<1>10. CASE ScheduleStart(h)
  <2> DEFINE s == req[h].next.strategy
             n == Notice("start", s.from)
  <2>1. /\ pc[h] = "start" /\ Goto(h, "end") /\ UNCHANGED <<req, cfg, now>>
        /\ IF "range" \in s.rule /\ s.from > now THEN Schedule(n)
           ELSE Succeeds /\ UNCHANGED <<keys, tasks>>
    BY <1>10 DEF ScheduleStart
  <2>2. SlotMoves(h, "end", req[h])
    BY <2>1, Goes DEF IInv
  <2>3. tasks \subseteq tasks' /\ \A m \in keys' \ keys : m \in tasks'
    BY <2>1, ScheduleAwaits
  <2>4. CASE "range" \in s.rule
    <3>1. KeysSound => Awaits(n, tasks', now)
      <4>1. CASE s.from > now
        BY <2>1, <2>4, <4>1, ScheduleAwaits
      <4>2. CASE ~(s.from > now)
        BY <4>2 DEF Awaits, Notice
      <4> QED
        BY <4>1, <4>2
    <3>2. KeysSound /\ OnItsWay(pc[h], req[h], cfg, tasks, now) =>
            OnItsWay("end", req[h], cfg, tasks', now)
      BY <2>1, <3>1 DEF OnItsWay, StartAwaits
    <3> QED
      BY <1>1, <2>1, <2>2, <2>3, <3>2, NoticesMove
  <2>5. CASE "range" \notin s.rule
    <3>1. UNCHANGED <<keys, tasks>>
      BY <2>1, <2>5
    <3>2. CASE "range" \in cfg.strategy.rule
      <4>1. ~OnItsWay(pc[h], req[h], cfg, tasks, now)
        BY <2>1, <2>5, <3>2 DEF OnItsWay
      <4> QED
        BY <1>1, <2>1, <2>2, <2>3, <4>1, NoticesMove
    <3>3. CASE "range" \notin cfg.strategy.rule
      <4>1. KeysSound'
        BY <1>1, <2>1, <3>1 DEF NoticesSound, KeysSound, Awaits
      <4> QED
        BY <2>1, <3>3, <4>1 DEF NoticesSound, RangeSound
    <3> QED
      BY <3>2, <3>3
  <2> QED
    BY <2>4, <2>5
<1>11. CASE ScheduleEnd(h)
  <2> DEFINE s == req[h].next.strategy
             n == Notice("end", s.to)
  <2>1. /\ pc[h] = "end" /\ SlotMoves(h, "idle", Idle) /\ UNCHANGED <<cfg, now>>
        /\ IF "range" \in s.rule /\ s.to > now THEN Schedule(n)
           ELSE Succeeds /\ UNCHANGED <<keys, tasks>>
    BY <1>11, Leaves DEF ScheduleEnd
  <2>2. tasks \subseteq tasks' /\ \A m \in keys' \ keys : m \in tasks'
    BY <2>1, ScheduleAwaits
  <2>3. CASE "range" \in s.rule
    <3>1. KeysSound => Awaits(n, tasks', now)
      <4>1. CASE s.to > now
        BY <2>1, <2>3, <4>1, ScheduleAwaits
      <4>2. CASE ~(s.to > now)
        BY <4>2 DEF Awaits, Notice
      <4> QED
        BY <4>1, <4>2
    <3>2. KeysSound /\ OnItsWay(pc[h], req[h], cfg, tasks, now) =>
            StartAwaits(cfg, tasks', now) /\ EndAwaits(cfg, tasks', now)
      <4>1. OnItsWay(pc[h], req[h], cfg, tasks, now) =>
              s = cfg.strategy /\ StartAwaits(cfg, tasks, now)
        BY <2>1 DEF OnItsWay
      <4> QED
        BY <2>2, <3>1, <4>1 DEF StartAwaits, EndAwaits, Awaits
    <3> QED
      BY <1>1, <2>1, <2>2, <3>2, NoticesMove
  <2>4. CASE "range" \notin s.rule
    <3>1. UNCHANGED <<keys, tasks>>
      BY <2>1, <2>4
    <3>2. CASE "range" \in cfg.strategy.rule
      <4>1. ~OnItsWay(pc[h], req[h], cfg, tasks, now)
        BY <2>1, <2>4, <3>2 DEF OnItsWay
      <4> QED
        BY <1>1, <2>1, <2>2, <4>1, NoticesMove
    <3>3. CASE "range" \notin cfg.strategy.rule
      <4>1. KeysSound'
        BY <1>1, <2>1, <3>1 DEF NoticesSound, KeysSound, Awaits
      <4> QED
        BY <2>1, <3>3, <4>1 DEF NoticesSound, RangeSound
    <3> QED
      BY <3>2, <3>3
  <2> QED
    BY <2>3, <2>4
<1>12. CASE TellMute(h)
  <2>1. pc[h] = "tell" /\ Leave(h) /\ UNCHANGED <<cfg, now, tasks, keys>>
    BY <1>12 DEF TellMute, redisVars
  <2>2. ~OnItsWay(pc[h], req[h], cfg, tasks, now)
    BY <2>1 DEF OnItsWay
  <2> QED
    BY <1>3, <2>1, <2>2
<1> QED
  BY <1>5, <1>6, <1>7, <1>8, <1>9, <1>10, <1>11, <1>12 DEF ConfigStep

(* A notice leaves the queue when its time has come.                       *)
LEMMA NoticesPass ==
  ASSUME IInv, NoticesSound, UNCHANGED <<pc, req, cfg, disturbed>>, keys' \subseteq keys,
         now' \in Nat, now <= now', \A n \in tasks \ tasks' : n.at <= now
  PROVE  NoticesSound'
<1> SUFFICES ASSUME "tasks" \notin disturbed'
             PROVE  KeysSound' /\ RangeSound(cfg, tasks, now)'
  BY DEF NoticesSound
<1>1. KeysSound /\ RangeSound(cfg, tasks, now)
  BY DEF NoticesSound
<1>2. now \in Nat /\ cfg \in Config
  BY DEF IInv, BoundsTyped, RowsTyped
<1>3. ASSUME NEW n, n.at \in Nat, Awaits(n, tasks, now)
      PROVE  Awaits(n, tasks', now')
  BY <1>2, <1>3 DEF Awaits
<1>4. KeysSound'
  <2>1. \A n \in keys : n.at \in Nat
    BY DEF IInv, TasksTyped
  <2> QED
    BY <1>1, <1>3, <2>1 DEF KeysSound, Awaits
<1>5. /\ StartAwaits(cfg, tasks, now) => StartAwaits(cfg, tasks', now')
      /\ EndAwaits(cfg, tasks, now) => EndAwaits(cfg, tasks', now')
  <2>1. cfg.strategy.from \in Nat /\ cfg.strategy.to \in Nat
    BY <1>2 DEF Config, Strategy
  <2>2. /\ Notice("start", cfg.strategy.from).at = cfg.strategy.from
        /\ Notice("end", cfg.strategy.to).at = cfg.strategy.to
    BY DEF Notice
  <2> QED
    BY <1>3, <2>1, <2>2 DEF StartAwaits, EndAwaits
<1>6. \A h \in Slots : OnItsWay(pc[h], req[h], cfg, tasks, now) =>
                         OnItsWay(pc[h], req[h], cfg, tasks', now')
  BY <1>5 DEF OnItsWay
<1>7. "range" \in cfg.strategy.rule =>
        \/ StartAwaits(cfg, tasks', now') /\ EndAwaits(cfg, tasks', now')
        \/ \E h \in Slots : OnItsWay(pc[h], req[h], cfg, tasks', now')
  BY <1>1, <1>5, <1>6 DEF RangeSound
<1>8. RangeSound(cfg, tasks, now)'
  BY <1>7 DEF RangeSound, OnItsWay, StartAwaits, EndAwaits, Awaits
<1> QED
  BY <1>4, <1>8

LEMMA NoticesKept ==
  ASSUME IInv, NoticesSound, [Next]_vars
  PROVE  NoticesSound'
<1>1. now \in Nat
  BY DEF IInv, BoundsTyped
<1>2. ASSUME NEW h \in Slots, SendStep(h) PROVE NoticesSound'
  <2>1. PICK step, r : SlotMoves(h, step, r)
    BY <1>2, SendMoves
  <2>2. ~OnItsWay(pc[h], req[h], cfg, tasks, now)
    BY <1>2, SendMoves DEF OnItsWay
  <2> QED
    BY <1>2, <2>1, <2>2, SendMoves, NoticesMove
<1>3. ASSUME NEW n \in tasks, TaskRuns(n) PROVE NoticesSound'
  BY <1>1, <1>3, NoticesPass DEF TaskRuns, redisVars, bounds
<1>4. CASE Tick
  BY <1>1, <1>4, NoticesPass DEF Tick
<1>5. CASE UNCHANGED vars
  BY <1>1, <1>5, NoticesPass DEF vars, redisVars, bounds
<1> QED
  BY <1>2, <1>3, <1>4, <1>5, NoticesBegin, NoticesConfig DEF Next

LEMMA NoticesInit == ASSUME Init PROVE NoticesSound
BY Defaults DEF Init, NoticesSound, KeysSound, RangeSound

(* The start and the end of the strategy that holds are scheduled, however *)
(* many updates overlap (scheduleStrategyMuteTime), unless a task or the   *)
(* row could not be published or read.                                     *)
THEOREM RangeIsScheduledHolds == Spec => []RangeIsScheduled
<1>1. IInv /\ NoticesSound => RangeIsScheduled
  <2> SUFFICES ASSUME IInv, NoticesSound, Quiet("config"), "tasks" \notin disturbed,
                      "range" \in cfg.strategy.rule
               PROVE  /\ cfg.strategy.to > now => Notice("end", cfg.strategy.to) \in tasks
                      /\ cfg.strategy.from > now => Notice("start", cfg.strategy.from) \in tasks
    BY DEF RangeIsScheduled
  <2>1. \A h \in Slots : ~OnItsWay(pc[h], req[h], cfg, tasks, now)
    BY DEF Quiet, Topic, OnItsWay
  <2>2. StartAwaits(cfg, tasks, now) /\ EndAwaits(cfg, tasks, now)
    BY <2>1 DEF NoticesSound, RangeSound
  <2> QED
    BY <2>2 DEF StartAwaits, EndAwaits, Awaits, Notice
<1> QED
  BY <1>1, InitHolds, NextKeeps, NoticesInit, NoticesKept, PTL DEF Spec
=============================================================================
