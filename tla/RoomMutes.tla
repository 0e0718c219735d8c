------------------------------ MODULE RoomMutes ------------------------------
(***************************************************************************)
(* Who may speak in a room (db/query/room_mute.go, the mute handlers of    *)
(* http/handler/room/room.go, the mute check and the frequency count of    *)
(* quic/handler/message_handler.go, the mute tasks of queue/).             *)
(*                                                                         *)
(* A room has one configuration row: everybody muted, or a strategy (a     *)
(* time range, roles and users that may speak, at most MaxMessages in a    *)
(* window), or neither. Members are also muted one by one. The messages a  *)
(* member sends are counted in Redis under a version that each update of   *)
(* the configuration advances. Handlers hold no lock: the configuration    *)
(* is read, written and read again by separate statements, a message is    *)
(* checked long before it is counted, and the notices of a time range are  *)
(* tasks no later update takes back.                                       *)
(***************************************************************************)
EXTENDS Naturals, FiniteSets

CONSTANTS
  Uids, None,
  Role,         \* of every member: "owner", "admin" or "normal"
  Speakers,     \* members that send and are muted one by one
  Slots,        \* requests and sends that run at the same time
  Strategies,   \* the strategies administrators set up
  Durations,    \* of a mute of one member
  MaxMessages,  \* max_messages of every frequency rule
  Window,       \* its interval
  MaxTime, MaxRequests, MaxFailures, \* bounds
  MaxChanges    \* bound: requests that are no sends

Ops == {"update", "muteAll", "mute", "unmute", "send"}

ASSUME RoomMutesAssumption ==
  /\ MaxMessages \in Nat \ {0} /\ Window \in Nat \ {0}
  /\ {MaxTime, MaxRequests, MaxFailures, MaxChanges} \subseteq Nat
  /\ Durations \subseteq Nat \ {0} /\ Speakers \subseteq Uids /\ IsFiniteSet(Slots)
  /\ None \notin Uids \cup Ops /\ {"config", "tasks", "count"} \cap Uids = {}

VARIABLES
  cfg,        \* the room's RoomMuteConfig row
  muteUntil,  \* room_user.mute_until
  version,    \* Redis: room_mute_freq_version
  count,      \* Redis: room_mute_freq, by version, member and window
  keys,       \* Redis: room_mute_strategy_scheduled
  tasks,      \* room:mute:strategy_time tasks that wait for their time
  told,       \* what the last system messages of the room said
  pc, req,    \* the request in a slot
  stored,     \* history: messages stored after a check of count[k]
  disturbed,  \* history: what requests overlapped on or failed half way with
  now, requests, changes, failures

redisVars == <<version, count, keys>>
bounds == <<now, requests, changes, failures>>
vars == <<cfg, muteUntil, redisVars, tasks, told, pc, req, stored, disturbed, bounds>>

Strategy == [rule : SUBSET {"range", "frequency"},
             allow : SUBSET {"owner", "admin", "normal"}, except : SUBSET Uids,
             from : 0..MaxTime, to : 0..MaxTime, start : 0..MaxTime, end : 0..MaxTime]
Config == [all : BOOLEAN, on : BOOLEAN, strategy : Strategy]
NoStrategy == [rule |-> {}, allow |-> {}, except |-> {}, from |-> 0, to |-> 0,
               start |-> 0, end |-> 0]
ASSUME StrategiesAssumption == Strategies \subseteq Strategy

\* the row RoomCreate inserts
DefaultConfig == [all |-> FALSE, on |-> FALSE, strategy |-> NoStrategy]

WindowOf(t) == t \div Window
Counters == [v : 0..MaxChanges, uid : Speakers, window : {WindowOf(t) : t \in 0..MaxTime}]
Counter(u, t) == [v |-> version, uid |-> u, window |-> WindowOf(t)]
MayMute(u) == Role[u] \in {"admin", "owner"}

NoKey == [v |-> 0, uid |-> None, window |-> 0]
Requests == [op : Ops \cup {None}, uid : Uids \cup {None}, target : Speakers \cup {None},
             at : 0..MaxTime, prev : Config, next : Config, key : Counters \cup {NoKey}]
Idle == [op |-> None, uid |-> None, target |-> None, at |-> 0,
         prev |-> DefaultConfig, next |-> DefaultConfig, key |-> NoKey]
Steps == {"idle", "write", "reset", "reread", "announce", "strategy", "start",
          "end", "tell", "member", "config", "frequency", "store", "count"}

Init ==
  /\ cfg = DefaultConfig /\ muteUntil = [u \in Speakers |-> 0]
  /\ version = 0 /\ count = [k \in Counters |-> 0] /\ keys = {} /\ tasks = {}
  /\ told = [all |-> FALSE, on |-> FALSE, mute |-> [u \in Speakers |-> 0]]
  /\ pc = [h \in Slots |-> "idle"] /\ req = [h \in Slots |-> Idle]
  /\ stored = [k \in Counters |-> 0] /\ disturbed = {}
  /\ now = 0 /\ requests = 0 /\ changes = 0 /\ failures = 0

-----------------------------------------------------------------------------
(* The whole configuration: RoomMuteConfigUpdate and RoomMuteAll.          *)

\* What a request is about: the configuration, or the mute of one member.
Topic(r) == IF r.op \in {"update", "muteAll"} THEN {"config"}
            ELSE IF r.op \in {"mute", "unmute"} THEN {r.target} ELSE {}
Overlapping(r) ==
  {t \in Topic(r) : \E h \in Slots : pc[h] # "idle" /\ t \in Topic(req[h])}

Enter(h, r, step) ==
  /\ pc[h] = "idle" /\ requests < MaxRequests /\ requests' = requests + 1
  /\ changes' = changes + Cardinality(Topic(r)) /\ changes' <= MaxChanges
  /\ pc' = [pc EXCEPT ![h] = step] /\ req' = [req EXCEPT ![h] = r]
  /\ disturbed' = disturbed \cup Overlapping(r)
Goto(h, step) == pc' = [pc EXCEPT ![h] = step]
Leave(h) == Goto(h, "idle") /\ req' = [req EXCEPT ![h] = Idle]

\* A system message, a task or a call of Redis may fail with the handler going on;
\* what it was about is then not announced, scheduled or counted.
Fails(topics) ==
  /\ failures < MaxFailures /\ failures' = failures + 1
  /\ disturbed' = disturbed \cup topics
Succeeds == UNCHANGED <<failures, disturbed>>

\* Faulty: the two switches as the body has them.
ExclusiveAsAsked(all, on, s) == [all |-> all, on |-> on, strategy |-> s]

\* "Mutual exclusion: mute-all and strategy cannot both be on": mute-all wins.
Exclusive(all, on, s) == [all |-> all, on |-> on /\ ~all, strategy |-> s]

\* RoomMuteConfigUpdate up to its UPDATE: reads the row, checks the body
UpdateRequest(h, u, all, on, s) ==
  /\ MayMute(u)
  /\ s.from > 0 /\ s.to > 0 => s.from <= s.to
  /\ Enter(h, [Idle EXCEPT !.op = "update", !.uid = u, !.prev = cfg,
                           !.next = Exclusive(all, on, s)], "write")
  /\ UNCHANGED <<cfg, muteUntil, redisVars, tasks, told, stored, now, failures>>

\* SetRoomMuteAll clears the strategy; only administrators speak
MuteAllRule(mute) ==
  [all |-> mute, on |-> FALSE,
   strategy |-> [NoStrategy EXCEPT !.allow = {"admin", "owner"}, !.from = now]]

MuteAllRequest(h, u, mute) ==
  /\ MayMute(u)
  /\ Enter(h, [Idle EXCEPT !.op = "muteAll", !.uid = u,
                           !.next = MuteAllRule(mute)], "write")
  /\ UNCHANGED <<cfg, muteUntil, redisVars, tasks, told, stored, now, failures>>

\* SetRoomMuteConfigRule: one UPDATE of the whole row, which may fail
WriteRule(h) ==
  /\ pc[h] = "write"
  /\ \/ cfg' = req[h].next /\ Goto(h, "reset") /\ UNCHANGED req
     \/ Leave(h) /\ UNCHANGED cfg
  /\ UNCHANGED <<muteUntil, redisVars, tasks, told, stored, disturbed, bounds>>

\* ResetRoomMuteFrequencyCount: the counters of older versions are forgotten
ResetCounters(h) ==
  /\ pc[h] = "reset"
  /\ \/ version' = version + 1 /\ Succeeds
     \/ Fails({}) /\ UNCHANGED version
  /\ Goto(h, IF req[h].op = "update" THEN "reread" ELSE "announce")
  /\ UNCHANGED <<cfg, muteUntil, count, keys, tasks, told, req, stored, now, requests, changes>>

\* RoomMuteConfigUpdate announces and schedules what the row says now, or
\* nothing when it cannot read it
Reread(h) ==
  /\ pc[h] = "reread"
  /\ \/ req' = [req EXCEPT ![h].next = cfg] /\ Goto(h, "announce") /\ Succeeds
     \/ Fails({"config", "tasks"}) /\ Leave(h)
  /\ UNCHANGED <<cfg, muteUntil, redisVars, tasks, told, stored, now, requests, changes>>

\* createRoomSystemMessageAndNotify: several statements, whose errors are dropped
Announce(topics, news) ==
  \/ told' = news /\ Succeeds
  \/ Fails(topics) /\ UNCHANGED told

TellsAll(r) == \/ r.op = "muteAll"
               \/ r.prev.all # r.next.all
AnnounceMuteAll(h) ==
  /\ pc[h] = "announce"
  /\ IF TellsAll(req[h])
     THEN Announce({"config"}, [told EXCEPT !.all = req[h].next.all])
     ELSE Succeeds /\ UNCHANGED told
  /\ IF req[h].op = "muteAll" THEN Leave(h) ELSE Goto(h, "strategy") /\ UNCHANGED req
  /\ UNCHANGED <<cfg, muteUntil, redisVars, tasks, stored, now, requests, changes>>

\* Faulty: a strategy is announced when it ends or changes only.
TellsStrategyOnce(r) == r.prev.on /\ r.prev # r.next

\* The strategy was switched on or off, or an active one was changed.
TellsStrategy(r) ==
  \/ r.prev.on # r.next.on
  \/ r.next.on /\ r.prev.strategy # r.next.strategy
AnnounceStrategy(h) ==
  /\ pc[h] = "strategy"
  /\ IF TellsStrategy(req[h])
     THEN Announce({"config"}, [told EXCEPT !.on = req[h].next.on])
     ELSE Succeeds /\ UNCHANGED told
  /\ Goto(h, "start") /\ req' = [req EXCEPT ![h].prev = DefaultConfig] \* read no more
  /\ UNCHANGED <<cfg, muteUntil, redisVars, tasks, stored, now, requests, changes>>

Notice(kind, t) == [kind |-> kind, at |-> t]
\* Faulty: the key names the time and not the kind.
ScheduleKeyOfTime(n) == [n EXCEPT !.kind = "start"]

\* A task is published once per time: the SETNX key names the time.
ScheduleKey(n) == n
Schedule(n) ==
  IF ScheduleKey(n) \in keys THEN Succeeds /\ UNCHANGED <<keys, tasks>>
  ELSE /\ keys' = keys \cup {ScheduleKey(n)}
       /\ \/ tasks' = tasks \cup {n} /\ Succeeds
          \/ Fails({"tasks"}) /\ UNCHANGED tasks

\* scheduleStrategyMuteTime: the start; a start that is past is told at once
ScheduleStart(h) ==
  /\ pc[h] = "start"
  /\ LET s == req[h].next.strategy IN
       IF "range" \in s.rule /\ s.from > now
       THEN Schedule(Notice("start", s.from))
       ELSE Succeeds /\ UNCHANGED <<keys, tasks>>
  /\ Goto(h, "end")
  /\ UNCHANGED <<cfg, muteUntil, version, count, told, req, stored, now, requests, changes>>

\* scheduleStrategyMuteTime: the end, unless it is past
ScheduleEnd(h) ==
  /\ pc[h] = "end"
  /\ LET s == req[h].next.strategy IN
       IF "range" \in s.rule /\ s.to > now
       THEN Schedule(Notice("end", s.to))
       ELSE Succeeds /\ UNCHANGED <<keys, tasks>>
  /\ Leave(h)
  /\ UNCHANGED <<cfg, muteUntil, version, count, told, stored, now, requests, changes>>

\* HandleRoomMuteStrategyTime: the message of the task, whatever the row says
TaskRuns(n) ==
  /\ n \in tasks /\ n.at <= now
  /\ tasks' = tasks \ {n}
  /\ UNCHANGED <<cfg, muteUntil, redisVars, told, pc, req, stored, disturbed, bounds>>

-----------------------------------------------------------------------------
(* One member: RoomMute and RoomUnmute.                                    *)

MuteRequest(h, op, u, target, d) ==
  /\ op \in {"mute", "unmute"} /\ MayMute(u)
  /\ muteUntil' = [muteUntil EXCEPT ![target] = IF op = "mute" THEN now + d ELSE 0]
  /\ Enter(h, [Idle EXCEPT !.op = op, !.uid = u, !.target = target], "tell")
  /\ UNCHANGED <<cfg, redisVars, tasks, told, stored, now, failures>>

\* RoomMute reads the member again for the message, RoomUnmute announces 0
TellMute(h) ==
  /\ pc[h] = "tell"
  /\ LET t == req[h].target IN
       Announce({t}, [told EXCEPT !.mute[t] =
                        IF req[h].op = "mute" THEN muteUntil[t] ELSE 0])
  /\ Leave(h)
  /\ UNCHANGED <<cfg, muteUntil, redisVars, tasks, stored, now, requests, changes>>

-----------------------------------------------------------------------------
(* Sending: IsUserMutedInRoom, then the message, then the count.           *)

SendRequest(h, u) ==
  /\ Enter(h, [Idle EXCEPT !.op = "send", !.uid = u, !.at = now], "member")
  /\ UNCHANGED <<cfg, muteUntil, redisVars, tasks, told, stored, now, failures>>

Rejected(h) == Leave(h)

CheckMember(h) ==
  /\ pc[h] = "member"
  /\ IF muteUntil[req[h].uid] > req[h].at THEN Rejected(h)
     ELSE Goto(h, "config") /\ UNCHANGED req
  /\ UNCHANGED <<cfg, muteUntil, redisVars, tasks, told, stored, disturbed, bounds>>

\* isMuteRuleWindowActive and the effective and expiry times of the row; 0 is unset
Within(from, to, t) == (from > 0 => t >= from) /\ (to > 0 => t <= to)
InForce(c, t) ==
  /\ c.on /\ ~c.all
  /\ "range" \in c.strategy.rule =>
       /\ Within(c.strategy.from, c.strategy.to, t)
       /\ Within(c.strategy.start, c.strategy.end, t)
MaySpeak(c, u, t) ==
  /\ c.all => MayMute(u)
  /\ InForce(c, t) => u \in c.strategy.except \/ Role[u] \in c.strategy.allow
Limited(c, t) == InForce(c, t) /\ "frequency" \in c.strategy.rule

CheckConfig(h) ==
  /\ pc[h] = "config"
  /\ IF ~MaySpeak(cfg, req[h].uid, req[h].at) THEN Rejected(h)
     ELSE /\ Goto(h, IF Limited(cfg, req[h].at) THEN "frequency" ELSE "store")
          /\ UNCHANGED req
  /\ UNCHANGED <<cfg, muteUntil, redisVars, tasks, told, stored, disturbed, bounds>>

\* Faulty: one message more.
OverLimitBeyond(k) == count[k] > MaxMessages

\* isUserOverFrequencyLimit, in the window of the time the check began; a member
\* whose counter cannot be read is not limited
OverLimit(k) == count[k] >= MaxMessages
CheckFrequency(h) ==
  /\ pc[h] = "frequency"
  /\ LET k == Counter(req[h].uid, req[h].at) IN
       \/ OverLimit(k) /\ Rejected(h) /\ Succeeds
       \/ ~OverLimit(k) /\ Succeeds /\ Goto(h, "store")
          /\ req' = [req EXCEPT ![h].key = k]
       \/ Fails({"count"}) /\ Goto(h, "store") /\ UNCHANGED req
  /\ UNCHANGED <<cfg, muteUntil, redisVars, tasks, told, stored, now, requests, changes>>

\* the transaction of the message (RoomSend), which may fail
StoreMessage(h) ==
  /\ pc[h] = "store"
  /\ \/ /\ stored' = IF req[h].key = NoKey THEN stored
                     ELSE [stored EXCEPT ![req[h].key] = @ + 1]
        /\ Goto(h, "count") /\ UNCHANGED req
     \/ Leave(h) /\ UNCHANGED stored
  /\ UNCHANGED <<cfg, muteUntil, redisVars, tasks, told, disturbed, bounds>>

\* IncrRoomMessageFrequencyCount asks for the rule, not whether it is in force
Counted(u, t) ==
  IF "frequency" \in cfg.strategy.rule
  THEN [count EXCEPT ![Counter(u, t)] = @ + 1] ELSE count
\* the rule a message was checked under is off now, its counter still in use
Uncounted(r) == r.key = Counter(r.uid, now) /\ "frequency" \notin cfg.strategy.rule
CountMessage(h) ==
  /\ pc[h] = "count"
  /\ \/ /\ count' = Counted(req[h].uid, now) /\ UNCHANGED failures
        /\ disturbed' = disturbed \cup IF Uncounted(req[h]) THEN {"count"} ELSE {}
     \/ Fails({"count"}) /\ UNCHANGED count
  /\ Leave(h)
  /\ UNCHANGED <<cfg, muteUntil, version, keys, tasks, told, stored, now, requests, changes>>

\* Time goes on; keys of times that are past expire.
Tick ==
  /\ now < MaxTime /\ now' = now + 1
  /\ keys' = {k \in keys : k.at >= now}
  /\ UNCHANGED <<cfg, muteUntil, version, count, tasks, told, pc, req, stored,
                 disturbed, requests, changes, failures>>

Request(h) == \E u \in Uids :
  \/ \E all, on \in BOOLEAN, s \in Strategies : UpdateRequest(h, u, all, on, s)
  \/ \E mute \in BOOLEAN : MuteAllRequest(h, u, mute)
  \/ \E op \in {"mute", "unmute"}, target \in Speakers, d \in Durations :
       MuteRequest(h, op, u, target, d)
  \/ u \in Speakers /\ SendRequest(h, u)

ConfigStep(h) ==
  \/ WriteRule(h) \/ ResetCounters(h) \/ Reread(h) \/ AnnounceMuteAll(h)
  \/ AnnounceStrategy(h) \/ ScheduleStart(h) \/ ScheduleEnd(h) \/ TellMute(h)
SendStep(h) ==
  \/ CheckMember(h) \/ CheckConfig(h) \/ CheckFrequency(h)
  \/ StoreMessage(h) \/ CountMessage(h)

Next ==
  \/ \E h \in Slots : Request(h) \/ ConfigStep(h) \/ SendStep(h)
  \/ \E n \in tasks : TaskRuns(n)
  \/ Tick
Spec == Init /\ [][Next]_vars

-----------------------------------------------------------------------------
(* Properties.                                                             *)

TypeOK ==
  /\ cfg \in Config /\ ~(cfg.all /\ cfg.on)
  /\ muteUntil \in [Speakers -> Nat]
  /\ version \in 0..MaxChanges /\ count \in [Counters -> Nat] /\ stored \in [Counters -> Nat]
  /\ tasks \cup keys \subseteq [kind : {"start", "end"}, at : 0..MaxTime]
  /\ told \in [all : BOOLEAN, on : BOOLEAN, mute : [Speakers -> Nat]]
  /\ pc \in [Slots -> Steps] /\ req \in [Slots -> Requests]
  /\ \A h \in Slots : pc[h] = "idle" <=> req[h] = Idle
  /\ disturbed \subseteq Uids \cup {"config", "tasks", "count"}
  /\ now \in 0..MaxTime /\ requests \in 0..MaxRequests /\ changes \in 0..MaxChanges
  /\ failures \in 0..MaxFailures

\* A frequency rule is a limit: in one window, under one version of the rules,
\* a member gets past the check at most once more than allowed for each other
\* send that runs at the same time, although messages are counted long after
\* they were checked, in another window or under a version an update has just
\* begun. More may pass only when a call of Redis fails, or when the rule is taken
\* away between a message's check and its count.
LimitHolds ==
  "count" \notin disturbed => \A k \in Counters : stored[k] <= MaxMessages + Cardinality(Slots) - 1

Quiet(topic) == \A h \in Slots : pc[h] = "idle" \/ topic \notin Topic(req[h])

\* What the room was told is what holds, once the requests are over, unless two
\* of them overlapped or an announcement failed: whether all are muted, that a
\* strategy is on, until when a member is muted.
ModesAnnounced ==
  /\ "config" \notin disturbed /\ Quiet("config") =>
       told.all = cfg.all /\ (cfg.on => told.on)
  /\ \A u \in Speakers : u \notin disturbed /\ Quiet(u) => told.mute[u] = muteUntil[u]

\* The end of the strategy that holds will be told: however updates overlapped
\* and whatever was scheduled before, its task waits for it, unless publishing
\* a task failed. The same for a start that is still to come.
RangeIsScheduled ==
  LET s == cfg.strategy IN
    Quiet("config") /\ "tasks" \notin disturbed /\ "range" \in s.rule =>
      /\ s.to > now => Notice("end", s.to) \in tasks
      /\ s.from > now => Notice("start", s.from) \in tasks

=============================================================================
