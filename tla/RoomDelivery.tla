---------------------------- MODULE RoomDelivery ----------------------------
(***************************************************************************)
(* How a stored room message reaches the room's members, and how its       *)
(* withdrawal does (notifycoord/, push/, quic/server/event.go,             *)
(* queue/handlers.go, quic/handler/message_handler.go): the ack rows are   *)
(* written, an envelope is published to the node Redis names for each      *)
(* member, that node's subscriber writes the frame and leaves an ack-check *)
(* task; a client that comes online is sent the rows still unacknowledged. *)
(*                                                                         *)
(* One room whose members are Users. The database row of a message, its    *)
(* ack rows, the presence keys and both task queues are shared by all      *)
(* nodes; a node's channel and its subscriber goroutine are its own.       *)
(***************************************************************************)
EXTENDS Naturals, Sequences, FiniteSets, Functions

CONSTANTS
  Nodes,         \* message nodes
  Users,         \* members of the room
  Mids,          \* messages
  None,          \* nil / the empty string
  Sender,        \* Sender[m]: sender_uid
  SeqId,         \* SeqId[m]: seq_id
  UnreadLimit,   \* rows pushUnreadMessages asks for (15 in the code)
  AckMaxRetries, \* AckMaxRetries (3 in the code)
  MayWithdraw,   \* messages somebody may withdraw
  MayBlock,      \* members who may block a sender
  MayConnect,    \* members who ever come online
  MayLose,       \* nodes whose channel may drop an envelope
  DbOutcomes     \* outcomes of the ack-row transaction: subset of BOOLEAN

ASSUME ConstantsAssumption ==
  /\ IsFiniteSet(Mids)
  /\ Sender \in [Mids -> Users]
  /\ SeqId \in [Mids -> Nat]
  /\ \A m, k \in Mids : SeqId[m] = SeqId[k] => m = k
  /\ UnreadLimit \in Nat \ {0} /\ AckMaxRetries \in Nat \ {0}
  /\ None \notin Nodes \cup Users \cup Mids
  /\ MayWithdraw \subseteq Mids /\ MayBlock \subseteq Users
  /\ MayConnect \subseteq Users
  /\ MayLose \subseteq Nodes /\ DbOutcomes \subseteq BOOLEAN

VARIABLES
  msg,       \* room_message row: "none", "stored" or "withdrawn"
  ack,       \* room_message_ack row of a member
  wack,      \* room_message_withdraw_ack row of a member
  blocked,   \* blocked[u]: senders u has blocked in the room
  nt,        \* progress of HandlerRoomMessage for the message
  recips,    \* recipients PrepareRoomMessageNotify computed
  wt,        \* progress of HandlerRoomMessageWithdraw
  channel,   \* channel[n]: Redis channel quic:push:<n>
  job,       \* job[n]: the envelope n's subscriber goroutine works on
  tasks,     \* asynq tasks: ack checks and resends
  checking,  \* ack checks that have read their row and not acted yet
  node,      \* node[u]: the node whose registry holds u's client
  ready,     \* ready[u]: that client's message stream has its handler
  presence,  \* Redis quic:presence:<u>
  online,    \* online[u]: the pushUnread* part of u's onClientOnline goroutine
  inbox,     \* frames written to u's stream, not read by the client
  acks       \* acks[u]: ack frames of u's client, not handled yet

dbVars   == <<msg, ack, wack, blocked>>
fanVars  == <<nt, recips, wt>>
nodeVars == <<channel, job>>
taskVars == <<tasks, checking>>
connVars == <<node, ready, presence, online, inbox, acks>>
vars == <<dbVars, fanVars, nodeVars, taskVars, connVars>>

AckStates == {"absent", "pending", "received", "timedout"}
NotifyStages == {"idle", "prepare", "acks", "fanout", "done"}
OnlineStages == {"idle", "read", "send", "wread", "wsend"}

Envelope(k, m, us) == [kind |-> k, m |-> m, to |-> us]
Frame(k, m) == [kind |-> k, m |-> m]
Task(k, m, u, r) == [kind |-> k, m |-> m, u |-> u, retry |-> r]

Envelopes == [kind : {"deliver", "withdraw", "resend"}, m : Mids, to : SUBSET Users]
Frames == [kind : {"msg", "wd"}, m : Mids]

ASSUME NoneIsNoEnvelope == None \notin Envelopes

Tasks == [kind : {"check", "resend", "wcheck", "wresend"}, m : Mids, u : Users,
          retry : 0 .. AckMaxRetries]

\* handlers[0] of a client whose message stream was accepted on node n
GetClientByUid(n, u) == node[u] = n
CanSend(n, u) == GetClientByUid(n, u) /\ ready[u]

Write(u, f) == inbox' = [inbox EXCEPT ![u] = Append(@, f)]

\* PublishEnvelope: one channel per node, only that node's subscriber reads it
Publish(n, e) == channel' = [channel EXCEPT ![n] = Append(@, e)]

\* GroupUidsByNode and one publish per node
Fanout(kind, m, us) ==
  channel' = [n \in Nodes |->
    LET mine == {u \in us : presence[u] = n}
    IN IF mine = {} THEN channel[n] ELSE Append(channel[n], Envelope(kind, m, mine))]

Init ==
  /\ msg = [m \in Mids |-> "none"]
  /\ ack = [m \in Mids |-> [u \in Users |-> "absent"]]
  /\ wack = [m \in Mids |-> [u \in Users |-> "absent"]]
  /\ blocked = [u \in Users |-> {}]
  /\ nt = [m \in Mids |-> "idle"]
  /\ recips = [m \in Mids |-> {}]
  /\ wt = [m \in Mids |-> "idle"]
  /\ channel = [n \in Nodes |-> <<>>]
  /\ job = [n \in Nodes |-> None]
  /\ tasks = {} /\ checking = {}
  /\ node = [u \in Users |-> None]
  /\ ready = [u \in Users |-> FALSE]
  /\ presence = [u \in Users |-> None]
  /\ online = [u \in Users |-> [at |-> "idle", batch |-> <<>>]]
  /\ inbox = [u \in Users |-> <<>>]
  /\ acks = [u \in Users |-> {}]

(***************************************************************************)
(* Storing, notifying and withdrawing a message                            *)
(***************************************************************************)
\* handlerRoomMessage commits and publishes EventRoomMessage; two messages may
\* be committed in the other order than their seq ids were handed out
StoreMessage(m) ==
  /\ msg[m] = "none"
  /\ msg' = [msg EXCEPT ![m] = "stored"]
  /\ nt' = [nt EXCEPT ![m] = "prepare"]
  /\ UNCHANGED <<ack, wack, blocked, recips, wt, nodeVars, taskVars, connVars>>

\* Mutant of Recipients: an empty uid of the member list is not skipped
RecipientsWithEmptyUid(m) ==
  {u \in Users \ {Sender[m]} : Sender[m] \notin blocked[u]} \cup {None}

\* filterRoomRecipients, and the members who blocked the sender
Recipients(m) == {u \in Users \ {Sender[m]} : Sender[m] \notin blocked[u]}

\* PrepareRoomMessageNotify reads the message and computes the recipients
PrepareRoomMessageNotify(m) ==
  /\ nt[m] = "prepare"
  /\ LET go == msg[m] = "stored" /\ Recipients(m) # {}
     IN /\ nt' = [nt EXCEPT ![m] = IF go THEN "acks" ELSE "done"]
        /\ recips' = [recips EXCEPT ![m] = IF go THEN Recipients(m) ELSE {}]
  /\ UNCHANGED <<dbVars, wt, nodeVars, taskVars, connVars>>

\* ... and writes one ack row per recipient in one transaction
CreateAcks(m) ==
  /\ nt[m] = "acks"
  /\ \E ok \in DbOutcomes :
       /\ nt' = [nt EXCEPT ![m] = IF ok THEN "fanout" ELSE "done"]
       /\ ack' = IF ok
                 THEN [ack EXCEPT ![m] = [u \in Users |->
                         IF u \in recips[m] THEN "pending" ELSE @[u]]]
                 ELSE ack
  /\ UNCHANGED <<msg, wack, blocked, recips, wt, nodeVars, taskVars, connVars>>

MayFanout(m) == nt[m] = "fanout"

FanoutRoomMessageDelivery(m) ==
  /\ MayFanout(m)
  /\ Fanout("deliver", m, recips[m])
  /\ nt' = [nt EXCEPT ![m] = "done"]
  /\ UNCHANGED <<dbVars, recips, wt, job, taskVars, connVars>>

\* handlerRoomMessageWithdrawRequest commits and publishes the event
WithdrawMessage(m) ==
  /\ m \in MayWithdraw /\ msg[m] = "stored"
  /\ msg' = [msg EXCEPT ![m] = "withdrawn"]
  /\ wt' = [wt EXCEPT ![m] = "prepare"]
  /\ UNCHANGED <<ack, wack, blocked, nt, recips, nodeVars, taskVars, connVars>>

\* PrepareRoomMessageWithdraw: a withdraw row for every member
PrepareRoomMessageWithdraw(m) ==
  /\ wt[m] = "prepare"
  /\ \E ok \in DbOutcomes :
       /\ wt' = [wt EXCEPT ![m] = IF ok THEN "fanout" ELSE "done"]
       /\ wack' = IF ok THEN [wack EXCEPT ![m] = [u \in Users |-> "pending"]] ELSE wack
  /\ UNCHANGED <<msg, ack, blocked, nt, recips, nodeVars, taskVars, connVars>>

FanoutRoomWithdrawDelivery(m) ==
  /\ wt[m] = "fanout"
  /\ Fanout("withdraw", m, Users)
  /\ wt' = [wt EXCEPT ![m] = "done"]
  /\ UNCHANGED <<dbVars, nt, recips, job, taskVars, connVars>>

BlockSender(u, s) ==
  /\ u \in MayBlock /\ u # s /\ s \notin blocked[u]
  /\ blocked' = [blocked EXCEPT ![u] = @ \cup {s}]
  /\ UNCHANGED <<msg, ack, wack, fanVars, nodeVars, taskVars, connVars>>

(***************************************************************************)
(* A node's subscriber goroutine: one envelope at a time                   *)
(***************************************************************************)
\* What GetRoomMessageByMid returns: nil for a withdrawn message
Readable(m) == msg[m] = "stored"

\* Subscriber.Run takes an envelope; the deliver handlers first read the message
Dispatch(n) ==
  /\ job[n] = None /\ channel[n] # <<>>
  /\ LET e == Head(channel[n])
     IN job' = [job EXCEPT ![n] =
                  IF e.kind = "deliver" /\ ~Readable(e.m) THEN None ELSE e]
  /\ channel' = [channel EXCEPT ![n] = Tail(@)]
  /\ UNCHANGED <<dbVars, fanVars, taskVars, connVars>>

\* Redis pub/sub keeps nothing for a subscriber that is not connected
LoseEnvelope(n) ==
  /\ n \in MayLose /\ channel[n] # <<>>
  /\ channel' = [channel EXCEPT ![n] = Tail(@)]
  /\ UNCHANGED <<dbVars, fanVars, job, taskVars, connVars>>

FrameOf(e) == Frame(IF e.kind = "withdraw" THEN "wd" ELSE "msg", e.m)

\* the ack-check task left behind by a frame that was written
CheckFor(e, u) ==
  CASE e.kind = "deliver"  -> {Task("check", e.m, u, 0)}
    [] e.kind = "withdraw" -> {Task("wcheck", e.m, u, 0)}
    [] OTHER -> {}

\* one round of the loop of HandleRoomMessageDeliver, of
\* HandleRoomMessageWithdrawDeliver, or handleDelegatedRoomResend
DeliverTo(n, u) ==
  /\ job[n] # None /\ u \in job[n].to
  /\ LET e == job[n]
         rest == e.to \ {u}
     IN /\ job' = [job EXCEPT ![n] = IF rest = {} THEN None ELSE [e EXCEPT !.to = rest]]
        /\ IF CanSend(n, u)
           THEN /\ Write(u, FrameOf(e))
                /\ tasks' = tasks \cup CheckFor(e, u)
           ELSE UNCHANGED <<inbox, tasks>>
  /\ UNCHANGED <<dbVars, fanVars, channel, checking, node, ready, presence,
                 online, acks>>

(***************************************************************************)
(* Ack checks (main queue) and resends (quic queue, taken by any node)     *)
(***************************************************************************)
RowOf(t) == IF t.kind = "check" THEN ack[t.m][t.u] ELSE wack[t.m][t.u]

\* HandleRoomMessageAckCheck / HandleRoomMessageWithdrawAckCheck read the row
AckCheckRead(t) ==
  /\ t \in tasks /\ t.kind \in {"check", "wcheck"}
  /\ tasks' = tasks \ {t}
  /\ checking' = IF RowOf(t) = "pending" THEN checking \cup {t} ELSE checking
  /\ UNCHANGED <<dbVars, fanVars, nodeVars, connVars>>

\* Mutant of NextCheck: the next check is scheduled as the log line promises
ScheduleNextCheck(t) == {[t EXCEPT !.retry = @ + 1]}

\* the check scheduled after a resend: the handlers only log that one is needed
NextCheck(t) == {}

\* ... and time the row out, or publish a resend that carries the message
AckCheckAct(t) ==
  /\ t \in checking
  /\ checking' = checking \ {t}
  /\ LET exhausted == t.retry >= AckMaxRetries
         found == t.kind = "wcheck" \/ Readable(t.m)
         resend == [t EXCEPT !.kind = IF @ = "check" THEN "resend" ELSE "wresend"]
     IN /\ ack' = IF exhausted /\ t.kind = "check"
                  THEN [ack EXCEPT ![t.m][t.u] = "timedout"] ELSE ack
        /\ wack' = IF exhausted /\ t.kind = "wcheck"
                   THEN [wack EXCEPT ![t.m][t.u] = "timedout"] ELSE wack
        /\ tasks' = IF ~exhausted /\ found
                    THEN tasks \cup {resend} \cup NextCheck(t) ELSE tasks
  /\ UNCHANGED <<msg, blocked, fanVars, nodeVars, connVars>>

\* HandleRoomMessageResend / HandleRoomMessageWithdrawResend on node n: a client
\* without a message stream is an error, which asynq retries
Resend(n, t) ==
  /\ t \in tasks /\ t.kind \in {"resend", "wresend"}
  /\ GetClientByUid(n, t.u) => ready[t.u]
  /\ tasks' = tasks \ {t}
  /\ LET far == presence[t.u] \notin {None, n}
     IN IF CanSend(n, t.u)
        THEN /\ Write(t.u, Frame(IF t.kind = "resend" THEN "msg" ELSE "wd", t.m))
             /\ UNCHANGED channel
        ELSE /\ UNCHANGED inbox
             /\ IF t.kind = "resend" /\ far
                THEN Publish(presence[t.u], Envelope("resend", t.m, {t.u}))
                ELSE UNCHANGED channel
  /\ UNCHANGED <<dbVars, fanVars, job, checking, node, ready, presence, online, acks>>

(***************************************************************************)
(* Connections, and what a client is sent when it comes online             *)
(***************************************************************************)
RegisterClient(u, n) ==
  /\ u \in MayConnect /\ node[u] = None
  /\ node' = [node EXCEPT ![u] = n]
  /\ UNCHANGED <<dbVars, fanVars, nodeVars, taskVars, ready, presence, online,
                 inbox, acks>>

\* push.Register, from registerLiveClient or from a later heartbeat
RegisterPresence(u) ==
  /\ node[u] # None /\ presence[u] # node[u]
  /\ presence' = [presence EXCEPT ![u] = node[u]]
  /\ UNCHANGED <<dbVars, fanVars, nodeVars, taskVars, node, ready, online, inbox, acks>>

\* Mutant of MayAcceptStream: streams are accepted before push.Register
AcceptStreamEarly(u) == node[u] # None

\* acceptConn runs after registerLiveClient
MayAcceptStream(u) == presence[u] = node[u]

\* the message stream arrives: its handler is installed and EventClientOnline
\* starts the goroutine that ends with pushUnreadMessages
StreamReady(u) ==
  /\ node[u] # None /\ ~ready[u] /\ MayAcceptStream(u)
  /\ ready' = [ready EXCEPT ![u] = TRUE]
  /\ online' = [online EXCEPT ![u] = [at |-> "read", batch |-> <<>>]]
  /\ UNCHANGED <<dbVars, fanVars, nodeVars, taskVars, node, presence, inbox, acks>>

\* rows of a state-0 ack join a message that is not withdrawn
Unread(u) == {m \in Mids : ack[m][u] = "pending" /\ msg[m] = "stored"}

\* Mutant of UnreadWithdraw: the query filters withdraw_time = 0 as its twin does
UnreadWithdrawOfVisible(u) == {m \in Mids : wack[m][u] = "pending" /\ msg[m] = "stored"}

UnreadWithdraw(u) == {m \in Mids : wack[m][u] = "pending"}

Rank(ms, m) == Cardinality({k \in ms : SeqId[k] < SeqId[m]})

\* ORDER BY seq_id, turned round for sending
BySeqId(ms) == [i \in 1 .. Cardinality(ms) |-> CHOOSE m \in ms : Rank(ms, m) = i - 1]

\* Mutant of GetUnreadRoomMessagesByAck: one row fewer than the limit
OneRowFewer(u) ==
  {m \in Unread(u) : Cardinality({k \in Unread(u) : SeqId[k] > SeqId[m]}) < UnreadLimit - 1}

\* GetUnreadRoomMessagesByAck: the latest UnreadLimit rows ...
GetUnreadRoomMessagesByAck(u) ==
  {m \in Unread(u) : Cardinality({k \in Unread(u) : SeqId[k] > SeqId[m]}) < UnreadLimit}

\* ... which filterUnreadRoomMessagesByBlock then thins out
UnreadBatch(u) ==
  BySeqId({m \in GetUnreadRoomMessagesByAck(u) : Sender[m] \notin blocked[u]})

PushUnreadRead(u) ==
  /\ online[u].at = "read"
  /\ online' = [online EXCEPT ![u] =
       IF node[u] # None /\ UnreadBatch(u) # <<>>
       THEN [at |-> "send", batch |-> UnreadBatch(u)]
       ELSE [at |-> "wread", batch |-> <<>>]]
  /\ UNCHANGED <<dbVars, fanVars, nodeVars, taskVars, node, ready, presence, inbox, acks>>

PushUnreadWithdrawRead(u) ==
  /\ online[u].at = "wread"
  /\ online' = [online EXCEPT ![u] =
       IF node[u] # None /\ UnreadWithdraw(u) # {}
       THEN [at |-> "wsend", batch |-> BySeqId(UnreadWithdraw(u))]
       ELSE [at |-> "idle", batch |-> <<>>]]
  /\ UNCHANGED <<dbVars, fanVars, nodeVars, taskVars, node, ready, presence, inbox, acks>>

\* the batch is one frame; the client takes its messages one by one
PushUnreadSend(u) ==
  /\ online[u].at \in {"send", "wsend"} /\ ready[u]
  /\ LET kind == IF online[u].at = "send" THEN "msg" ELSE "wd"
         fs == [i \in DOMAIN online[u].batch |-> Frame(kind, online[u].batch[i])]
     IN inbox' = [inbox EXCEPT ![u] = @ \o fs]
  /\ online' = [online EXCEPT ![u] =
                  [at |-> IF @.at = "send" THEN "wread" ELSE "idle", batch |-> <<>>]]
  /\ UNCHANGED <<dbVars, fanVars, nodeVars, taskVars, node, ready, presence, acks>>

\* the connection ends: what was written and not read is gone, a push to the
\* dead stream fails; a push that has not looked the client up yet goes on
ConnLost(u) ==
  /\ node[u] # None
  /\ node' = [node EXCEPT ![u] = None]
  /\ ready' = [ready EXCEPT ![u] = FALSE]
  /\ inbox' = [inbox EXCEPT ![u] = <<>>]
  /\ acks' = [acks EXCEPT ![u] = {}]
  /\ online' = [online EXCEPT ![u] =
       CASE @.at = "send"  -> [at |-> "wread", batch |-> <<>>]
         [] @.at = "wsend" -> [at |-> "idle", batch |-> <<>>]
         [] OTHER -> @]
  /\ UNCHANGED <<dbVars, fanVars, nodeVars, taskVars, presence>>

\* unregisterLiveClient deletes the key, or its TTL ends
PresenceGone(u) ==
  /\ node[u] = None /\ presence[u] # None
  /\ presence' = [presence EXCEPT ![u] = None]
  /\ UNCHANGED <<dbVars, fanVars, nodeVars, taskVars, node, ready, online, inbox, acks>>

\* the client (external) reads a frame and acknowledges it
ClientReceive(u) ==
  /\ inbox[u] # <<>>
  /\ inbox' = [inbox EXCEPT ![u] = Tail(@)]
  /\ acks' = [acks EXCEPT ![u] = @ \cup {Head(inbox[u])}]
  /\ UNCHANGED <<dbVars, fanVars, nodeVars, taskVars, node, ready, presence, online>>

\* handlerRoomMessageAck, handlerRoomMessageWithdrawAck: UPDATE ... WHERE state = 0
HandleAck(u, f) ==
  /\ f \in acks[u]
  /\ acks' = [acks EXCEPT ![u] = @ \ {f}]
  /\ ack' = IF f.kind = "msg" /\ ack[f.m][u] = "pending"
            THEN [ack EXCEPT ![f.m][u] = "received"] ELSE ack
  /\ wack' = IF f.kind = "wd" /\ wack[f.m][u] = "pending"
             THEN [wack EXCEPT ![f.m][u] = "received"] ELSE wack
  /\ UNCHANGED <<msg, blocked, fanVars, nodeVars, taskVars, node, ready, presence,
                 online, inbox>>

StoreStep == \E m \in Mids :
  \/ StoreMessage(m) \/ PrepareRoomMessageNotify(m) \/ CreateAcks(m)
  \/ FanoutRoomMessageDelivery(m)
  \/ WithdrawMessage(m) \/ PrepareRoomMessageWithdraw(m)
  \/ FanoutRoomWithdrawDelivery(m)

NodeStep == \E n \in Nodes :
  \/ Dispatch(n) \/ LoseEnvelope(n) \/ \E u \in Users : DeliverTo(n, u)

TaskStep ==
  \/ \E t \in tasks : AckCheckRead(t) \/ \E n \in Nodes : Resend(n, t)
  \/ \E t \in checking : AckCheckAct(t)

UserStep == \E u \in Users :
  \/ \E s \in Users : BlockSender(u, s)
  \/ \E n \in Nodes : RegisterClient(u, n)
  \/ RegisterPresence(u) \/ StreamReady(u)
  \/ PushUnreadRead(u) \/ PushUnreadWithdrawRead(u) \/ PushUnreadSend(u)
  \/ ConnLost(u) \/ PresenceGone(u) \/ ClientReceive(u)
  \/ \E f \in acks[u] : HandleAck(u, f)

Next == StoreStep \/ NodeStep \/ TaskStep \/ UserStep
Spec == Init /\ [][Next]_vars

\* the server's goroutines and queue workers keep running; tasks are taken
ServerFairness ==
  /\ \A m \in Mids :
       /\ WF_vars(PrepareRoomMessageNotify(m)) /\ WF_vars(CreateAcks(m))
       /\ WF_vars(FanoutRoomMessageDelivery(m))
       /\ WF_vars(PrepareRoomMessageWithdraw(m))
       /\ WF_vars(FanoutRoomWithdrawDelivery(m))
  /\ \A n \in Nodes : WF_vars(Dispatch(n)) /\ \A u \in Users : WF_vars(DeliverTo(n, u))
  /\ WF_vars(TaskStep)

\* a member keeps coming back, and again and again stays long enough to be
\* served: an assumption on users and networks, not on the code
ReconnectFairness == \A u \in MayConnect :
  /\ WF_vars(\E n \in Nodes : RegisterClient(u, n)) /\ SF_vars(RegisterPresence(u))
  /\ SF_vars(StreamReady(u))
  /\ SF_vars(ready[u] /\ PushUnreadRead(u))
  /\ SF_vars(ready[u] /\ PushUnreadWithdrawRead(u))
  /\ SF_vars(PushUnreadSend(u)) /\ WF_vars(ConnLost(u))
  /\ SF_vars(ClientReceive(u)) /\ SF_vars(\E f \in acks[u] : HandleAck(u, f))

ServerFairSpec == Spec /\ ServerFairness
FairSpec == Spec /\ ServerFairness /\ ReconnectFairness

(***************************************************************************)
(* Properties                                                              *)
(***************************************************************************)
\* Every variable keeps its shape: rows, stages, envelopes, tasks, frames.
TypeOK ==
  /\ msg \in [Mids -> {"none", "stored", "withdrawn"}]
  /\ ack \in [Mids -> [Users -> AckStates]] /\ wack \in [Mids -> [Users -> AckStates]]
  /\ blocked \in [Users -> SUBSET Users]
  /\ nt \in [Mids -> NotifyStages] /\ wt \in [Mids -> NotifyStages]
  /\ recips \in [Mids -> SUBSET Users]
  /\ channel \in [Nodes -> Seq(Envelopes)] /\ job \in [Nodes -> Envelopes \cup {None}]
  /\ tasks \subseteq Tasks /\ checking \subseteq Tasks
  /\ node \in [Users -> Nodes \cup {None}] /\ presence \in [Users -> Nodes \cup {None}]
  /\ ready \in [Users -> BOOLEAN]
  /\ online \in [Users -> [at : OnlineStages, batch : Seq(Mids)]]
  /\ inbox \in [Users -> Seq(Frames)] /\ acks \in [Users -> SUBSET Frames]

\* Frames of u's stream the server has written and not seen acknowledged
Outstanding(u) == Range(inbox[u]) \cup acks[u]

\* An envelope for u about m is still on its way to some node's subscriber.
InFlight(kinds, m, u) ==
  \E n \in Nodes : \E e \in Range(channel[n]) \cup ({job[n]} \ {None}) :
    e.kind \in kinds /\ e.m = m /\ u \in e.to

\* Nothing falls between the push of unread messages and live delivery: once
\* the stream of a connected member is up and its unread push is over, a row
\* still pending, of a message whose fanout is over and of which no envelope is
\* under way, has been written to this very connection (the same for withdrawals).
\* UnreadLimit is assumed not to cut the push short, and the subscriber of the
\* node not to lose envelopes.
NothingFallsBetween ==
  Cardinality(Mids) <= UnreadLimit =>
  \A m \in Mids, u \in Users :
   ready[u] /\ node[u] \notin MayLose /\ Sender[m] \notin blocked[u] =>
    /\ /\ online[u].at \notin {"read", "send"} /\ nt[m] = "done"
       /\ ack[m][u] = "pending" /\ msg[m] = "stored" /\ ~InFlight({"deliver"}, m, u)
       => Frame("msg", m) \in Outstanding(u)
    /\ /\ online[u].at = "idle" /\ wt[m] = "done"
       /\ wack[m][u] = "pending" /\ ~InFlight({"withdraw"}, m, u)
       => Frame("wd", m) \in Outstanding(u)

\* An acknowledged row stays acknowledged, whatever ack check has read it
\* before the acknowledgement came (HandleRoomMessageAckCheck's last UPDATE has
\* no condition on the state).
AckedStaysAcked ==
  [][\A m \in Mids, u \in Users :
       /\ ack[m][u] = "received" => ack'[m][u] = "received"
       /\ wack[m][u] = "received" => wack'[m][u] = "received"]_vars

\* A member who keeps coming back, and has blocked nobody in the room, gets every
\* message that waits for it, however many wait and whatever was lost on the
\* way, unless it is withdrawn first. (Rows of blocked senders take up the
\* query's LIMIT for good, see README.)
UnreadEventuallyReceived ==
  \A m \in Mids, u \in MayConnect :
    []<>(ack[m][u] = "pending" => msg[m] = "withdrawn" \/ blocked[u] # {})

\* ... and learns of every withdrawal.
WithdrawEventuallyReceived ==
  \A m \in Mids, u \in MayConnect : []<>(wack[m][u] # "pending")

\* Ack checks go on until the row is answered or timed out ("schedule the next
\* check while retries are left", queue/handlers.go:110).
ChecksResolveRow ==
  \A m \in Mids, u \in Users :
    (\E t \in tasks : t.kind = "check" /\ t.m = m /\ t.u = u)
      ~> ack[m][u] # "pending" \/ msg[m] = "withdrawn"

=============================================================================
