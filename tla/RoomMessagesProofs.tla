------------------------- MODULE RoomMessagesProofs -------------------------
(***************************************************************************)
(* Proofs about room messages: RoomDelivery, for any number of nodes,      *)
(* members and messages, and then RoomSend, for every set of attempts,     *)
(* client_mids and withdraw requests and every bound on the faults.        *)
(*                                                                         *)
(* RoomDelivery keeps its types, never undoes an acknowledgement, and lets *)
(* nothing fall between live delivery and the push of unread messages. The *)
(* invariant IInv follows a pending row from its transaction to the        *)
(* client. From the moment the unread push of a connection has read the    *)
(* rows, each row still pending is in one of four places: before the       *)
(* fanout, which will address this very node, in an envelope of this       *)
(* node's channel or job, in the batch the push is about to send, or in a  *)
(* frame written to the stream.                                            *)
(*                                                                         *)
(* RoomSend: SendInv is an inductive invariant of SendSpec, and            *)
(* OneRowPerClientMid, ReceiptMeansStored and ContentsMatchRow follow from *)
(* it. Most steps of a request leave the rows alone; StepWithoutRow says   *)
(* once what such a step has to respect. Create, CreateContents, Commit    *)
(* and Crash change rows and are treated one conjunct at a time. The steps *)
(* of a withdraw request leave the requests alone (RequestsUndisturbed).   *)
(***************************************************************************)
EXTENDS RoomSend, RoomDelivery, FiniteSetTheorems, SequenceTheorems, WellFoundedInduction,
        TLAPS

\* An envelope for u about m that node n itself will handle
Covered(n, kind, m, u) ==
  \E e \in Range(channel[n]) \cup ({job[n]} \ {None}) :
    e.kind = kind /\ e.m = m /\ u \in e.to

\* The unread push of u's connection holds m in its batch
InBatch(at, m, u) == online[u].at = at /\ m \in Range(online[u].batch)

\* How far the notification and the withdrawal of a message can have come
StagesAgree ==
  \A m \in Mids :
    /\ msg[m] = "none" => nt[m] = "idle"
    /\ msg[m] # "withdrawn" => wt[m] = "idle"
    /\ nt[m] \in {"idle", "prepare", "acks"} => \A u \in Users : ack[m][u] = "absent"
    /\ wt[m] \in {"idle", "prepare"} => \A u \in Users : wack[m][u] = "absent"
    /\ \A u \in Users : ack[m][u] # "absent" => u \in recips[m]

\* No check is ever a second one, so none finds its retries exhausted
FirstChecksOnly == \A t \in tasks \cup checking : t.retry = 0

\* A client whose stream is up is addressed at its node
StreamsKnown == \A u \in Users : ready[u] => node[u] # None /\ presence[u] = node[u]

Served(u) == ready[u] /\ node[u] \notin MayLose

\* A row of u that waits for its message, once the unread push has read the rows
MessageDue(m, u) ==
  /\ Served(u) /\ Sender[m] \notin blocked[u] /\ online[u].at # "read"
  /\ ack[m][u] = "pending" /\ msg[m] = "stored"

MessageHeld(m, u) ==
  \/ nt[m] = "fanout"
  \/ Covered(node[u], "deliver", m, u)
  \/ InBatch("send", m, u)
  \/ Frame("msg", m) \in Outstanding(u)

\* ... and one that waits for a withdrawal
WithdrawalDue(m, u) ==
  Served(u) /\ online[u].at \in {"idle", "wsend"} /\ wack[m][u] = "pending"

WithdrawalHeld(m, u) ==
  \/ wt[m] = "fanout"
  \/ Covered(node[u], "withdraw", m, u)
  \/ InBatch("wsend", m, u)
  \/ Frame("wd", m) \in Outstanding(u)

RowsHeld(m, u) ==
  /\ MessageDue(m, u) => MessageHeld(m, u)
  /\ WithdrawalDue(m, u) => WithdrawalHeld(m, u)

\* The LIMIT of the unread query cuts nothing off
NoneCut == Cardinality(Mids) <= UnreadLimit

AllHeld == NoneCut => \A m \in Mids, u \in Users : RowsHeld(m, u)

IInv == TypeOK /\ StagesAgree /\ FirstChecksOnly /\ StreamsKnown /\ AllHeld

-----------------------------------------------------------------------------
(* Sequences and their elements.                                           *)

LEMMA RangeAppend ==
  ASSUME NEW S, NEW s \in Seq(S), NEW e \in S
  PROVE  Append(s, e) \in Seq(S) /\ Range(Append(s, e)) = Range(s) \cup {e}
<1>1. Append(s, e) \in Seq(S) /\ Len(Append(s, e)) = Len(s) + 1 /\ Len(s) \in Nat
  OBVIOUS
<1>2. DOMAIN Append(s, e) = 1 .. Len(s) + 1 /\ DOMAIN s = 1 .. Len(s)
  BY <1>1
<1>3. Append(s, e)[Len(s) + 1] = e /\ \A i \in 1 .. Len(s) : Append(s, e)[i] = s[i]
  OBVIOUS
<1> QED
  BY <1>1, <1>2, <1>3 DEF Range

LEMMA RangeTail ==
  ASSUME NEW S, NEW s \in Seq(S), s # <<>>
  PROVE  /\ Head(s) \in S /\ Tail(s) \in Seq(S)
         /\ Range(s) = Range(Tail(s)) \cup {Head(s)}
<1>1. Head(s) \in S /\ Tail(s) \in Seq(S) /\ Len(s) \in Nat \ {0} /\ Len(Tail(s)) = Len(s) - 1
  OBVIOUS
<1>2. DOMAIN s = 1 .. Len(s) /\ DOMAIN Tail(s) = 1 .. Len(s) - 1
  BY <1>1
<1>3. s[1] = Head(s) /\ \A i \in 1 .. Len(s) - 1 : Tail(s)[i] = s[i + 1]
  BY <1>1
<1>4. ASSUME NEW e \in Range(s)
      PROVE  e \in Range(Tail(s)) \cup {Head(s)}
  <2>1. PICK i \in 1 .. Len(s) : e = s[i]
    BY <1>2, <1>4 DEF Range
  <2>2. CASE i = 1
    BY <1>3, <2>1, <2>2
  <2>3. CASE i # 1
    <3>1. i - 1 \in 1 .. Len(s) - 1 /\ e = Tail(s)[i - 1]
      BY <1>1, <1>3, <2>1, <2>3
    <3> QED
      BY <1>2, <3>1 DEF Range
  <2> QED
    BY <2>2, <2>3
<1>5. ASSUME NEW e \in Range(Tail(s)) \cup {Head(s)}
      PROVE  e \in Range(s)
  <2>1. CASE e = Head(s)
    BY <1>1, <1>2, <1>3, <2>1 DEF Range
  <2>2. CASE e \in Range(Tail(s))
    <3>1. PICK i \in 1 .. Len(s) - 1 : e = s[i + 1]
      BY <1>2, <1>3, <2>2 DEF Range
    <3>2. i + 1 \in DOMAIN s
      BY <1>1, <1>2, <3>1
    <3> QED
      BY <3>1, <3>2 DEF Range
  <2> QED
    BY <1>5, <2>1, <2>2
<1> QED
  BY <1>1, <1>4, <1>5

LEMMA RangeConcat ==
  ASSUME NEW S, NEW s \in Seq(S), NEW t \in Seq(S)
  PROVE  s \o t \in Seq(S) /\ Range(s) \cup Range(t) \subseteq Range(s \o t)
<1>1. /\ s \o t \in Seq(S) /\ Len(s \o t) = Len(s) + Len(t)
      /\ Len(s) \in Nat /\ Len(t) \in Nat
  OBVIOUS
<1>2. /\ DOMAIN s = 1 .. Len(s) /\ DOMAIN t = 1 .. Len(t)
      /\ DOMAIN (s \o t) = 1 .. Len(s) + Len(t)
  BY <1>1
<1>3. ASSUME NEW e \in Range(s) PROVE e \in Range(s \o t)
  <2>1. PICK i \in 1 .. Len(s) : e = s[i]
    BY <1>2, <1>3 DEF Range
  <2>2. i \in 1 .. Len(s) + Len(t) /\ (s \o t)[i] = s[i]
    BY <1>1, <2>1
  <2> QED
    BY <1>2, <2>1, <2>2 DEF Range
<1>4. ASSUME NEW e \in Range(t) PROVE e \in Range(s \o t)
  <2>1. PICK i \in 1 .. Len(t) : e = t[i]
    BY <1>2, <1>4 DEF Range
  <2>2. Len(s) + i \in 1 .. Len(s) + Len(t) /\ (s \o t)[Len(s) + i] = t[i]
    BY <1>1, <2>1
  <2> QED
    BY <1>2, <2>1, <2>2 DEF Range
<1> QED
  BY <1>1, <1>3, <1>4

-----------------------------------------------------------------------------
(* The batch of an unread push holds each of its messages.                 *)

LEMMA BatchHoldsAll ==
  ASSUME NEW ms \in SUBSET Mids
  PROVE  BySeqId(ms) \in Seq(Mids) /\ Range(BySeqId(ms)) = ms
<1> DEFINE N == Cardinality(ms)
           Below(m) == {k \in ms : SeqId[k] < SeqId[m]}
           At == [m \in ms |-> Rank(ms, m) + 1]
<1>1. IsFiniteSet(ms) /\ N \in Nat
  BY ConstantsAssumption, FS_Subset, FS_CardinalityType
<1>2. ASSUME NEW m \in ms
      PROVE  IsFiniteSet(Below(m)) /\ Rank(ms, m) \in 0 .. N - 1
  <2>1. IsFiniteSet(ms \ {m}) /\ Cardinality(ms \ {m}) = N - 1
    BY <1>1, FS_RemoveElement
  <2>2. Below(m) \subseteq ms \ {m}
    BY ConstantsAssumption
  <2>3. IsFiniteSet(Below(m)) /\ Cardinality(Below(m)) <= N - 1
    BY <2>1, <2>2, FS_Subset
  <2> QED
    BY <1>1, <2>3, FS_CardinalityType DEF Rank
<1>3. ASSUME NEW m \in ms, NEW k \in ms, SeqId[k] < SeqId[m]
      PROVE  Rank(ms, k) # Rank(ms, m)
  <2>1. Below(k) \subseteq Below(m) /\ k \in Below(m) /\ k \notin Below(k)
    BY <1>3, ConstantsAssumption
  <2>2. Cardinality(Below(m)) # Cardinality(Below(k))
    BY <1>2, <2>1, FS_Subset
  <2> QED
    BY <2>2 DEF Rank
<1>4. ASSUME NEW m \in ms, NEW k \in ms, Rank(ms, k) = Rank(ms, m)
      PROVE  k = m
  <2>1. SeqId[k] \in Nat /\ SeqId[m] \in Nat /\ (SeqId[k] = SeqId[m] => k = m)
    BY ConstantsAssumption
  <2>2. ~(SeqId[k] < SeqId[m]) /\ ~(SeqId[m] < SeqId[k])
    BY <1>3, <1>4
  <2> QED
    BY <2>1, <2>2
<1> HIDE DEF N, Below
<1>5. At \in [ms -> 1 .. N] /\ \A m \in ms : Rank(ms, m) \in Int /\ At[m] = Rank(ms, m) + 1
  <2>1. ASSUME NEW m \in ms
        PROVE  Rank(ms, m) \in Int /\ Rank(ms, m) + 1 \in 1 .. N
    BY <1>1, <1>2
  <2> QED
    BY <2>1
<1> HIDE DEF At
<1>6. At \in Surjection(ms, 1 .. N)
  <2>1. At \in Injection(ms, 1 .. N)
    <3>1. ASSUME NEW m \in ms, NEW k \in ms, At[m] = At[k]
          PROVE  m = k
      <4>1. Rank(ms, k) = Rank(ms, m)
        BY <1>5, <3>1
      <4> QED
        BY <1>4, <4>1
    <3> QED
      BY <1>5, <3>1 DEF Injection, IsInjective
  <2>2. IsFiniteSet(1 .. N) /\ Cardinality(1 .. N) = N
    BY <1>1, FS_Interval
  <2>3. Cardinality(ms) = Cardinality(1 .. N)
    BY <2>2 DEF N
  <2> QED
    BY <2>1, <2>2, <2>3, FS_Injection
<1>7. ASSUME NEW i \in 1 .. N
      PROVE  \E m \in ms : Rank(ms, m) = i - 1
  <2>1. PICK m \in ms : At[m] = i
    BY <1>6 DEF Surjection
  <2> QED
    BY <1>5, <2>1
<1>8. ASSUME NEW i \in 1 .. N
      PROVE  BySeqId(ms)[i] \in ms /\ Rank(ms, BySeqId(ms)[i]) = i - 1
  BY <1>7 DEF BySeqId, N
<1>9. DOMAIN BySeqId(ms) = 1 .. N
  BY DEF BySeqId, N
<1>10. BySeqId(ms) \in Seq(Mids)
  <2>1. BySeqId(ms) \in [1 .. N -> Mids]
    BY <1>8 DEF BySeqId, N
  <2> QED
    BY <1>1, <2>1, SeqDef
<1>11. ASSUME NEW m \in ms PROVE m \in Range(BySeqId(ms))
  <2>1. PICK i \in 1 .. N : i - 1 = Rank(ms, m)
    <3>1. Rank(ms, m) + 1 \in 1 .. N /\ (Rank(ms, m) + 1) - 1 = Rank(ms, m)
      BY <1>1, <1>2
    <3> QED
      BY <3>1
  <2>2. BySeqId(ms)[i] = m
    BY <1>4, <1>8, <2>1
  <2> QED
    BY <1>9, <2>2 DEF Range
<1> QED
  BY <1>8, <1>9, <1>10, <1>11 DEF Range

-----------------------------------------------------------------------------
(* Types.                                                                  *)

LEMMA StoreTypes ==
  ASSUME TypeOK, StoreStep
  PROVE  TypeOK'
<1>1. PICK m \in Mids :
        \/ StoreMessage(m) \/ PrepareRoomMessageNotify(m) \/ CreateAcks(m)
        \/ FanoutRoomMessageDelivery(m) \/ WithdrawMessage(m)
        \/ PrepareRoomMessageWithdraw(m) \/ FanoutRoomWithdrawDelivery(m)
  BY DEF StoreStep
<1>2. CASE StoreMessage(m)
  BY <1>2 DEF TypeOK, StoreMessage, nodeVars, taskVars, connVars, NotifyStages
<1>3. CASE PrepareRoomMessageNotify(m)
  BY <1>3 DEF TypeOK, PrepareRoomMessageNotify, dbVars, nodeVars, taskVars, connVars,
              NotifyStages, Recipients
<1>4. CASE CreateAcks(m)
  <2>1. ack' \in [Mids -> [Users -> AckStates]] /\ nt' \in [Mids -> NotifyStages]
    BY <1>4 DEF TypeOK, CreateAcks, AckStates, NotifyStages
  <2> QED
    BY <1>4, <2>1 DEF TypeOK, CreateAcks, nodeVars, taskVars, connVars
<1>5. ASSUME NEW kind \in {"deliver", "withdraw"}, NEW us \in SUBSET Users, Fanout(kind, m, us)
      PROVE  channel' \in [Nodes -> Seq(Envelopes)]
  <2>1. ASSUME NEW n \in Nodes
        PROVE  channel'[n] \in Seq(Envelopes)
    <3> DEFINE mine == {u \in us : presence[u] = n}
    <3>1. Envelope(kind, m, mine) \in Envelopes /\ channel[n] \in Seq(Envelopes)
      BY DEF Envelope, Envelopes, TypeOK
    <3>2. channel'[n] = IF mine = {} THEN channel[n] ELSE Append(channel[n], Envelope(kind, m, mine))
      BY <1>5 DEF Fanout
    <3> HIDE DEF mine
    <3> QED
      BY <3>1, <3>2, RangeAppend
  <2> QED
    BY <1>5, <2>1 DEF Fanout
<1>6. CASE FanoutRoomMessageDelivery(m)
  <2>1. channel' \in [Nodes -> Seq(Envelopes)]
    BY <1>5, <1>6 DEF FanoutRoomMessageDelivery, TypeOK
  <2> QED
    BY <1>6, <2>1 DEF TypeOK, FanoutRoomMessageDelivery, dbVars, taskVars, connVars, NotifyStages
<1>7. CASE WithdrawMessage(m)
  BY <1>7 DEF TypeOK, WithdrawMessage, nodeVars, taskVars, connVars, NotifyStages
<1>8. CASE PrepareRoomMessageWithdraw(m)
  <2>1. wack' \in [Mids -> [Users -> AckStates]] /\ wt' \in [Mids -> NotifyStages]
    BY <1>8 DEF TypeOK, PrepareRoomMessageWithdraw, AckStates, NotifyStages
  <2> QED
    BY <1>8, <2>1 DEF TypeOK, PrepareRoomMessageWithdraw, nodeVars, taskVars, connVars
<1>9. CASE FanoutRoomWithdrawDelivery(m)
  <2>1. channel' \in [Nodes -> Seq(Envelopes)]
    BY <1>5, <1>9 DEF FanoutRoomWithdrawDelivery
  <2> QED
    BY <1>9, <2>1 DEF TypeOK, FanoutRoomWithdrawDelivery, dbVars, taskVars, connVars, NotifyStages
<1> QED
  BY <1>1, <1>2, <1>3, <1>4, <1>6, <1>7, <1>8, <1>9

LEMMA WriteType ==
  ASSUME TypeOK, NEW u \in Users, NEW f \in Frames, Write(u, f)
  PROVE  /\ inbox' \in [Users -> Seq(Frames)]
         /\ Range(inbox'[u]) = Range(inbox[u]) \cup {f}
         /\ \A v \in Users : Range(inbox[v]) \subseteq Range(inbox'[v])
<1>1. inbox \in [Users -> Seq(Frames)] /\ inbox' = [inbox EXCEPT ![u] = Append(inbox[u], f)]
  BY DEF TypeOK, Write
<1>2. Append(inbox[u], f) \in Seq(Frames) /\ Range(Append(inbox[u], f)) = Range(inbox[u]) \cup {f}
  BY <1>1, RangeAppend
<1> QED
  BY <1>1, <1>2

LEMMA NodeTypes ==
  ASSUME TypeOK, NodeStep
  PROVE  TypeOK'
<1>1. PICK n \in Nodes :
        Dispatch(n) \/ LoseEnvelope(n) \/ \E u \in Users : DeliverTo(n, u)
  BY DEF NodeStep
<1>2. ASSUME channel[n] # <<>>
      PROVE  Head(channel[n]) \in Envelopes /\ Tail(channel[n]) \in Seq(Envelopes)
  BY <1>2, RangeTail DEF TypeOK
<1>3. CASE Dispatch(n)
  <2>1. job' \in [Nodes -> Envelopes \cup {None}] /\ channel' \in [Nodes -> Seq(Envelopes)]
    BY <1>2, <1>3 DEF TypeOK, Dispatch
  <2> QED
    BY <1>3, <2>1 DEF TypeOK, Dispatch, dbVars, fanVars, taskVars, connVars
<1>4. CASE LoseEnvelope(n)
  <2>1. channel' \in [Nodes -> Seq(Envelopes)]
    BY <1>2, <1>4 DEF TypeOK, LoseEnvelope
  <2> QED
    BY <1>4, <2>1 DEF TypeOK, LoseEnvelope, dbVars, fanVars, taskVars, connVars
<1>5. ASSUME NEW u \in Users, DeliverTo(n, u)
      PROVE  TypeOK'
  <2>1. job[n] \in Envelopes
    BY <1>5 DEF DeliverTo, TypeOK
  <2>2. job' \in [Nodes -> Envelopes \cup {None}]
    <3>1. [job[n] EXCEPT !.to = job[n].to \ {u}] \in Envelopes
      BY <2>1 DEF Envelopes
    <3> QED
      BY <1>5, <3>1 DEF DeliverTo, TypeOK
  <2>3. FrameOf(job[n]) \in Frames /\ CheckFor(job[n], u) \subseteq Tasks
    <3>1. job[n].kind \in {"deliver", "withdraw", "resend"} /\ job[n].m \in Mids
      BY <2>1 DEF Envelopes
    <3> QED
      BY <3>1, ConstantsAssumption DEF FrameOf, Frame, Frames, CheckFor, Task, Tasks
  <2>4. inbox' \in [Users -> Seq(Frames)] /\ tasks' \subseteq Tasks
    <3>1. CASE CanSend(n, u)
      BY <1>5, <2>3, <3>1, WriteType DEF DeliverTo, TypeOK
    <3>2. CASE ~CanSend(n, u)
      BY <1>5, <3>2 DEF DeliverTo, TypeOK
    <3> QED
      BY <3>1, <3>2
  <2> QED
    BY <1>5, <2>2, <2>4 DEF TypeOK, DeliverTo, dbVars, fanVars
<1> QED
  BY <1>1, <1>3, <1>4, <1>5

LEMMA TaskTypes ==
  ASSUME TypeOK, TaskStep
  PROVE  TypeOK'
<1>1. ASSUME NEW t \in Tasks
      PROVE  t.m \in Mids /\ t.u \in Users /\ t.kind \in {"check", "resend", "wcheck", "wresend"}
  BY DEF Tasks
<1>2. ASSUME NEW t \in tasks, AckCheckRead(t)
      PROVE  TypeOK'
  BY <1>2 DEF TypeOK, AckCheckRead, dbVars, fanVars, nodeVars, connVars
<1>3. ASSUME NEW t \in checking, AckCheckAct(t)
      PROVE  TypeOK'
  <2>1. t \in Tasks
    BY DEF TypeOK
  <2>2. ack' \in [Mids -> [Users -> AckStates]] /\ wack' \in [Mids -> [Users -> AckStates]]
    BY <1>1, <1>3, <2>1 DEF TypeOK, AckCheckAct, AckStates
  <2>3. tasks' \subseteq Tasks /\ checking' \subseteq Tasks
    <3>1. [t EXCEPT !.kind = IF @ = "check" THEN "resend" ELSE "wresend"] \in Tasks
      BY <2>1 DEF Tasks
    <3> QED
      BY <1>3, <3>1 DEF TypeOK, AckCheckAct, NextCheck
  <2> QED
    BY <1>3, <2>2, <2>3 DEF TypeOK, AckCheckAct, fanVars, nodeVars, connVars
<1>4. ASSUME NEW t \in tasks, NEW n \in Nodes, Resend(n, t)
      PROVE  TypeOK'
  <2>1. t \in Tasks /\ t.m \in Mids /\ t.u \in Users
    BY <1>1 DEF TypeOK
  <2>2. inbox' \in [Users -> Seq(Frames)]
    <3>1. Frame(IF t.kind = "resend" THEN "msg" ELSE "wd", t.m) \in Frames
      BY <2>1 DEF Frame, Frames
    <3> QED
      BY <1>4, <2>1, <3>1, WriteType DEF Resend, TypeOK
  <2>3. channel' \in [Nodes -> Seq(Envelopes)]
    <3>1. CASE /\ presence[t.u] \notin {None, n}
               /\ Publish(presence[t.u], Envelope("resend", t.m, {t.u}))
      <4>1. presence[t.u] \in Nodes /\ Envelope("resend", t.m, {t.u}) \in Envelopes
        BY <2>1, <3>1 DEF TypeOK, Envelope, Envelopes
      <4>2. Append(channel[presence[t.u]], Envelope("resend", t.m, {t.u})) \in Seq(Envelopes)
        BY <4>1, RangeAppend DEF TypeOK
      <4> QED
        BY <3>1, <4>1, <4>2 DEF Publish, TypeOK
    <3>2. CASE UNCHANGED channel
      BY <3>2 DEF TypeOK
    <3> QED
      BY <1>4, <3>1, <3>2 DEF Resend
  <2> QED
    BY <1>4, <2>2, <2>3 DEF TypeOK, Resend, dbVars, fanVars
<1> QED
  BY <1>2, <1>3, <1>4 DEF TaskStep

LEMMA UnreadBatchHoldsAll ==
  ASSUME NEW u \in Users
  PROVE  /\ UnreadBatch(u) \in Seq(Mids)
         /\ Range(UnreadBatch(u))
              = {m \in GetUnreadRoomMessagesByAck(u) : Sender[m] \notin blocked[u]}
         /\ BySeqId(UnreadWithdraw(u)) \in Seq(Mids)
         /\ Range(BySeqId(UnreadWithdraw(u))) = UnreadWithdraw(u)
<1>1. {m \in GetUnreadRoomMessagesByAck(u) : Sender[m] \notin blocked[u]} \in SUBSET Mids
  BY DEF GetUnreadRoomMessagesByAck, Unread
<1>2. UnreadWithdraw(u) \in SUBSET Mids
  BY DEF UnreadWithdraw
<1> QED
  BY <1>1, <1>2, BatchHoldsAll DEF UnreadBatch

\* what an unread push writes to the stream of the connection
LEMMA BatchFrames ==
  ASSUME TypeOK, NEW u \in Users, NEW kind \in {"msg", "wd"}
  PROVE  LET fs == [i \in DOMAIN online[u].batch |-> Frame(kind, online[u].batch[i])]
         IN /\ fs \in Seq(Frames) /\ inbox[u] \o fs \in Seq(Frames)
            /\ Range(inbox[u]) \subseteq Range(inbox[u] \o fs)
            /\ \A m \in Range(online[u].batch) : Frame(kind, m) \in Range(inbox[u] \o fs)
<1> DEFINE b == online[u].batch
           fs == [i \in DOMAIN b |-> Frame(kind, b[i])]
<1>1. b \in Seq(Mids)
  BY DEF TypeOK
<1> HIDE DEF b
<1>2. Len(b) \in Nat /\ DOMAIN b = 1 .. Len(b) /\ \A i \in 1 .. Len(b) : b[i] \in Mids
  BY <1>1
<1>3. fs \in Seq(Frames)
  <2>1. fs \in [1 .. Len(b) -> Frames]
    BY <1>2 DEF Frame, Frames
  <2> QED
    BY <1>2, <2>1, SeqDef
<1>4. \A m \in Range(b) : Frame(kind, m) \in Range(fs)
  BY DEF Range
<1> HIDE DEF fs
<1>5. inbox[u] \in Seq(Frames)
  BY DEF TypeOK
<1>6. inbox[u] \o fs \in Seq(Frames) /\ Range(inbox[u]) \cup Range(fs) \subseteq Range(inbox[u] \o fs)
  BY <1>3, <1>5, RangeConcat
<1> QED
  BY <1>3, <1>4, <1>6 DEF b, fs

LEMMA UserTypes ==
  ASSUME TypeOK, UserStep
  PROVE  TypeOK'
<1>1. PICK u \in Users :
        \/ \E s \in Users : BlockSender(u, s)
        \/ \E n \in Nodes : RegisterClient(u, n)
        \/ RegisterPresence(u) \/ StreamReady(u)
        \/ PushUnreadRead(u) \/ PushUnreadWithdrawRead(u) \/ PushUnreadSend(u)
        \/ ConnLost(u) \/ PresenceGone(u) \/ ClientReceive(u)
        \/ \E f \in acks[u] : HandleAck(u, f)
  BY DEF UserStep
<1> DEFINE Pushes == [at : OnlineStages, batch : Seq(Mids)]
<1>2. \A at \in OnlineStages : [at |-> at, batch |-> <<>>] \in Pushes
  OBVIOUS
<1>3. online \in [Users -> Pushes]
  BY DEF TypeOK
<1>4. OnlineStages = {"idle", "read", "send", "wread", "wsend"}
  BY DEF OnlineStages
<1>5. ASSUME online' \in [Users -> Pushes],
             UNCHANGED <<dbVars, fanVars, nodeVars, taskVars, node, presence, acks, ready, inbox>>
      PROVE  TypeOK'
  BY <1>5 DEF TypeOK, dbVars, fanVars, nodeVars, taskVars
<1> HIDE DEF Pushes
<1>6. ASSUME NEW s \in Users, BlockSender(u, s)
      PROVE  TypeOK'
  BY <1>6 DEF TypeOK, BlockSender, fanVars, nodeVars, taskVars, connVars
<1>7. ASSUME NEW n \in Nodes, RegisterClient(u, n)
      PROVE  TypeOK'
  BY <1>7 DEF TypeOK, RegisterClient, dbVars, fanVars, nodeVars, taskVars
<1>8. CASE RegisterPresence(u)
  BY <1>8 DEF TypeOK, RegisterPresence, dbVars, fanVars, nodeVars, taskVars
<1>9. CASE StreamReady(u)
  <2>1. online' \in [Users -> Pushes]
    BY <1>2, <1>3, <1>4, <1>9 DEF StreamReady
  <2> QED
    BY <1>9, <2>1 DEF TypeOK, StreamReady, dbVars, fanVars, nodeVars, taskVars, Pushes
<1>10. CASE PushUnreadRead(u)
  <2>1. [at |-> "send", batch |-> UnreadBatch(u)] \in Pushes
    BY <1>4, UnreadBatchHoldsAll DEF Pushes
  <2>2. online' \in [Users -> Pushes]
    BY <1>2, <1>3, <1>4, <1>10, <2>1 DEF PushUnreadRead
  <2> QED
    BY <1>5, <1>10, <2>2 DEF PushUnreadRead
<1>11. CASE PushUnreadWithdrawRead(u)
  <2>1. [at |-> "wsend", batch |-> BySeqId(UnreadWithdraw(u))] \in Pushes
    BY <1>4, UnreadBatchHoldsAll DEF Pushes
  <2>2. online' \in [Users -> Pushes]
    BY <1>2, <1>3, <1>4, <1>11, <2>1 DEF PushUnreadWithdrawRead
  <2> QED
    BY <1>5, <1>11, <2>2 DEF PushUnreadWithdrawRead
<1>12. CASE PushUnreadSend(u)
  <2>1. online' \in [Users -> Pushes]
    BY <1>2, <1>3, <1>4, <1>12 DEF PushUnreadSend
  <2>2. inbox' \in [Users -> Seq(Frames)]
    BY <1>12, BatchFrames DEF PushUnreadSend, TypeOK
  <2> QED
    BY <1>12, <2>1, <2>2 DEF TypeOK, PushUnreadSend, dbVars, fanVars, nodeVars, taskVars, Pushes
<1>13. CASE ConnLost(u)
  <2>1. online' \in [Users -> Pushes]
    BY <1>2, <1>3, <1>4, <1>13 DEF ConnLost
  <2>2. inbox' \in [Users -> Seq(Frames)] /\ acks' \in [Users -> SUBSET Frames]
    BY <1>13 DEF ConnLost, TypeOK
  <2> QED
    BY <1>13, <2>1, <2>2 DEF TypeOK, ConnLost, dbVars, fanVars, nodeVars, taskVars, Pushes
<1>14. CASE PresenceGone(u)
  BY <1>14 DEF TypeOK, PresenceGone, dbVars, fanVars, nodeVars, taskVars
<1>15. CASE ClientReceive(u)
  <2>1. Head(inbox[u]) \in Frames /\ Tail(inbox[u]) \in Seq(Frames)
    BY <1>15, RangeTail DEF ClientReceive, TypeOK
  <2>2. inbox' \in [Users -> Seq(Frames)] /\ acks' \in [Users -> SUBSET Frames]
    BY <1>15, <2>1 DEF ClientReceive, TypeOK
  <2> QED
    BY <1>15, <2>2 DEF TypeOK, ClientReceive, dbVars, fanVars, nodeVars, taskVars
<1>16. ASSUME NEW f \in acks[u], HandleAck(u, f)
       PROVE  TypeOK'
  <2>1. f.m \in Mids
    BY DEF TypeOK, Frames
  <2>2. ack' \in [Mids -> [Users -> AckStates]] /\ wack' \in [Mids -> [Users -> AckStates]]
    BY <1>16, <2>1 DEF HandleAck, TypeOK, AckStates
  <2> QED
    BY <1>16, <2>2 DEF TypeOK, HandleAck, fanVars, nodeVars, taskVars
<1> QED
  BY <1>1, <1>6, <1>7, <1>8, <1>9, <1>10, <1>11, <1>12, <1>13, <1>14, <1>15, <1>16

LEMMA TypesKept ==
  ASSUME TypeOK, [Next]_vars
  PROVE  TypeOK'
<1>1. CASE UNCHANGED vars
  BY <1>1 DEF TypeOK, vars, dbVars, fanVars, nodeVars, taskVars, connVars
<1> QED
  BY <1>1, StoreTypes, NodeTypes, TaskTypes, UserTypes DEF Next

-----------------------------------------------------------------------------
(* Checks, streams and stages.                                             *)

LEMMA FirstChecksKept ==
  ASSUME TypeOK, FirstChecksOnly, [Next]_vars
  PROVE  FirstChecksOnly'
<1>1. ASSUME NEW n \in Nodes, NEW u \in Users, DeliverTo(n, u)
      PROVE  FirstChecksOnly'
  <2>1. \A t \in CheckFor(job[n], u) : t.retry = 0
    <3>1. job[n].kind \in {"deliver", "withdraw", "resend"}
      BY <1>1 DEF DeliverTo, TypeOK, Envelopes
    <3> QED
      BY <3>1 DEF CheckFor, Task
  <2> QED
    BY <1>1, <2>1 DEF FirstChecksOnly, DeliverTo
<1>2. ASSUME NEW t \in tasks, AckCheckRead(t)
      PROVE  FirstChecksOnly'
  BY <1>2 DEF FirstChecksOnly, AckCheckRead
<1>3. ASSUME NEW t \in checking, AckCheckAct(t)
      PROVE  FirstChecksOnly'
  <2>1. t \in Tasks /\ t.retry = 0
    BY DEF TypeOK, FirstChecksOnly
  <2>2. [t EXCEPT !.kind = IF @ = "check" THEN "resend" ELSE "wresend"].retry = 0
    BY <2>1 DEF Tasks
  <2> QED
    BY <1>3, <2>2 DEF FirstChecksOnly, AckCheckAct, NextCheck
<1>4. ASSUME NEW t \in tasks, NEW n \in Nodes, Resend(n, t)
      PROVE  FirstChecksOnly'
  BY <1>4 DEF FirstChecksOnly, Resend
<1>5. CASE UNCHANGED taskVars
  BY <1>5 DEF FirstChecksOnly, taskVars
<1>6. CASE StoreStep
  BY <1>5, <1>6 DEF StoreStep, StoreMessage, PrepareRoomMessageNotify, CreateAcks,
     FanoutRoomMessageDelivery, WithdrawMessage, PrepareRoomMessageWithdraw,
     FanoutRoomWithdrawDelivery
<1>7. CASE UserStep
  BY <1>5, <1>7 DEF UserStep, BlockSender, RegisterClient, RegisterPresence, StreamReady,
     PushUnreadRead, PushUnreadWithdrawRead, PushUnreadSend, ConnLost, PresenceGone,
     ClientReceive, HandleAck
<1>8. CASE NodeStep
  BY <1>1, <1>5, <1>8 DEF NodeStep, Dispatch, LoseEnvelope
<1>9. CASE UNCHANGED vars
  BY <1>5, <1>9 DEF vars
<1> QED
  BY <1>2, <1>3, <1>4, <1>6, <1>7, <1>8, <1>9 DEF Next, TaskStep

(* A check that acts finds its retries not exhausted: it changes no row.   *)
LEMMA ChecksChangeNoRow ==
  ASSUME TypeOK, FirstChecksOnly, NEW t \in checking, AckCheckAct(t)
  PROVE  UNCHANGED <<ack, wack>>
<1>1. ~(t.retry >= AckMaxRetries)
  BY ConstantsAssumption DEF FirstChecksOnly
<1> QED
  BY <1>1 DEF AckCheckAct

LEMMA StreamsKept ==
  ASSUME TypeOK, StreamsKnown, [Next]_vars
  PROVE  StreamsKnown'
<1>1. CASE UNCHANGED <<node, ready, presence>>
  BY <1>1 DEF StreamsKnown
<1>2. CASE StoreStep
  BY <1>1, <1>2 DEF StoreStep, StoreMessage, PrepareRoomMessageNotify, CreateAcks,
     FanoutRoomMessageDelivery, WithdrawMessage, PrepareRoomMessageWithdraw,
     FanoutRoomWithdrawDelivery, connVars
<1>3. CASE NodeStep
  BY <1>1, <1>3 DEF NodeStep, Dispatch, LoseEnvelope, DeliverTo, connVars
<1>4. CASE TaskStep
  BY <1>1, <1>4 DEF TaskStep, AckCheckRead, AckCheckAct, Resend, connVars
<1>5. CASE UserStep
  <2>1. ASSUME NEW u \in Users, NEW n \in Nodes, RegisterClient(u, n)
        PROVE  StreamsKnown'
    BY <2>1 DEF StreamsKnown, RegisterClient, TypeOK
  <2>2. ASSUME NEW u \in Users, RegisterPresence(u)
        PROVE  StreamsKnown'
    BY <2>2 DEF StreamsKnown, RegisterPresence, TypeOK
  <2>3. ASSUME NEW u \in Users, StreamReady(u)
        PROVE  StreamsKnown'
    BY <2>3 DEF StreamsKnown, StreamReady, MayAcceptStream, TypeOK
  <2>4. ASSUME NEW u \in Users, ConnLost(u)
        PROVE  StreamsKnown'
    BY <2>4 DEF StreamsKnown, ConnLost, TypeOK
  <2>5. ASSUME NEW u \in Users, PresenceGone(u)
        PROVE  StreamsKnown'
    BY <2>5 DEF StreamsKnown, PresenceGone, TypeOK
  <2> QED
    BY <1>1, <1>5, <2>1, <2>2, <2>3, <2>4, <2>5 DEF UserStep, BlockSender, PushUnreadRead,
       PushUnreadWithdrawRead, PushUnreadSend, ClientReceive, HandleAck, connVars
<1>6. CASE UNCHANGED vars
  BY <1>1, <1>6 DEF vars, connVars
<1> QED
  BY <1>2, <1>3, <1>4, <1>5, <1>6 DEF Next

LEMMA StagesKept ==
  ASSUME TypeOK, StagesAgree, FirstChecksOnly, [Next]_vars
  PROVE  StagesAgree'
<1>1. CASE UNCHANGED <<msg, ack, wack, nt, recips, wt>>
  BY <1>1 DEF StagesAgree
<1>2. ASSUME NEW m \in Mids, StoreMessage(m)
      PROVE  StagesAgree'
  BY <1>2 DEF StagesAgree, StoreMessage, TypeOK
<1>3. ASSUME NEW m \in Mids, PrepareRoomMessageNotify(m)
      PROVE  StagesAgree'
  BY <1>3 DEF StagesAgree, PrepareRoomMessageNotify, TypeOK, dbVars
<1>4. ASSUME NEW m \in Mids, CreateAcks(m)
      PROVE  StagesAgree'
  BY <1>4 DEF StagesAgree, CreateAcks, TypeOK
<1>5. ASSUME NEW m \in Mids, FanoutRoomMessageDelivery(m)
      PROVE  StagesAgree'
  BY <1>5 DEF StagesAgree, FanoutRoomMessageDelivery, MayFanout, TypeOK, dbVars
<1>6. ASSUME NEW m \in Mids, WithdrawMessage(m)
      PROVE  StagesAgree'
  BY <1>6 DEF StagesAgree, WithdrawMessage, TypeOK
<1>7. ASSUME NEW m \in Mids, PrepareRoomMessageWithdraw(m)
      PROVE  StagesAgree'
  BY <1>7 DEF StagesAgree, PrepareRoomMessageWithdraw, TypeOK
<1>8. ASSUME NEW m \in Mids, FanoutRoomWithdrawDelivery(m)
      PROVE  StagesAgree'
  BY <1>8 DEF StagesAgree, FanoutRoomWithdrawDelivery, TypeOK, dbVars
<1>9. CASE NodeStep
  BY <1>1, <1>9 DEF NodeStep, Dispatch, LoseEnvelope, DeliverTo, dbVars, fanVars
<1>10. CASE TaskStep
  BY <1>1, <1>10, ChecksChangeNoRow DEF TaskStep, AckCheckRead, AckCheckAct, Resend,
     dbVars, fanVars
<1>11. ASSUME NEW u \in Users, NEW f \in acks[u], HandleAck(u, f)
       PROVE  StagesAgree'
  <2>1. f.m \in Mids
    BY DEF TypeOK, Frames
  <2>2. /\ \A m \in Mids, v \in Users : ack'[m][v] # ack[m][v] => ack[m][v] = "pending"
        /\ \A m \in Mids, v \in Users : wack'[m][v] # wack[m][v] => wack[m][v] = "pending"
    BY <1>11, <2>1 DEF HandleAck, TypeOK
  <2> QED
    BY <1>11, <2>2 DEF StagesAgree, HandleAck, fanVars
<1>12. CASE UserStep
  BY <1>1, <1>11, <1>12 DEF UserStep, BlockSender, RegisterClient, RegisterPresence, StreamReady,
     PushUnreadRead, PushUnreadWithdrawRead, PushUnreadSend, ConnLost, PresenceGone,
     ClientReceive, dbVars, fanVars
<1>13. CASE UNCHANGED vars
  BY <1>1, <1>13 DEF vars, dbVars, fanVars
<1> QED
  BY <1>2, <1>3, <1>4, <1>5, <1>6, <1>7, <1>8, <1>9, <1>10, <1>12, <1>13 DEF Next, StoreStep

-----------------------------------------------------------------------------
(* Rows that wait are held. Most steps leave what holds a row alone.       *)

LEMMA Undisturbed ==
  ASSUME NEW m \in Mids, NEW u \in Users, RowsHeld(m, u),
         node'[u] = node[u], ready'[u] = ready[u], online'[u] = online[u],
         blocked[u] \subseteq blocked'[u],
         ack'[m][u] = "pending" => ack[m][u] = "pending",
         wack'[m][u] = "pending" => wack[m][u] = "pending",
         msg'[m] = "stored" => msg[m] = "stored",
         nt[m] = "fanout" => nt'[m] = "fanout",
         wt[m] = "fanout" => wt'[m] = "fanout",
         Range(channel[node[u]]) \subseteq Range(channel'[node[u]]),
         job'[node[u]] = job[node[u]],
         Outstanding(u) \subseteq Outstanding(u)'
  PROVE  RowsHeld(m, u)'
<1>1. ASSUME NEW kind, Covered(node[u], kind, m, u)
      PROVE  Covered(node[u], kind, m, u)'
  BY <1>1 DEF Covered
<1>2. MessageDue(m, u)' => MessageDue(m, u)
  BY DEF MessageDue, Served
<1>3. WithdrawalDue(m, u)' => WithdrawalDue(m, u)
  BY DEF WithdrawalDue, Served
<1>4. MessageHeld(m, u) => MessageHeld(m, u)'
  BY <1>1 DEF MessageHeld, InBatch
<1>5. WithdrawalHeld(m, u) => WithdrawalHeld(m, u)'
  BY <1>1 DEF WithdrawalHeld, InBatch
<1> QED
  BY <1>2, <1>3, <1>4, <1>5 DEF RowsHeld

(* Nothing the rows depend on changes at all.                              *)
LEMMA Untouched ==
  ASSUME AllHeld,
         UNCHANGED <<node, ready, online, blocked, ack, wack, msg, nt, wt,
                     channel, job, inbox, acks>>
  PROVE  AllHeld'
<1>1. ASSUME NEW m \in Mids, NEW u \in Users, RowsHeld(m, u)
      PROVE  RowsHeld(m, u)'
  <2>1. Outstanding(u) \subseteq Outstanding(u)'
    BY DEF Outstanding
  <2> QED
    BY <1>1, <2>1, Undisturbed
<1> QED
  BY <1>1 DEF AllHeld, NoneCut

(* A fanout puts an envelope for each recipient into the channel of the    *)
(* node Redis names for it, and takes nothing out of any channel.          *)
LEMMA FanoutReaches ==
  ASSUME TypeOK, NEW kind \in {"deliver", "withdraw"}, NEW m \in Mids,
         NEW us \in SUBSET Users, Fanout(kind, m, us), NEW n \in Nodes
  PROVE  /\ Range(channel[n]) \subseteq Range(channel'[n])
         /\ \A u \in us : presence[u] = n => Covered(n, kind, m, u)'
<1> DEFINE mine == {u \in us : presence[u] = n}
           e == Envelope(kind, m, mine)
<1>1. channel'[n] = IF mine = {} THEN channel[n] ELSE Append(channel[n], e)
  BY DEF Fanout
<1>2. e \in Envelopes /\ channel[n] \in Seq(Envelopes) /\ e.kind = kind /\ e.m = m /\ e.to = mine
  BY DEF Envelope, Envelopes, TypeOK
<1> HIDE DEF mine, e
<1>3. Range(Append(channel[n], e)) = Range(channel[n]) \cup {e}
  BY <1>2, RangeAppend
<1>4. Range(channel[n]) \subseteq Range(channel'[n])
  BY <1>1, <1>3
<1>5. ASSUME NEW u \in us, presence[u] = n
      PROVE  Covered(n, kind, m, u)'
  <2>1. u \in mine
    BY <1>5 DEF mine
  <2>2. e \in Range(channel'[n])
    BY <1>1, <1>3, <2>1
  <2> QED
    BY <1>2, <2>1, <2>2 DEF Covered
<1> QED
  BY <1>4, <1>5

LEMMA ServedAtNode ==
  ASSUME TypeOK, StreamsKnown, NEW u \in Users, ready[u]
  PROVE  node[u] \in Nodes /\ presence[u] = node[u]
BY DEF TypeOK, StreamsKnown

LEMMA StoreHolds ==
  ASSUME IInv, StoreStep
  PROVE  AllHeld'
<1> SUFFICES ASSUME NoneCut, NEW k \in Mids, NEW u \in Users
             PROVE  RowsHeld(k, u)'
  BY DEF AllHeld, NoneCut
<1>1. RowsHeld(k, u) /\ TypeOK /\ StreamsKnown /\ StagesAgree
  BY DEF IInv, AllHeld
<1>2. PICK m \in Mids :
        \/ StoreMessage(m) \/ PrepareRoomMessageNotify(m) \/ CreateAcks(m)
        \/ FanoutRoomMessageDelivery(m) \/ WithdrawMessage(m)
        \/ PrepareRoomMessageWithdraw(m) \/ FanoutRoomWithdrawDelivery(m)
  BY DEF StoreStep
<1>3. UNCHANGED <<job, connVars>>
  BY <1>2 DEF StoreMessage, PrepareRoomMessageNotify, CreateAcks, FanoutRoomMessageDelivery,
     WithdrawMessage, PrepareRoomMessageWithdraw, FanoutRoomWithdrawDelivery, nodeVars
<1>4. /\ node'[u] = node[u] /\ ready'[u] = ready[u] /\ online'[u] = online[u]
      /\ job'[node[u]] = job[node[u]] /\ Outstanding(u) \subseteq Outstanding(u)'
  BY <1>3 DEF connVars, Outstanding
<1>5. blocked' = blocked
  BY <1>2 DEF StoreMessage, PrepareRoomMessageNotify, CreateAcks, FanoutRoomMessageDelivery,
     WithdrawMessage, PrepareRoomMessageWithdraw, FanoutRoomWithdrawDelivery, dbVars
<1>6. CASE StoreMessage(m)
  <2>1. UNCHANGED <<ack, wack, wt, channel>>
    BY <1>6 DEF StoreMessage, nodeVars
  <2>2. ASSUME k # m PROVE RowsHeld(k, u)'
    <3>1. msg'[k] = msg[k] /\ nt'[k] = nt[k]
      BY <1>1, <1>6, <2>2 DEF StoreMessage, TypeOK
    <3> QED
      BY <1>1, <1>4, <1>5, <2>1, <3>1, Undisturbed
  <2>3. ASSUME k = m PROVE RowsHeld(k, u)'
    <3>1. nt[m] = "idle" /\ ack[m][u] = "absent"
      BY <1>1, <1>6 DEF StoreMessage, StagesAgree
    <3>2. ~MessageDue(k, u)'
      BY <2>1, <2>3, <3>1 DEF MessageDue
    <3>3. (WithdrawalDue(k, u)' => WithdrawalDue(k, u))
          /\ (WithdrawalHeld(k, u) => WithdrawalHeld(k, u)')
      BY <1>4, <2>1 DEF WithdrawalDue, WithdrawalHeld, Served, InBatch, Covered
    <3> QED
      BY <1>1, <3>2, <3>3 DEF RowsHeld
  <2> QED
    BY <2>2, <2>3
<1>7. CASE PrepareRoomMessageNotify(m)
  <2>1. UNCHANGED <<msg, ack, wack, wt, channel>> /\ nt[m] = "prepare"
    BY <1>7 DEF PrepareRoomMessageNotify, nodeVars, dbVars
  <2>2. nt[k] = "fanout" => nt'[k] = "fanout"
    BY <1>1, <1>7, <2>1 DEF PrepareRoomMessageNotify, TypeOK
  <2> QED
    BY <1>1, <1>4, <1>5, <2>1, <2>2, Undisturbed
<1>8. CASE CreateAcks(m)
  <2>1. UNCHANGED <<msg, wack, wt, channel>> /\ nt[m] = "acks"
    BY <1>8 DEF CreateAcks, nodeVars
  <2>2. ASSUME k # m PROVE RowsHeld(k, u)'
    <3>1. ack'[k] = ack[k] /\ nt'[k] = nt[k]
      BY <1>1, <1>8, <2>2 DEF CreateAcks, TypeOK
    <3> QED
      BY <1>1, <1>4, <1>5, <2>1, <3>1, Undisturbed
  <2>3. ASSUME k = m PROVE RowsHeld(k, u)'
    <3>1. MessageDue(k, u)' => nt'[k] = "fanout"
      <4>1. ack[m][u] = "absent"
        BY <1>1, <2>1 DEF StagesAgree
      <4> QED
        BY <1>1, <1>8, <2>3, <4>1 DEF CreateAcks, MessageDue, TypeOK
    <3>2. (WithdrawalDue(k, u)' => WithdrawalDue(k, u))
          /\ (WithdrawalHeld(k, u) => WithdrawalHeld(k, u)')
      BY <1>4, <2>1 DEF WithdrawalDue, WithdrawalHeld, Served, InBatch, Covered
    <3> QED
      BY <1>1, <3>1, <3>2 DEF RowsHeld, MessageHeld
  <2> QED
    BY <2>2, <2>3
<1>9. CASE FanoutRoomMessageDelivery(m)
  <2>1. UNCHANGED <<msg, ack, wack, wt>>
    BY <1>9 DEF FanoutRoomMessageDelivery, dbVars
  <2>2. ASSUME NEW n \in Nodes
        PROVE  /\ Range(channel[n]) \subseteq Range(channel'[n])
               /\ \A v \in recips[m] : presence[v] = n => Covered(n, "deliver", m, v)'
    <3>1. recips[m] \in SUBSET Users /\ Fanout("deliver", m, recips[m])
      BY <1>1, <1>9 DEF FanoutRoomMessageDelivery, TypeOK
    <3> QED
      BY <1>1, <3>1, FanoutReaches
  <2>3. CASE ~ready[u]
    BY <1>4, <2>3 DEF RowsHeld, MessageDue, WithdrawalDue, Served
  <2>4. CASE ready[u] /\ k # m
    <3>1. nt'[k] = nt[k] /\ node[u] \in Nodes
      BY <1>1, <1>9, <2>4, ServedAtNode DEF FanoutRoomMessageDelivery, TypeOK
    <3> QED
      BY <1>1, <1>4, <1>5, <2>1, <2>2, <3>1, Undisturbed
  <2>5. CASE ready[u] /\ k = m
    <3>1. node[u] \in Nodes /\ presence[u] = node[u]
      BY <1>1, <2>5, ServedAtNode
    <3>2. MessageDue(k, u)' => Covered(node[u], "deliver", k, u)'
      <4>1. ack'[k][u] = "pending" => u \in recips[m]
        BY <1>1, <2>1, <2>5 DEF StagesAgree
      <4> QED
        BY <1>4, <2>2, <2>5, <3>1, <4>1 DEF MessageDue
    <3>3. WithdrawalDue(k, u)' => WithdrawalDue(k, u)
      BY <1>4, <2>1 DEF WithdrawalDue, Served
    <3>4. WithdrawalHeld(k, u) => WithdrawalHeld(k, u)'
      BY <1>4, <2>1, <2>2, <3>1 DEF WithdrawalHeld, InBatch, Covered
    <3> QED
      BY <1>1, <1>4, <3>2, <3>3, <3>4 DEF RowsHeld, MessageHeld
  <2> QED
    BY <2>3, <2>4, <2>5
<1>10. CASE WithdrawMessage(m)
  <2>1. UNCHANGED <<ack, wack, nt, channel>>
    BY <1>10 DEF WithdrawMessage, nodeVars
  <2>2. msg'[k] = "stored" => msg[k] = "stored"
    BY <1>1, <1>10 DEF WithdrawMessage, TypeOK
  <2>3. wt[k] = "fanout" => wt'[k] = "fanout"
    <3>1. wt[m] = "idle"
      BY <1>1, <1>10 DEF WithdrawMessage, StagesAgree
    <3> QED
      BY <1>1, <1>10, <3>1 DEF WithdrawMessage, TypeOK
  <2> QED
    BY <1>1, <1>4, <1>5, <2>1, <2>2, <2>3, Undisturbed
<1>11. CASE PrepareRoomMessageWithdraw(m)
  <2>1. UNCHANGED <<msg, ack, nt, channel>> /\ wt[m] = "prepare"
    BY <1>11 DEF PrepareRoomMessageWithdraw, nodeVars
  <2>2. ASSUME k # m PROVE RowsHeld(k, u)'
    <3>1. wack'[k] = wack[k] /\ wt'[k] = wt[k]
      BY <1>1, <1>11, <2>2 DEF PrepareRoomMessageWithdraw, TypeOK
    <3> QED
      BY <1>1, <1>4, <1>5, <2>1, <3>1, Undisturbed
  <2>3. ASSUME k = m PROVE RowsHeld(k, u)'
    <3>1. WithdrawalDue(k, u)' => wt'[k] = "fanout"
      <4>1. wack[m][u] = "absent"
        BY <1>1, <2>1 DEF StagesAgree
      <4> QED
        BY <1>1, <1>11, <2>3, <4>1 DEF PrepareRoomMessageWithdraw, WithdrawalDue, TypeOK
    <3>2. (MessageDue(k, u)' => MessageDue(k, u)) /\ (MessageHeld(k, u) => MessageHeld(k, u)')
      BY <1>4, <1>5, <2>1 DEF MessageDue, MessageHeld, Served, InBatch, Covered
    <3> QED
      BY <1>1, <3>1, <3>2 DEF RowsHeld, WithdrawalHeld
  <2> QED
    BY <2>2, <2>3
<1>12. CASE FanoutRoomWithdrawDelivery(m)
  <2>1. UNCHANGED <<msg, ack, wack, nt>>
    BY <1>12 DEF FanoutRoomWithdrawDelivery, dbVars
  <2>2. ASSUME NEW n \in Nodes
        PROVE  /\ Range(channel[n]) \subseteq Range(channel'[n])
               /\ \A v \in Users : presence[v] = n => Covered(n, "withdraw", m, v)'
    <3>1. Fanout("withdraw", m, Users)
      BY <1>12 DEF FanoutRoomWithdrawDelivery
    <3> QED
      BY <1>1, <3>1, FanoutReaches
  <2>3. CASE ~ready[u]
    BY <1>4, <2>3 DEF RowsHeld, MessageDue, WithdrawalDue, Served
  <2>4. CASE ready[u] /\ k # m
    <3>1. wt'[k] = wt[k] /\ node[u] \in Nodes
      BY <1>1, <1>12, <2>4, ServedAtNode DEF FanoutRoomWithdrawDelivery, TypeOK
    <3> QED
      BY <1>1, <1>4, <1>5, <2>1, <2>2, <3>1, Undisturbed
  <2>5. CASE ready[u] /\ k = m
    <3>1. node[u] \in Nodes /\ presence[u] = node[u]
      BY <1>1, <2>5, ServedAtNode
    <3>2. Covered(node[u], "withdraw", k, u)'
      BY <1>4, <2>2, <2>5, <3>1
    <3>3. MessageDue(k, u)' => MessageDue(k, u)
      BY <1>4, <1>5, <2>1 DEF MessageDue, Served
    <3>4. MessageHeld(k, u) => MessageHeld(k, u)'
      BY <1>4, <2>1, <2>2, <3>1 DEF MessageHeld, InBatch, Covered
    <3> QED
      BY <1>1, <1>4, <3>2, <3>3, <3>4 DEF RowsHeld, WithdrawalHeld
  <2> QED
    BY <2>3, <2>4, <2>5
<1> QED
  BY <1>2, <1>6, <1>7, <1>8, <1>9, <1>10, <1>11, <1>12

LEMMA NodeHolds ==
  ASSUME IInv, NodeStep
  PROVE  AllHeld'
<1> SUFFICES ASSUME NoneCut, NEW k \in Mids, NEW v \in Users
             PROVE  RowsHeld(k, v)'
  BY DEF AllHeld, NoneCut
<1>1. RowsHeld(k, v) /\ TypeOK /\ StreamsKnown
  BY DEF IInv, AllHeld
<1>2. PICK n \in Nodes :
        Dispatch(n) \/ LoseEnvelope(n) \/ \E u \in Users : DeliverTo(n, u)
  BY DEF NodeStep
<1>3. UNCHANGED <<dbVars, fanVars, node, ready, online, acks>>
  BY <1>2 DEF Dispatch, LoseEnvelope, DeliverTo, connVars
<1>4. /\ node'[v] = node[v] /\ ready'[v] = ready[v] /\ online'[v] = online[v]
      /\ blocked' = blocked /\ ack' = ack /\ wack' = wack /\ msg' = msg /\ nt' = nt /\ wt' = wt
      /\ acks' = acks
  BY <1>3 DEF dbVars, fanVars
<1>5. CASE ~ready[v]
  BY <1>4, <1>5 DEF RowsHeld, MessageDue, WithdrawalDue, Served
<1>6. /\ MessageDue(k, v)' => MessageDue(k, v)
      /\ WithdrawalDue(k, v)' => WithdrawalDue(k, v)
  BY <1>4 DEF MessageDue, WithdrawalDue, Served
<1>7. ASSUME channel[n] # <<>>
      PROVE  /\ Head(channel[n]) \in Envelopes
             /\ Range(channel[n]) = Range(Tail(channel[n])) \cup {Head(channel[n])}
  BY <1>1, <1>7, RangeTail DEF TypeOK
<1>8. CASE Dispatch(n)
  <2>1. Outstanding(v)' = Outstanding(v)
    BY <1>8 DEF Dispatch, connVars, Outstanding
  <2>2. ASSUME NEW kind \in {"deliver", "withdraw"}, Covered(node[v], kind, k, v),
               kind = "deliver" => Readable(k), ready[v]
        PROVE  Covered(node[v], kind, k, v)'
    <3>1. PICK e \in Range(channel[node[v]]) \cup ({job[node[v]]} \ {None}) :
                 e.kind = kind /\ e.m = k /\ v \in e.to
      BY <2>2 DEF Covered
    <3>2. CASE node[v] # n
      <4>1. channel'[node[v]] = channel[node[v]] /\ job'[node[v]] = job[node[v]]
        BY <1>1, <1>8, <2>2, <3>2, ServedAtNode DEF Dispatch, TypeOK
      <4> QED
        BY <1>4, <2>2, <4>1 DEF Covered
    <3>3. CASE node[v] = n
      <4>1. channel[n] # <<>> /\ e \in Range(channel[n])
        BY <1>8, <3>1, <3>3 DEF Dispatch
      <4>2. channel'[n] = Tail(channel[n])
        BY <1>1, <1>8 DEF Dispatch, TypeOK
      <4>3. CASE e = Head(channel[n])
        <5>1. ~(e.kind = "deliver" /\ ~Readable(e.m))
          BY <2>2, <3>1
        <5>2. job'[n] = e
          BY <1>1, <1>8, <4>3, <5>1 DEF Dispatch, TypeOK
        <5>3. e # None
          BY <1>7, <4>1, <4>3, NoneIsNoEnvelope
        <5> QED
          BY <1>4, <3>1, <3>3, <5>2, <5>3 DEF Covered
      <4>4. CASE e \in Range(Tail(channel[n]))
        BY <1>4, <3>1, <3>3, <4>2, <4>4 DEF Covered
      <4> QED
        BY <1>7, <4>1, <4>3, <4>4
    <3> QED
      BY <3>2, <3>3
  <2>3. ASSUME ready[v], MessageDue(k, v), MessageHeld(k, v)
        PROVE  MessageHeld(k, v)'
    <3>1. Readable(k)
      BY <2>3 DEF MessageDue, Readable
    <3> QED
      BY <1>4, <2>1, <2>2, <2>3, <3>1 DEF MessageHeld, InBatch
  <2>4. ASSUME ready[v], WithdrawalHeld(k, v)
        PROVE  WithdrawalHeld(k, v)'
    BY <1>4, <2>1, <2>2, <2>4 DEF WithdrawalHeld, InBatch
  <2> QED
    BY <1>1, <1>5, <1>6, <2>3, <2>4 DEF RowsHeld
<1>9. CASE LoseEnvelope(n)
  <2>1. Outstanding(v)' = Outstanding(v) /\ job' = job
    BY <1>9 DEF LoseEnvelope, connVars, Outstanding
  <2>2. CASE node[v] \in MayLose
    BY <1>4, <2>2 DEF RowsHeld, MessageDue, WithdrawalDue, Served
  <2>3. CASE node[v] \notin MayLose
    <3>1. channel'[node[v]] = channel[node[v]] \/ ~ready[v]
      BY <1>1, <1>9, <2>3, ServedAtNode DEF LoseEnvelope, TypeOK
    <3> QED
      BY <1>1, <1>4, <1>5, <2>1, <3>1, Undisturbed
  <2> QED
    BY <2>2, <2>3
<1>10. ASSUME NEW u \in Users, DeliverTo(n, u)
       PROVE  RowsHeld(k, v)'
  <2> DEFINE d == job[n]
  <2>1. d \in Envelopes /\ u \in d.to /\ channel' = channel
    BY <1>1, <1>10 DEF DeliverTo, TypeOK
  <2>2. job'[n] = (IF d.to \ {u} = {} THEN None ELSE [d EXCEPT !.to = d.to \ {u}])
        /\ \A p \in Nodes \ {n} : job'[p] = job[p]
    BY <1>1, <1>10 DEF DeliverTo, TypeOK
  <2>3. FrameOf(d) \in Frames
    BY <2>1 DEF FrameOf, Frame, Frames, Envelopes
  <2>4. /\ Outstanding(v) \subseteq Outstanding(v)'
        /\ (u = v /\ CanSend(n, u)) => FrameOf(d) \in Outstanding(v)'
    <3>1. CASE CanSend(n, u)
      <4>1. Write(u, FrameOf(d))
        BY <1>10, <3>1 DEF DeliverTo
      <4>2. /\ Range(inbox'[u]) = Range(inbox[u]) \cup {FrameOf(d)}
            /\ Range(inbox[v]) \subseteq Range(inbox'[v])
        BY <1>1, <2>3, <4>1, WriteType
      <4> HIDE DEF d
      <4> QED
        BY <1>4, <4>2 DEF Outstanding
    <3>2. CASE ~CanSend(n, u)
      BY <1>4, <1>10, <3>2 DEF DeliverTo, Outstanding
    <3> QED
      BY <3>1, <3>2
  <2>5. ASSUME NEW kind \in {"deliver", "withdraw"}, Covered(node[v], kind, k, v), ready[v]
        PROVE  \/ Covered(node[v], kind, k, v)'
               \/ Frame(IF kind = "withdraw" THEN "wd" ELSE "msg", k) \in Outstanding(v)'
    <3>1. PICK e \in Range(channel[node[v]]) \cup ({job[node[v]]} \ {None}) :
                 e.kind = kind /\ e.m = k /\ v \in e.to
      BY <2>5 DEF Covered
    <3>2. CASE e \in Range(channel[node[v]])
      BY <1>4, <2>1, <3>1, <3>2 DEF Covered
    <3>3. CASE node[v] # n
      <4>1. job'[node[v]] = job[node[v]]
        BY <1>1, <2>2, <2>5, <3>3, ServedAtNode
      <4> QED
        BY <1>4, <2>1, <3>1, <4>1 DEF Covered
    <3>4. CASE node[v] = n /\ e = d
      <4>1. CASE u = v
        <5>1. CanSend(n, u)
          BY <2>5, <3>4, <4>1 DEF CanSend, GetClientByUid
        <5>2. FrameOf(d) = Frame(IF kind = "withdraw" THEN "wd" ELSE "msg", k)
          BY <3>1, <3>4 DEF FrameOf
        <5> QED
          BY <2>4, <4>1, <5>1, <5>2
      <4>2. CASE u # v
        <5> DEFINE r == [d EXCEPT !.to = d.to \ {u}]
        <5>1. r \in Envelopes /\ r.kind = kind /\ r.m = k /\ v \in r.to
          BY <2>1, <3>1, <3>4, <4>2 DEF Envelopes
        <5>2. job'[n] = r
          BY <2>2, <3>1, <3>4, <4>2
        <5> HIDE DEF r
        <5> QED
          BY <1>4, <3>4, <5>1, <5>2, NoneIsNoEnvelope DEF Covered
      <4> QED
        BY <4>1, <4>2
    <3> QED
      BY <3>1, <3>2, <3>3, <3>4
  <2>6. ASSUME ready[v], MessageHeld(k, v)
        PROVE  MessageHeld(k, v)'
    BY <1>4, <2>4, <2>5, <2>6 DEF MessageHeld, InBatch
  <2>7. ASSUME ready[v], WithdrawalHeld(k, v)
        PROVE  WithdrawalHeld(k, v)'
    BY <1>4, <2>4, <2>5, <2>7 DEF WithdrawalHeld, InBatch
  <2> QED
    BY <1>1, <1>5, <1>6, <2>6, <2>7 DEF RowsHeld
<1> QED
  BY <1>2, <1>8, <1>9, <1>10

LEMMA TaskHolds ==
  ASSUME IInv, TaskStep
  PROVE  AllHeld'
<1>1. TypeOK /\ FirstChecksOnly /\ AllHeld
  BY DEF IInv
<1>2. ASSUME NEW t \in tasks, AckCheckRead(t)
      PROVE  AllHeld'
  BY <1>1, <1>2, Untouched DEF AckCheckRead, dbVars, fanVars, nodeVars, connVars
<1>3. ASSUME NEW t \in checking, AckCheckAct(t)
      PROVE  AllHeld'
  BY <1>1, <1>3, Untouched, ChecksChangeNoRow DEF AckCheckAct, fanVars, nodeVars, connVars
<1>4. ASSUME NEW t \in tasks, NEW n \in Nodes, Resend(n, t)
      PROVE  AllHeld'
  <2>1. t.m \in Mids /\ t.u \in Users
    BY <1>1 DEF TypeOK, Tasks
  <2>2. ASSUME NEW v \in Users
        PROVE  Outstanding(v) \subseteq Outstanding(v)'
    <3>1. CASE Write(t.u, Frame(IF t.kind = "resend" THEN "msg" ELSE "wd", t.m))
      <4>1. Frame(IF t.kind = "resend" THEN "msg" ELSE "wd", t.m) \in Frames
        BY <2>1 DEF Frame, Frames
      <4>2. Range(inbox[v]) \subseteq Range(inbox'[v])
        BY <1>1, <2>1, <3>1, <4>1, WriteType
      <4> QED
        BY <1>4, <4>2 DEF Outstanding, Resend
    <3>2. CASE UNCHANGED inbox
      BY <1>4, <3>2 DEF Outstanding, Resend
    <3> QED
      BY <1>4, <3>1, <3>2 DEF Resend
  <2>3. ASSUME NEW p \in Nodes
        PROVE  Range(channel[p]) \subseteq Range(channel'[p])
    <3>1. CASE /\ presence[t.u] \notin {None, n}
               /\ Publish(presence[t.u], Envelope("resend", t.m, {t.u}))
      <4>1. presence[t.u] \in Nodes /\ Envelope("resend", t.m, {t.u}) \in Envelopes
        BY <1>1, <2>1, <3>1 DEF TypeOK, Envelope, Envelopes
      <4>2. channel[p] \in Seq(Envelopes)
        BY <1>1 DEF TypeOK
      <4>3. Range(channel[p]) \subseteq Range(Append(channel[p], Envelope("resend", t.m, {t.u})))
        BY <4>1, <4>2, RangeAppend
      <4>4. channel'[p] \in {channel[p], Append(channel[p], Envelope("resend", t.m, {t.u}))}
        BY <1>1, <3>1, <4>1 DEF Publish, TypeOK
      <4> QED
        BY <4>3, <4>4
    <3>2. CASE UNCHANGED channel
      BY <3>2
    <3> QED
      BY <1>4, <3>1, <3>2 DEF Resend
  <2>4. ASSUME NEW k \in Mids, NEW v \in Users, RowsHeld(k, v)
        PROVE  RowsHeld(k, v)'
    <3>1. /\ UNCHANGED <<node, ready, online, job, msg, ack, wack, blocked, nt, wt>>
      BY <1>4 DEF Resend, dbVars, fanVars
    <3>2. CASE ready[v]
      <4>1. node[v] \in Nodes
        BY <3>2, ServedAtNode DEF IInv
      <4> QED
        BY <2>2, <2>3, <2>4, <3>1, <4>1, Undisturbed
    <3>3. CASE ~ready[v]
      BY <3>1, <3>3 DEF RowsHeld, MessageDue, WithdrawalDue, Served
    <3> QED
      BY <3>2, <3>3
  <2> QED
    BY <1>1, <2>4 DEF AllHeld, NoneCut
<1> QED
  BY <1>2, <1>3, <1>4 DEF TaskStep

(* A step of u's connection concerns u's rows only.                        *)
LEMMA OwnRowsOnly ==
  ASSUME TypeOK, NEW u \in Users, NEW v \in Users \ {u}, NEW k \in Mids, RowsHeld(k, v),
         UNCHANGED <<msg, nt, wt, channel, job>>,
         \A w \in Users \ {u} :
           /\ node'[w] = node[w] /\ ready'[w] = ready[w] /\ online'[w] = online[w]
           /\ inbox'[w] = inbox[w] /\ acks'[w] = acks[w] /\ blocked'[w] = blocked[w]
           /\ ack'[k][w] = ack[k][w] /\ wack'[k][w] = wack[k][w]
  PROVE  RowsHeld(k, v)'
<1>1. Outstanding(v) \subseteq Outstanding(v)'
  BY DEF Outstanding
<1>2. /\ node'[v] = node[v] /\ ready'[v] = ready[v] /\ online'[v] = online[v]
      /\ blocked'[v] = blocked[v] /\ ack'[k][v] = ack[k][v] /\ wack'[k][v] = wack[k][v]
  OBVIOUS
<1> QED
  BY <1>1, <1>2, Undisturbed

(* While only u's unread push moves, u's rows keep what holds them besides *)
(* the batch.                                                              *)
LEMMA PushHolds ==
  ASSUME IInv, NoneCut, NEW k \in Mids, NEW u \in Users,
         PushUnreadRead(u) \/ PushUnreadWithdrawRead(u)
  PROVE  RowsHeld(k, u)'
<1>1. RowsHeld(k, u) /\ TypeOK /\ StreamsKnown
  BY DEF IInv, AllHeld
<1>2. UNCHANGED <<dbVars, fanVars, nodeVars, node, ready, inbox, acks>>
  BY DEF PushUnreadRead, PushUnreadWithdrawRead
<1>3. /\ Outstanding(u)' = Outstanding(u) /\ Served(u)' = Served(u)
      /\ \A kind : Covered(node[u], kind, k, u)' <=> Covered(node[u], kind, k, u)
  BY <1>2 DEF Outstanding, Served, Covered, nodeVars
<1>4. CASE ~ready[u]
  BY <1>2, <1>4 DEF RowsHeld, MessageDue, WithdrawalDue, Served
<1>5. CASE ready[u] /\ PushUnreadRead(u)
  <2>1. node[u] # None
    BY <1>1, <1>5, ServedAtNode, ConstantsAssumption
  <2>2. online'[u] = IF UnreadBatch(u) # <<>>
                     THEN [at |-> "send", batch |-> UnreadBatch(u)]
                     ELSE [at |-> "wread", batch |-> <<>>]
    BY <1>1, <1>5, <2>1 DEF PushUnreadRead, TypeOK
  <2>3. ASSUME MessageDue(k, u)'
        PROVE  InBatch("send", k, u)'
    <3>1. k \in Unread(u) /\ Sender[k] \notin blocked[u]
      BY <1>2, <2>3 DEF MessageDue, Unread, dbVars
    <3>2. k \in GetUnreadRoomMessagesByAck(u)
      <4> DEFINE later == {j \in Unread(u) : SeqId[j] > SeqId[k]}
      <4>1. later \in SUBSET (Mids \ {k})
        BY ConstantsAssumption DEF Unread
      <4>2. /\ IsFiniteSet(Mids \ {k}) /\ Cardinality(Mids \ {k}) = Cardinality(Mids) - 1
            /\ Cardinality(Mids) \in Nat
        BY ConstantsAssumption, FS_RemoveElement, FS_CardinalityType
      <4> HIDE DEF later
      <4>3. IsFiniteSet(later) /\ Cardinality(later) <= Cardinality(Mids \ {k})
        BY <4>1, <4>2, FS_Subset
      <4>4. Cardinality(later) < UnreadLimit
        BY <4>2, <4>3, ConstantsAssumption, FS_CardinalityType DEF NoneCut
      <4> QED
        BY <3>1, <4>4 DEF GetUnreadRoomMessagesByAck, later
    <3>3. k \in Range(UnreadBatch(u))
      BY <3>1, <3>2, UnreadBatchHoldsAll
    <3>4. UnreadBatch(u) # <<>>
      BY <3>3 DEF Range
    <3>5. online'[u].at = "send" /\ online'[u].batch = UnreadBatch(u)
      BY <2>2, <3>4
    <3> QED
      BY <3>3, <3>5 DEF InBatch
  <2>4. ~WithdrawalDue(k, u)'
    BY <2>2 DEF WithdrawalDue
  <2> QED
    BY <2>3, <2>4 DEF RowsHeld, MessageHeld
<1>6. CASE ready[u] /\ PushUnreadWithdrawRead(u)
  <2>1. node[u] # None
    BY <1>1, <1>6, ServedAtNode, ConstantsAssumption
  <2>2. online[u].at = "wread" /\
        online'[u] = IF UnreadWithdraw(u) # {}
                     THEN [at |-> "wsend", batch |-> BySeqId(UnreadWithdraw(u))]
                     ELSE [at |-> "idle", batch |-> <<>>]
    BY <1>1, <1>6, <2>1 DEF PushUnreadWithdrawRead, TypeOK
  <2>3. ASSUME WithdrawalDue(k, u)'
        PROVE  InBatch("wsend", k, u)'
    <3>1. k \in UnreadWithdraw(u)
      BY <1>2, <2>3 DEF WithdrawalDue, UnreadWithdraw, dbVars
    <3>2. k \in Range(BySeqId(UnreadWithdraw(u)))
      BY <3>1, UnreadBatchHoldsAll
    <3>3. online'[u].at = "wsend" /\ online'[u].batch = BySeqId(UnreadWithdraw(u))
      BY <2>2, <3>1
    <3> QED
      BY <3>2, <3>3 DEF InBatch
  <2>4. MessageDue(k, u)' => MessageDue(k, u)
    BY <1>2, <1>3, <2>2 DEF MessageDue, dbVars
  <2>5. MessageHeld(k, u) => MessageHeld(k, u)'
    BY <1>2, <1>3, <2>2 DEF MessageHeld, InBatch, fanVars
  <2> QED
    BY <1>1, <2>3, <2>4, <2>5 DEF RowsHeld, WithdrawalHeld
<1> QED
  BY <1>4, <1>5, <1>6

LEMMA SendHolds ==
  ASSUME IInv, NoneCut, NEW k \in Mids, NEW u \in Users, PushUnreadSend(u)
  PROVE  RowsHeld(k, u)'
<1>1. RowsHeld(k, u) /\ TypeOK
  BY DEF IInv, AllHeld
<1>2. UNCHANGED <<dbVars, fanVars, nodeVars, node, ready, acks>>
  BY DEF PushUnreadSend
<1> DEFINE kind == IF online[u].at = "send" THEN "msg" ELSE "wd"
           fs == [i \in DOMAIN online[u].batch |-> Frame(kind, online[u].batch[i])]
<1>3. inbox'[u] = inbox[u] \o fs
  BY <1>1 DEF PushUnreadSend, TypeOK
<1>4. /\ Range(inbox[u]) \subseteq Range(inbox'[u])
      /\ \A m \in Range(online[u].batch) : Frame(kind, m) \in Range(inbox'[u])
  BY <1>1, <1>3, BatchFrames
<1> HIDE DEF fs
<1>5. /\ Outstanding(u) \subseteq Outstanding(u)' /\ Served(u)' = Served(u)
      /\ \A kd : Covered(node[u], kd, k, u)' <=> Covered(node[u], kd, k, u)
  BY <1>2, <1>4 DEF Outstanding, Served, Covered, nodeVars
<1>6. /\ online[u].at \in {"send", "wsend"}
      /\ online'[u].at = IF online[u].at = "send" THEN "wread" ELSE "idle"
  BY <1>1 DEF PushUnreadSend, TypeOK
<1>7. /\ MessageDue(k, u)' => MessageDue(k, u)
      /\ WithdrawalDue(k, u)' => WithdrawalDue(k, u) /\ online[u].at = "wsend"
  BY <1>2, <1>5, <1>6 DEF MessageDue, WithdrawalDue, dbVars
<1>8. InBatch("send", k, u) => Frame("msg", k) \in Outstanding(u)'
  BY <1>4 DEF InBatch, Outstanding
<1>9. InBatch("wsend", k, u) => Frame("wd", k) \in Outstanding(u)'
  BY <1>4 DEF InBatch, Outstanding
<1>10. MessageHeld(k, u) => MessageHeld(k, u)'
  BY <1>2, <1>5, <1>8 DEF MessageHeld, fanVars
<1>11. WithdrawalHeld(k, u) => WithdrawalHeld(k, u)'
  BY <1>2, <1>5, <1>9 DEF WithdrawalHeld, fanVars
<1> QED
  BY <1>1, <1>7, <1>10, <1>11 DEF RowsHeld

LEMMA AckHolds ==
  ASSUME IInv, NoneCut, NEW k \in Mids, NEW u \in Users, NEW f \in acks[u], HandleAck(u, f)
  PROVE  RowsHeld(k, u)'
<1>1. RowsHeld(k, u) /\ TypeOK /\ f \in Frames
  BY DEF IInv, AllHeld, TypeOK
<1>2. UNCHANGED <<msg, blocked, fanVars, nodeVars, node, ready, online, inbox>>
  BY DEF HandleAck
<1>3. /\ Served(u)' = Served(u)
      /\ \A kind : Covered(node[u], kind, k, u)' <=> Covered(node[u], kind, k, u)
      /\ \A at : InBatch(at, k, u)' <=> InBatch(at, k, u)
  BY <1>2 DEF Served, Covered, nodeVars, InBatch
<1>4. Outstanding(u) \subseteq Outstanding(u)' \cup {f}
  BY <1>1, <1>2 DEF HandleAck, Outstanding, TypeOK
<1>5. f.m \in Mids
  BY <1>1 DEF Frames
<1>6. /\ ack'[k][u] = "pending" => ack[k][u] = "pending" /\ f # Frame("msg", k)
      /\ wack'[k][u] = "pending" => wack[k][u] = "pending" /\ f # Frame("wd", k)
  <2>1. CASE f = Frame("msg", k)
    BY <1>1, <2>1 DEF HandleAck, TypeOK, Frame
  <2>2. CASE f = Frame("wd", k)
    BY <1>1, <2>2 DEF HandleAck, TypeOK, Frame
  <2>3. CASE f # Frame("msg", k) /\ f # Frame("wd", k)
    BY <1>1, <1>5, <2>3 DEF HandleAck, TypeOK
  <2> QED
    BY <2>1, <2>2, <2>3
<1>7. MessageDue(k, u)' => MessageDue(k, u) /\ f # Frame("msg", k)
  BY <1>2, <1>3, <1>6 DEF MessageDue
<1>8. WithdrawalDue(k, u)' => WithdrawalDue(k, u) /\ f # Frame("wd", k)
  BY <1>2, <1>3, <1>6 DEF WithdrawalDue
<1>9. MessageHeld(k, u) /\ f # Frame("msg", k) => MessageHeld(k, u)'
  BY <1>2, <1>3, <1>4 DEF MessageHeld, fanVars
<1>10. WithdrawalHeld(k, u) /\ f # Frame("wd", k) => WithdrawalHeld(k, u)'
  BY <1>2, <1>3, <1>4 DEF WithdrawalHeld, fanVars
<1> QED
  BY <1>1, <1>7, <1>8, <1>9, <1>10 DEF RowsHeld

LEMMA UserHolds ==
  ASSUME IInv, UserStep
  PROVE  AllHeld'
<1> SUFFICES ASSUME NoneCut, NEW k \in Mids, NEW v \in Users
             PROVE  RowsHeld(k, v)'
  BY DEF AllHeld, NoneCut
<1>1. RowsHeld(k, v) /\ TypeOK /\ StreamsKnown /\ AllHeld
  BY DEF IInv, AllHeld
<1>2. PICK u \in Users :
        \/ \E s \in Users : BlockSender(u, s)
        \/ \E n \in Nodes : RegisterClient(u, n)
        \/ RegisterPresence(u) \/ StreamReady(u)
        \/ PushUnreadRead(u) \/ PushUnreadWithdrawRead(u) \/ PushUnreadSend(u)
        \/ ConnLost(u) \/ PresenceGone(u) \/ ClientReceive(u)
        \/ \E f \in acks[u] : HandleAck(u, f)
  BY DEF UserStep
<1>3. ASSUME ~ready'[u], u = v
      PROVE  RowsHeld(k, v)'
  BY <1>3 DEF RowsHeld, MessageDue, WithdrawalDue, Served
<1>4. ASSUME UNCHANGED <<ack, wack>>, v # u,
             UNCHANGED <<msg, nt, wt, channel, job>>,
             \A w \in Users \ {u} :
               /\ node'[w] = node[w] /\ ready'[w] = ready[w] /\ online'[w] = online[w]
               /\ inbox'[w] = inbox[w] /\ acks'[w] = acks[w] /\ blocked'[w] = blocked[w]
      PROVE  RowsHeld(k, v)'
  BY <1>1, <1>4, OwnRowsOnly
<1>5. ASSUME NEW s \in Users, BlockSender(u, s)
      PROVE  RowsHeld(k, v)'
  <2>1. blocked[v] \subseteq blocked'[v]
    BY <1>1, <1>5 DEF BlockSender, TypeOK
  <2>2. UNCHANGED <<node, ready, online, ack, wack, msg, nt, wt, channel, job, inbox, acks>>
    BY <1>5 DEF BlockSender, fanVars, nodeVars, connVars
  <2>3. Outstanding(v) \subseteq Outstanding(v)'
    BY <2>2 DEF Outstanding
  <2> QED
    BY <1>1, <2>1, <2>2, <2>3, Undisturbed
<1>6. ASSUME NEW n \in Nodes, RegisterClient(u, n)
      PROVE  RowsHeld(k, v)'
  <2>1. UNCHANGED <<dbVars, fanVars, nodeVars, ready, online, inbox, acks>>
    BY <1>6 DEF RegisterClient
  <2>2. ~ready'[u] /\ \A w \in Users \ {u} : node'[w] = node[w]
    BY <1>1, <1>6, ServedAtNode, ConstantsAssumption DEF RegisterClient, TypeOK
  <2> QED
    BY <1>3, <1>4, <2>1, <2>2 DEF dbVars, fanVars, nodeVars
<1>7. CASE RegisterPresence(u) \/ PresenceGone(u)
  <2>1. UNCHANGED <<dbVars, fanVars, nodeVars, node, ready, online, inbox, acks>>
    BY <1>7 DEF RegisterPresence, PresenceGone
  <2>2. AllHeld'
    BY <1>1, <2>1, Untouched DEF dbVars, fanVars, nodeVars
  <2> QED
    BY <2>2 DEF AllHeld, NoneCut
<1>8. CASE StreamReady(u)
  <2>1. UNCHANGED <<dbVars, fanVars, nodeVars, node, inbox, acks>>
    BY <1>8 DEF StreamReady
  <2>2. /\ online'[u].at = "read"
        /\ \A w \in Users \ {u} : ready'[w] = ready[w] /\ online'[w] = online[w]
    BY <1>1, <1>8 DEF StreamReady, TypeOK
  <2>3. CASE u = v
    BY <2>2, <2>3 DEF RowsHeld, MessageDue, WithdrawalDue
  <2> QED
    BY <1>4, <2>1, <2>2, <2>3 DEF dbVars, fanVars, nodeVars
<1>9. CASE PushUnreadRead(u) \/ PushUnreadWithdrawRead(u)
  <2>1. UNCHANGED <<dbVars, fanVars, nodeVars, node, ready, inbox, acks>>
    BY <1>9 DEF PushUnreadRead, PushUnreadWithdrawRead
  <2>2. \A w \in Users \ {u} : online'[w] = online[w]
    BY <1>1, <1>9 DEF PushUnreadRead, PushUnreadWithdrawRead, TypeOK
  <2>3. CASE u = v
    BY <1>9, <2>3, PushHolds
  <2> QED
    BY <1>4, <2>1, <2>2, <2>3 DEF dbVars, fanVars, nodeVars
<1>10. CASE PushUnreadSend(u)
  <2>1. UNCHANGED <<dbVars, fanVars, nodeVars, node, ready, acks>>
    BY <1>10 DEF PushUnreadSend
  <2>2. \A w \in Users \ {u} : online'[w] = online[w] /\ inbox'[w] = inbox[w]
    BY <1>1, <1>10 DEF PushUnreadSend, TypeOK
  <2>3. CASE u = v
    BY <1>10, <2>3, SendHolds
  <2> QED
    BY <1>4, <2>1, <2>2, <2>3 DEF dbVars, fanVars, nodeVars
<1>11. CASE ConnLost(u)
  <2>1. UNCHANGED <<dbVars, fanVars, nodeVars>>
    BY <1>11 DEF ConnLost
  <2>2. /\ ~ready'[u]
        /\ \A w \in Users \ {u} :
             /\ node'[w] = node[w] /\ ready'[w] = ready[w] /\ online'[w] = online[w]
             /\ inbox'[w] = inbox[w] /\ acks'[w] = acks[w]
    BY <1>1, <1>11 DEF ConnLost, TypeOK
  <2> QED
    BY <1>3, <1>4, <2>1, <2>2 DEF dbVars, fanVars, nodeVars
<1>12. CASE ClientReceive(u)
  <2>1. UNCHANGED <<dbVars, fanVars, nodeVars, node, ready, online>>
    BY <1>12 DEF ClientReceive
  <2>2. \A w \in Users \ {u} : inbox'[w] = inbox[w] /\ acks'[w] = acks[w]
    BY <1>1, <1>12 DEF ClientReceive, TypeOK
  <2>3. Outstanding(u) \subseteq Outstanding(u)'
    <3>1. inbox[u] # <<>> /\ inbox'[u] = Tail(inbox[u]) /\ acks'[u] = acks[u] \cup {Head(inbox[u])}
      BY <1>1, <1>12 DEF ClientReceive, TypeOK
    <3>2. Range(inbox[u]) = Range(Tail(inbox[u])) \cup {Head(inbox[u])}
      BY <1>1, <3>1, RangeTail DEF TypeOK
    <3> QED
      BY <3>1, <3>2 DEF Outstanding
  <2>4. CASE u = v
    BY <1>1, <2>1, <2>3, <2>4, Undisturbed DEF dbVars, fanVars, nodeVars
  <2> QED
    BY <1>4, <2>1, <2>2, <2>4 DEF dbVars, fanVars, nodeVars
<1>13. ASSUME NEW f \in acks[u], HandleAck(u, f)
       PROVE  RowsHeld(k, v)'
  <2>1. UNCHANGED <<msg, blocked, fanVars, nodeVars, node, ready, online, inbox>>
    BY <1>13 DEF HandleAck
  <2>2. f.m \in Mids
    BY <1>1 DEF TypeOK, Frames
  <2>3. \A w \in Users \ {u} :
          acks'[w] = acks[w] /\ ack'[k][w] = ack[k][w] /\ wack'[k][w] = wack[k][w]
    BY <1>1, <1>13, <2>2 DEF HandleAck, TypeOK
  <2>4. CASE u = v
    BY <1>13, <2>4, AckHolds
  <2>5. CASE u # v
    BY <1>1, <2>1, <2>3, <2>5, OwnRowsOnly DEF fanVars, nodeVars
  <2> QED
    BY <2>4, <2>5
<1> QED
  BY <1>2, <1>5, <1>6, <1>7, <1>8, <1>9, <1>10, <1>11, <1>12, <1>13

-----------------------------------------------------------------------------
(* The invariant, and the properties that follow.                          *)

LEMMA InitIInv == Init => IInv
<1> SUFFICES ASSUME Init PROVE IInv
  OBVIOUS
<1>1. TypeOK
  <2>1. ack \in [Mids -> [Users -> AckStates]] /\ wack \in [Mids -> [Users -> AckStates]]
    BY DEF Init, AckStates
  <2>2. online \in [Users -> [at : OnlineStages, batch : Seq(Mids)]]
    BY DEF Init, OnlineStages
  <2>3. channel \in [Nodes -> Seq(Envelopes)] /\ inbox \in [Users -> Seq(Frames)]
    BY DEF Init
  <2> QED
    BY <2>1, <2>2, <2>3 DEF Init, TypeOK, NotifyStages
<1>2. StagesAgree /\ FirstChecksOnly /\ StreamsKnown
  BY DEF Init, StagesAgree, FirstChecksOnly, StreamsKnown
<1>3. AllHeld
  BY DEF Init, AllHeld, RowsHeld, MessageDue, WithdrawalDue, Served
<1> QED
  BY <1>1, <1>2, <1>3 DEF IInv

LEMMA NextIInv == IInv /\ [Next]_vars => IInv'
<1> SUFFICES ASSUME IInv, [Next]_vars PROVE IInv'
  OBVIOUS
<1>1. TypeOK' /\ StagesAgree' /\ FirstChecksOnly' /\ StreamsKnown'
  BY TypesKept, StagesKept, FirstChecksKept, StreamsKept DEF IInv
<1>2. AllHeld'
  <2>1. CASE UNCHANGED vars
    BY <2>1, Untouched DEF IInv, vars, dbVars, fanVars, nodeVars, connVars
  <2> QED
    BY <2>1, StoreHolds, NodeHolds, TaskHolds, UserHolds DEF Next
<1> QED
  BY <1>1, <1>2 DEF IInv

(* The invariant holds in every reachable state.                           *)
THEOREM Invariance == Spec => []IInv
BY InitIInv, NextIInv, PTL DEF Spec

(* Every variable of the delivery keeps its type: the rows, stages,        *)
(* envelopes, tasks and frames of PrepareRoomMessageNotify, the subscriber *)
(* goroutine, the queue handlers and the streams.                          *)
THEOREM TypeCorrect == Spec => []TypeOK
<1>1. IInv => TypeOK
  BY DEF IInv
<1> QED
  BY <1>1, Invariance, PTL

(* Nothing falls between live delivery and the push of unread messages     *)
(* (onClientOnline, pushUnreadMessages, HandleRoomMessageDeliver), for any *)
(* number of nodes, members and messages within the LIMIT of the query.    *)
THEOREM NothingFallsBetweenHolds == Spec => []NothingFallsBetween
<1>1. IInv => NothingFallsBetween
  <2> SUFFICES ASSUME IInv, NoneCut, NEW m \in Mids, NEW u \in Users, Served(u)
               PROVE  /\ /\ Sender[m] \notin blocked[u]
                         /\ online[u].at \notin {"read", "send"} /\ nt[m] = "done"
                         /\ ack[m][u] = "pending" /\ msg[m] = "stored"
                         /\ ~InFlight({"deliver"}, m, u)
                         => Frame("msg", m) \in Outstanding(u)
                      /\ /\ online[u].at = "idle" /\ wt[m] = "done"
                         /\ wack[m][u] = "pending" /\ ~InFlight({"withdraw"}, m, u)
                         => Frame("wd", m) \in Outstanding(u)
    BY DEF NothingFallsBetween, Served, NoneCut
  <2>1. RowsHeld(m, u)
    BY DEF IInv, AllHeld
  <2>2. ASSUME NEW kind, Covered(node[u], kind, m, u)
        PROVE  InFlight({kind}, m, u)
    <3>1. node[u] \in Nodes
      BY ServedAtNode DEF IInv, Served
    <3> QED
      BY <2>2, <3>1 DEF Covered, InFlight
  <2> QED
    BY <2>1, <2>2 DEF RowsHeld, MessageDue, MessageHeld, WithdrawalDue, WithdrawalHeld, InBatch
<1> QED
  BY <1>1, Invariance, PTL

(* An acknowledged row stays acknowledged: HandleRoomMessageAckCheck's     *)
(* UPDATE to "timed out" has no condition on the state, but no check that  *)
(* finds its retries exhausted is ever scheduled; CreateAcks and           *)
(* PrepareRoomMessageWithdraw write rows that were absent.                 *)
THEOREM AckedStaysAckedHolds == Spec => AckedStaysAcked
<1> DEFINE Kept == \A m \in Mids, u \in Users :
             /\ ack[m][u] = "received" => ack'[m][u] = "received"
             /\ wack[m][u] = "received" => wack'[m][u] = "received"
<1>1. ASSUME IInv, [Next]_vars
      PROVE  Kept
  <2>1. TypeOK /\ FirstChecksOnly /\ StagesAgree
    BY <1>1 DEF IInv
  <2>2. CASE UNCHANGED <<ack, wack>>
    BY <2>2
  <2>3. ASSUME NEW k \in Mids, CreateAcks(k)
        PROVE  Kept
    BY <2>1, <2>3 DEF CreateAcks, StagesAgree, TypeOK
  <2>4. ASSUME NEW k \in Mids, PrepareRoomMessageWithdraw(k)
        PROVE  Kept
    BY <2>1, <2>4 DEF PrepareRoomMessageWithdraw, StagesAgree, TypeOK
  <2>5. CASE StoreStep
    BY <1>1, <2>2, <2>3, <2>4, <2>5 DEF StoreStep, StoreMessage, PrepareRoomMessageNotify,
       FanoutRoomMessageDelivery, WithdrawMessage, FanoutRoomWithdrawDelivery, dbVars
  <2>6. CASE NodeStep
    BY <2>2, <2>6 DEF NodeStep, Dispatch, LoseEnvelope, DeliverTo, dbVars
  <2>7. CASE TaskStep
    BY <2>1, <2>2, <2>7, ChecksChangeNoRow DEF TaskStep, AckCheckRead, Resend, dbVars
  <2>8. ASSUME NEW u \in Users, NEW f \in acks[u], HandleAck(u, f)
        PROVE  Kept
    <3>1. f.m \in Mids
      BY <2>1 DEF TypeOK, Frames
    <3> QED
      BY <2>1, <2>8, <3>1 DEF HandleAck, TypeOK
  <2>9. CASE UserStep
    BY <2>2, <2>8, <2>9 DEF UserStep, BlockSender, RegisterClient, RegisterPresence, StreamReady,
       PushUnreadRead, PushUnreadWithdrawRead, PushUnreadSend, ConnLost, PresenceGone,
       ClientReceive, dbVars
  <2>10. CASE UNCHANGED vars
    BY <2>2, <2>10 DEF vars, dbVars
  <2> QED
    BY <1>1, <2>5, <2>6, <2>7, <2>9, <2>10 DEF Next
<1>2. IInv /\ [Next]_vars => [Kept]_vars
  BY <1>1
<1> QED
  BY <1>2, Invariance, PTL DEF Spec, AckedStaysAcked

-----------------------------------------------------------------------------
(* RoomSend.                                                               *)

USE DEF Goto, Tell, WGoto, Visible, reqVars, redisVars, rowVars, wVars

(* Withdraw requests look at rows and contents only. *)
LEMMA WithdrawUndisturbed ==
  ASSUME SendInv, UNCHANGED <<row, live, holder, wVars>>
  PROVE  WithdrawHoldsRow' /\ ContentsMatchRow'
BY DEF SendInv, WithdrawHoldsRow, ContentsMatchRow

(* A request may move on without touching its row when it stays on its     *)
(* side of the INSERT and only confirms a row it can see.                  *)
LEMMA StepWithoutRow ==
  ASSUME SendInv,
         NEW r \in Reqs, NEW s \in Stages \ {"contents", "commit"},
         pc[r] \notin {"contents", "commit"},
         Goto(r, s), Before(r)' => Before(r),
         found' \in [Reqs -> Reqs \cup {Absent}], reply' \in [Reqs -> Replies],
         \A q \in Reqs \ {r} : found'[q] = found[q] /\ reply'[q] = reply[q],
         s \in {"publish", "receipt"} \/ reply'[r] = "receipt"
           => found'[r] \in RowsOf(Cmid[r]),
         UNCHANGED <<seq, row, live, holder, wVars>>
  PROVE  SendInv'
<1>1. Shape'
  BY DEF SendInv, Shape
<1>2. RowFollowsPc'
  BY DEF SendInv, Shape, RowFollowsPc, Before
<1>3. NoClash'
  BY DEF SendInv, NoClash, Clash
<1>4. FoundIsStored'
  BY DEF SendInv, Shape, FoundIsStored, RowsOf
<1>5. WithdrawHoldsRow' /\ ContentsMatchRow'
  BY WithdrawUndisturbed
<1> QED
  BY <1>1, <1>2, <1>3, <1>4, <1>5 DEF SendInv

(* The steps of handlerRoomMessage that leave the rows alone.              *)
LEMMA QuietStepKeeps ==
  ASSUME SendInv, NEW r \in Reqs,
         \/ TakeLock(r) \/ Lookup(r) \/ StatementFails(r) \/ Check(r)
         \/ SeqGet(r) \/ SeqMax(r)
         \/ SeqSetNX(r) \/ Recheck(r) \/ PublishEvent(r) \/ Receipt(r) \/ Unlock(r)
  PROVE  SendInv'
<1> USE DEF SendInv, Shape, Stages, Replies, Before
<1> DEFINE FoundVisible(q) == \E p \in RowsOf(Cmid[q]) : found' = [found EXCEPT ![q] = p]
<1>1. CASE TakeLock(r)
  BY <1>1, StepWithoutRow DEF TakeLock, FoundIsStored
<1>2. CASE Lookup(r)
  <2> USE <1>2 DEF Lookup, FoundIsStored
  <2>1. CASE Goto(r, "check") /\ UNCHANGED found
    BY <2>1, StepWithoutRow
  <2>2. CASE Goto(r, "receipt") /\ FoundVisible(r)
    <3>1. /\ found' \in [Reqs -> Reqs \cup {Absent}] /\ found'[r] \in RowsOf(Cmid[r])
          /\ \A q \in Reqs \ {r} : found'[q] = found[q]
      BY <2>2 DEF FoundVisible, RowsOf
    <3> QED
      BY <2>2, <3>1, StepWithoutRow DEF RowsOf
  <2> QED
    BY <2>1, <2>2
<1>3. CASE Check(r)
  <2> USE <1>3 DEF Check, FoundIsStored
  <2>1. CASE Goto(r, "get") /\ UNCHANGED reply
    BY <2>1, StepWithoutRow
  <2>2. CASE Goto(r, "unlock") /\ Tell(r, "rejected")
    <3>1. reply'[r] = "rejected" /\ \A q \in Reqs \ {r} : reply'[q] = reply[q]
      BY <2>2
    <3> QED
      BY <2>2, <3>1, StepWithoutRow
  <2> QED
    BY <2>1, <2>2
<1>4. CASE SeqGet(r)
  BY <1>4, StepWithoutRow DEF SeqGet, FoundIsStored
<1>5. CASE SeqMax(r)
  BY <1>5, StepWithoutRow DEF SeqMax, FoundIsStored
<1>6. CASE SeqSetNX(r)
  BY <1>6, StepWithoutRow DEF SeqSetNX, FoundIsStored
<1>7. CASE Recheck(r)
  <2> USE <1>7 DEF Recheck, FoundIsStored
  <2>1. CASE Goto(r, "create") /\ UNCHANGED found
    BY <2>1, StepWithoutRow
  <2>2. CASE Goto(r, "receipt") /\ FoundVisible(r)
    <3>1. /\ found' \in [Reqs -> Reqs \cup {Absent}] /\ found'[r] \in RowsOf(Cmid[r])
          /\ \A q \in Reqs \ {r} : found'[q] = found[q]
      BY <2>2 DEF FoundVisible, RowsOf
    <3> QED
      BY <2>2, <3>1, StepWithoutRow DEF RowsOf
  <2> QED
    BY <2>1, <2>2
<1>8. CASE PublishEvent(r)
  BY <1>8, StepWithoutRow DEF PublishEvent, FoundIsStored
<1>9. CASE Receipt(r)
  BY <1>9, StepWithoutRow DEF Receipt, FoundIsStored
<1>10. CASE Unlock(r)
  BY <1>10, StepWithoutRow DEF Unlock, FoundIsStored
<1>11. CASE StatementFails(r)
  <2>1. reply'[r] = "failed" /\ \A q \in Reqs \ {r} : reply'[q] = reply[q]
    BY <1>11 DEF StatementFails, Fail
  <2> QED
    BY <1>11, <2>1, StepWithoutRow DEF StatementFails, Fail, FoundIsStored
<1> QED
  BY <1>1, <1>2, <1>3, <1>4, <1>5, <1>6, <1>7, <1>8, <1>9, <1>10, <1>11

(* GetRoomSeqId gives its number to a request that has no row yet.         *)
LEMMA SeqIncrKeeps ==
  ASSUME SendInv, NEW r \in Reqs, SeqIncr(r)
  PROVE  SendInv'
<1>1. Before(r) /\ row[r] = "none"
  BY DEF SendInv, RowFollowsPc, Before, SeqIncr
<1>2. Shape'
  BY DEF SendInv, Shape, Stages, SeqIncr
<1>3. RowFollowsPc'
  BY <1>1 DEF SendInv, Shape, RowFollowsPc, Before, SeqIncr
<1>4. NoClash'
  BY <1>1 DEF SendInv, Shape, NoClash, Clash, SeqIncr
<1>5. FoundIsStored'
  BY DEF SendInv, Shape, FoundIsStored, RowsOf, SeqIncr
<1>6. WithdrawHoldsRow' /\ ContentsMatchRow'
  BY WithdrawUndisturbed DEF SeqIncr
<1> QED
  BY <1>2, <1>3, <1>4, <1>5, <1>6 DEF SendInv

(* The INSERT adds a row that clashes with no other, committed or not.     *)
LEMMA CreateKeeps ==
  ASSUME SendInv, NEW r \in Reqs, Create(r)
  PROVE  SendInv'
<1>1. CASE Fail(r) /\ UNCHANGED row
  BY <1>1, StepWithoutRow
     DEF SendInv, Shape, Stages, Replies, Before, FoundIsStored, Create, Fail
<1>2. CASE /\ \A q \in Reqs : row[q] # "none" => ~Clash(r, q)
           /\ Goto(r, "contents") /\ UNCHANGED reply
           /\ row' = [row EXCEPT ![r] = "uncommitted"]
  <2>1. row[r] = "none"
    BY DEF SendInv, RowFollowsPc, Before, Create
  <2>2. Shape'
    BY <1>2 DEF SendInv, Shape, Stages, RowStates, Create
  <2>3. RowFollowsPc'
    BY <1>2 DEF SendInv, Shape, RowFollowsPc, Before, Create
  <2>4. NoClash'
    BY <1>2, <2>1 DEF SendInv, Shape, NoClash, Clash, Create
  <2>5. FoundIsStored'
    BY <1>2, <2>1 DEF SendInv, Shape, FoundIsStored, RowsOf, Create
  <2>6. WithdrawHoldsRow'
    BY <1>2, <2>1 DEF SendInv, Shape, WithdrawHoldsRow, Create
  <2>7. ContentsMatchRow'
    BY <1>2 DEF SendInv, Shape, ContentsMatchRow, Create
  <2> QED
    BY <2>2, <2>3, <2>4, <2>5, <2>6, <2>7 DEF SendInv
<1>3. (\E q \in Reqs : Visible(q) /\ Clash(r, q))
        \/ (\A q \in Reqs : row[q] # "none" => ~Clash(r, q))
  BY DEF SendInv, Shape, RowStates, Create, WaitsFor
<1> QED
  BY <1>1, <1>2, <1>3 DEF SendInv, Shape, RowStates, Create, WaitsFor

(* Ending the open transaction of a request without a row: the row nobody  *)
(* else can see disappears.                                                *)
LEMMA RollbackKeeps ==
  ASSUME SendInv, NEW r \in Reqs, NEW s \in {"unlock", "done"},
         row[r] = "uncommitted", Goto(r, s),
         row' = [row EXCEPT ![r] = "none"],
         live' \in [Reqs -> SUBSET (Withdrawers \cup {"body"})],
         found' \in [Reqs -> Reqs \cup {Absent}], reply' \in [Reqs -> Replies],
         \A q \in Reqs \ {r} : /\ live'[q] = live[q] /\ found'[q] = found[q]
                               /\ reply'[q] = reply[q],
         reply'[r] = "receipt" => reply[r] = "receipt" /\ found'[r] = found[r],
         UNCHANGED <<seq, holder, wVars>>
  PROVE  SendInv'
<1>1. Shape'
  BY DEF SendInv, Shape, Stages, RowStates
<1>2. RowFollowsPc'
  BY DEF SendInv, Shape, RowFollowsPc, Before
<1>3. NoClash'
  BY DEF SendInv, Shape, NoClash, Clash
<1>4. FoundIsStored'
  BY DEF SendInv, Shape, FoundIsStored, RowsOf
<1>5. WithdrawHoldsRow'
  BY DEF SendInv, Shape, WithdrawHoldsRow, WStages
<1>6. ContentsMatchRow'
  BY DEF SendInv, Shape, ContentsMatchRow
<1> QED
  BY <1>1, <1>2, <1>3, <1>4, <1>5, <1>6 DEF SendInv

(* Storing the contents keeps the transaction open or rolls it back.       *)
LEMMA CreateContentsKeeps ==
  ASSUME SendInv, NEW r \in Reqs, CreateContents(r)
  PROVE  SendInv'
<1>1. row[r] = "uncommitted"
  BY DEF SendInv, RowFollowsPc, CreateContents
<1>2. CASE Goto(r, "commit") /\ UNCHANGED <<reply, row>>
  <2>1. Shape'
    BY <1>2 DEF SendInv, Shape, Stages, CreateContents
  <2>2. RowFollowsPc'
    BY <1>1, <1>2 DEF SendInv, Shape, RowFollowsPc, Before, CreateContents
  <2>3. NoClash'
    BY <1>2 DEF SendInv, NoClash, Clash, CreateContents
  <2>4. FoundIsStored'
    BY <1>2 DEF SendInv, Shape, FoundIsStored, RowsOf, CreateContents
  <2>5. WithdrawHoldsRow' /\ ContentsMatchRow'
    BY <1>2, WithdrawUndisturbed DEF CreateContents
  <2> QED
    BY <2>1, <2>2, <2>3, <2>4, <2>5 DEF SendInv
<1>3. CASE Goto(r, "unlock") /\ Rollback(r) /\ (Tell(r, "failed") \/ Tell(r, "rejected"))
  <2>1. /\ reply' \in [Reqs -> Replies] /\ reply'[r] # "receipt"
        /\ \A q \in Reqs \ {r} : reply'[q] = reply[q]
    BY <1>3 DEF SendInv, Shape, Replies
  <2>2. found' = found /\ live' = live /\ UNCHANGED <<seq, holder, wVars>>
    BY DEF CreateContents
  <2> QED
    BY <1>1, <1>3, <2>1, <2>2, RollbackKeeps DEF SendInv, Shape, Rollback
<1> QED
  BY <1>2, <1>3 DEF CreateContents, Fail

(* Commit makes the row visible with its body, or it disappears; the       *)
(* client is never told of success when it was not applied.                *)
LEMMA CommitKeeps ==
  ASSUME SendInv, NEW r \in Reqs, Commit(r)
  PROVE  SendInv'
<1>1. row[r] = "uncommitted"
  BY DEF SendInv, RowFollowsPc, Commit
<1>2. CASE /\ Goto(r, "unlock") /\ row' = [row EXCEPT ![r] = "none"]
           /\ Tell(r, "failed")
           /\ live' = [live EXCEPT ![r] = {}] /\ found' = [found EXCEPT ![r] = r]
  BY <1>1, <1>2, RollbackKeeps DEF SendInv, Shape, Replies, Commit
<1>3. CASE /\ \/ Goto(r, "publish") /\ reply' = reply
              \/ Goto(r, "unlock") /\ Tell(r, "failed")
           /\ row' = [row EXCEPT ![r] = "stored"]
           /\ live' = [live EXCEPT ![r] = {"body"}]
           /\ found' = [found EXCEPT ![r] = r]
  <2>1. Shape'
    BY <1>3, SendAssumption DEF SendInv, Shape, Stages, RowStates, Replies, Commit
  <2>2. RowFollowsPc'
    BY <1>3 DEF SendInv, Shape, RowFollowsPc, Before, Commit
  <2>3. NoClash'
    BY <1>1, <1>3 DEF SendInv, Shape, NoClash, Clash, Commit
  <2>4. FoundIsStored'
    BY <1>3 DEF SendInv, Shape, FoundIsStored, RowsOf, Commit
  <2>5. WithdrawHoldsRow'
    BY <1>1, <1>3 DEF SendInv, Shape, WithdrawHoldsRow, WStages, Commit
  <2>6. ContentsMatchRow'
    BY <1>3 DEF SendInv, Shape, ContentsMatchRow, Commit
  <2> QED
    BY <2>1, <2>2, <2>3, <2>4, <2>5, <2>6 DEF SendInv
<1> QED
  BY <1>2, <1>3 DEF Commit, AfterCommit

(* A crash leaves the committed rows and rolls back the open transaction.  *)
LEMMA CrashKeeps ==
  ASSUME SendInv, NEW r \in Reqs, Crash(r)
  PROVE  SendInv'
<1>1. CASE row[r] = "uncommitted"
  BY <1>1, RollbackKeeps DEF SendInv, Shape, Crash
<1>2. CASE row[r] # "uncommitted"
  BY <1>2, StepWithoutRow
     DEF SendInv, Shape, RowFollowsPc, Stages, Before, FoundIsStored, Crash
<1> QED
  BY <1>1, <1>2

(* A withdraw request changes nothing the requests' parts speak of: it may *)
(* turn a visible row into a withdrawn one.                                *)
LEMMA RequestsUndisturbed ==
  ASSUME SendInv, UNCHANGED reqVars,
         \A r \in Reqs : row'[r] = row[r] \/ (Visible(r) /\ row'[r] = "withdrawn")
  PROVE  RowFollowsPc' /\ NoClash' /\ FoundIsStored'
<1>1. RowFollowsPc'
  BY DEF SendInv, RowFollowsPc, Before
<1>2. NoClash'
  BY DEF SendInv, NoClash, Clash
<1>3. FoundIsStored'
  BY DEF SendInv, FoundIsStored, RowsOf
<1> QED
  BY <1>1, <1>2, <1>3

(* WithdrawRead picks a stored row.                                        *)
LEMMA WithdrawReadKeeps ==
  ASSUME SendInv, NEW w \in Withdrawers, WithdrawRead(w)
  PROVE  SendInv'
<1>1. Shape'
  BY DEF SendInv, Shape, WStages, WithdrawRead
<1>2. RowFollowsPc' /\ NoClash' /\ FoundIsStored'
  BY RequestsUndisturbed DEF WithdrawRead
<1>3. WithdrawHoldsRow'
  BY DEF SendInv, Shape, WithdrawHoldsRow, WithdrawRead
<1>4. ContentsMatchRow'
  BY DEF SendInv, ContentsMatchRow, WithdrawRead
<1> QED
  BY <1>1, <1>2, <1>3, <1>4 DEF SendInv

(* WithdrawUpdate locks a row nobody holds, so no other withdraw           *)
(* transaction is past its own UPDATE of that row.                         *)
LEMMA WithdrawUpdateKeeps ==
  ASSUME SendInv, NEW w \in Withdrawers, WithdrawUpdate(w)
  PROVE  SendInv'
<1>1. /\ target[w] \in Reqs
      /\ \A v \in Withdrawers :
           wpc[v] \in {"delete", "insert", "commit"} => target[v] # target[w]
  BY SendAssumption DEF SendInv, WithdrawHoldsRow, WithdrawUpdate, RowFree
<1>2. Shape'
  BY <1>1 DEF SendInv, Shape, WStages, WithdrawUpdate
<1>3. RowFollowsPc' /\ NoClash' /\ FoundIsStored'
  BY RequestsUndisturbed DEF WithdrawUpdate
<1>4. WithdrawHoldsRow'
  BY <1>1 DEF SendInv, Shape, WithdrawHoldsRow, WithdrawUpdate
<1>5. ContentsMatchRow'
  BY DEF SendInv, ContentsMatchRow, WithdrawUpdate
<1> QED
  BY <1>2, <1>3, <1>4, <1>5 DEF SendInv

(* The steps between UPDATE and Commit, and the announcement: a row that   *)
(* is held keeps its contents.                                             *)
LEMMA WithdrawInsideKeeps ==
  ASSUME SendInv, NEW w \in Withdrawers,
         WithdrawDelete(w) \/ WithdrawInsert(w) \/ WithdrawPublish(w)
  PROVE  SendInv'
<1> USE DEF WithdrawDelete, WithdrawInsert, WithdrawPublish
<1>1. target[w] \in Reqs
  BY DEF SendInv, WithdrawHoldsRow
<1>2. Shape'
  BY <1>1 DEF SendInv, Shape, WStages
<1>3. RowFollowsPc' /\ NoClash' /\ FoundIsStored'
  BY RequestsUndisturbed
<1>4. WithdrawHoldsRow'
  BY <1>1 DEF SendInv, Shape, WithdrawHoldsRow
<1>5. ContentsMatchRow'
  BY DEF SendInv, ContentsMatchRow
<1> QED
  BY <1>2, <1>3, <1>4, <1>5 DEF SendInv

(* WithdrawCommit replaces all contents by one notice and frees the row;   *)
(* no other withdraw transaction is inside on that row.                    *)
LEMMA WithdrawCommitKeeps ==
  ASSUME SendInv, NEW w \in Withdrawers, WithdrawCommit(w)
  PROVE  SendInv'
<1>1. /\ target[w] \in Reqs /\ Visible(target[w]) /\ gone[w] = live[target[w]]
      /\ \A v \in Withdrawers \ {w} :
           wpc[v] \in {"delete", "insert", "commit"} => target[v] # target[w]
  BY DEF SendInv, WithdrawHoldsRow, WithdrawCommit
<1>2. Shape'
  BY <1>1, SendAssumption DEF SendInv, Shape, WStages, RowStates, WithdrawCommit
<1>3. RowFollowsPc' /\ NoClash' /\ FoundIsStored'
  BY <1>1, RequestsUndisturbed DEF SendInv, Shape, WithdrawCommit
<1>4. WithdrawHoldsRow'
  BY <1>1 DEF SendInv, Shape, WithdrawHoldsRow, WithdrawCommit
<1>5. ContentsMatchRow'
  BY <1>1 DEF SendInv, Shape, ContentsMatchRow, WithdrawCommit
<1> QED
  BY <1>2, <1>3, <1>4, <1>5 DEF SendInv

(* A fault of Redis or a stuttering step changes no row and no request.    *)
LEMMA FaultKeeps ==
  ASSUME SendInv, SeqKeyLost \/ (\E cm \in Cmids : LockExpires(cm)) \/ UNCHANGED sendVars
  PROVE  SendInv'
<1>1. UNCHANGED <<reqVars, rowVars, wVars>>
  BY DEF SeqKeyLost, LockExpires, sendVars
<1>2. Shape'
  BY <1>1 DEF SendInv, Shape
<1>3. RowFollowsPc' /\ NoClash' /\ FoundIsStored'
  BY <1>1, RequestsUndisturbed
<1>4. WithdrawHoldsRow' /\ ContentsMatchRow'
  BY <1>1, WithdrawUndisturbed
<1> QED
  BY <1>2, <1>3, <1>4 DEF SendInv

(* The inductive invariant holds in every reachable state: rows that exist *)
(* never clash, a transaction is open exactly between INSERT and Commit,   *)
(* and a withdraw transaction works alone on its row.                      *)
THEOREM SendInvariance == SendSpec => []SendInv
<1>1. SendInit => SendInv
  BY SendAssumption
     DEF SendInit, SendInv, Shape, RowFollowsPc, NoClash, FoundIsStored, WithdrawHoldsRow,
         ContentsMatchRow, Before, Stages, RowStates, Replies, WStages
<1>2. ASSUME SendInv, [SendNext]_sendVars PROVE SendInv'
  <2>1. ASSUME NEW r \in Reqs, SendStep(r) \/ StatementFails(r) \/ Crash(r) PROVE SendInv'
    BY <1>2, <2>1, QuietStepKeeps, SeqIncrKeeps, CreateKeeps, CreateContentsKeeps,
       CommitKeeps, CrashKeeps DEF SendStep
  <2>2. ASSUME NEW w \in Withdrawers, WithdrawStep(w) PROVE SendInv'
    BY <1>2, <2>2, WithdrawReadKeeps, WithdrawUpdateKeeps, WithdrawInsideKeeps,
       WithdrawCommitKeeps DEF WithdrawStep
  <2> QED
    BY <1>2, <2>1, <2>2, FaultKeeps DEF SendNext
<1> QED
  BY <1>1, <1>2, PTL DEF SendSpec

(* handlerRoomMessage stores one row per client_mid and never stores a seq *)
(* id twice, for any number of attempts, lost locks, crashes and failed    *)
(* commits.                                                                *)
THEOREM OneRowPerClientMidHolds == SendSpec => []OneRowPerClientMid
<1>1. SendInv => OneRowPerClientMid
  BY DEF SendInv, NoClash, Clash, OneRowPerClientMid
<1> QED
  BY SendInvariance, <1>1, PTL

(* deliverAcceptedRoomMessageToSender confirms committed rows only, of the *)
(* client_mid the client sent.                                             *)
THEOREM ReceiptMeansStoredHolds == SendSpec => []ReceiptMeansStored
<1>1. SendInv => ReceiptMeansStored
  BY DEF SendInv, FoundIsStored, ReceiptMeansStored
<1> QED
  BY SendInvariance, <1>1, PTL

(* Whatever withdraw requests overlap, a stored message shows its body and *)
(* a withdrawn one exactly one notice.                                     *)
THEOREM ContentsMatchRowHolds == SendSpec => []ContentsMatchRow
<1>1. SendInv => ContentsMatchRow
  BY DEF SendInv
<1> QED
  BY SendInvariance, <1>1, PTL

-----------------------------------------------------------------------------
(* The types of everything else. GetRoomSeqId reads SELECT MAX(seq_id):    *)
(* the maximum exists because finitely many attempts have begun.           *)

Started == {r \in Reqs : pc[r] # "idle"}

Flags == has \in [Reqs -> BOOLEAN] /\ lock \in [Cmids -> BOOLEAN] /\ published \subseteq Reqs
Numbers == counter \in Nat \cup {Absent} /\ maxSeq \in [Reqs -> Nat] /\ seq \in [Reqs -> Nat]
Faults == losses \in 0 .. MaxKeyLosses /\ expiries \in 0 .. MaxExpiries

Rest == IsFiniteSet(Started) /\ Flags /\ Numbers /\ Faults

(* Otherwise take the smallest size of a set without a maximum: removing   *)
(* an element leaves a set that has one.                                   *)
LEMMA MaxIsMember ==
  ASSUME NEW S \in SUBSET Nat, IsFiniteSet(S), S # {}
  PROVE  Max(S) \in S
<1> DEFINE HasMax(T) == \E x \in T : \A y \in T : x >= y
           Bad == {n \in Nat : \E T \in SUBSET Nat : /\ IsFiniteSet(T) /\ T # {}
                                                     /\ Cardinality(T) = n /\ ~HasMax(T)}
<1>1. Bad = {}
  <2> SUFFICES ASSUME Bad # {} PROVE FALSE
    OBVIOUS
  <2>1. PICK n \in Bad : \A m \in Bad : ~(<<m, n>> \in OpToRel(<, Nat))
    <3>1. Bad \subseteq Nat
      OBVIOUS
    <3> HIDE DEF Bad
    <3> QED
      BY <3>1, NatLessThanWellFounded, WFMin
  <2>2. n \in Nat
    BY <2>1
  <2>3. PICK T \in SUBSET Nat : /\ IsFiniteSet(T) /\ T # {}
                                /\ Cardinality(T) = n /\ ~HasMax(T)
    BY <2>1
  <2>4. PICK x \in T : TRUE
    BY <2>3
  <2> DEFINE U == T \ {x}
  <2>5. U \in SUBSET Nat /\ IsFiniteSet(U) /\ Cardinality(U) = n - 1
    BY <2>3, <2>4, FS_RemoveElement
  <2>6. Cardinality(U) \in Nat /\ n - 1 < n
    BY <2>2, <2>5, FS_CardinalityType
  <2>7. HasMax(U)
    <3>1. CASE U = {}
      <4>1. T = {x} /\ x \in Nat
        BY <2>3, <2>4, <3>1
      <4> QED
        BY <2>3, <4>1
    <3>2. CASE U # {} /\ ~HasMax(U)
      <4>1. n - 1 \in Nat /\ n - 1 \in Bad
        BY <2>5, <2>6, <3>2
      <4>2. <<n - 1, n>> \in OpToRel(<, Nat)
        BY <2>2, <2>6, <4>1 DEF OpToRel
      <4> QED
        BY <2>1, <4>1, <4>2
    <3> QED
      BY <3>1, <3>2
  <2>8. PICK m \in U : \A y \in U : m >= y
    BY <2>7
  <2>9. \A y \in T : y = x \/ y \in U
    OBVIOUS
  <2>10. /\ m \in Nat /\ m \in T /\ x \in Nat /\ T \subseteq Nat
    BY <2>3, <2>4, <2>8
  <2>11. CASE m >= x
    BY <2>3, <2>8, <2>9, <2>10, <2>11
  <2>12. CASE x >= m
    <3>1. \A y \in T : x >= y
      BY <2>8, <2>9, <2>10, <2>12
    <3> QED
      BY <2>3, <2>4, <3>1
  <2> QED
    BY <2>10, <2>11, <2>12
<1>2. HasMax(S)
  <2>1. Cardinality(S) \in Nat
    BY FS_CardinalityType
  <2> QED
    BY <1>1, <2>1
<1> QED
  BY <1>2 DEF Max

LEMMA MaxSeqIdIsNat ==
  ASSUME SendInv, Rest
  PROVE  Max(SeqIds \cup {0}) \in Nat
<1> DEFINE V == {q \in Reqs : Visible(q)}
<1>1. V \subseteq Started
  BY DEF SendInv, RowFollowsPc, Before, Started
<1>2. IsFiniteSet(V)
  BY <1>1, FS_Subset DEF Rest
<1>3. SeqIds = {seq[q] : q \in V}
  BY DEF SeqIds
<1> DEFINE f == [q \in V |-> seq[q]]
<1>4. f \in Surjection(V, SeqIds)
  BY <1>3 DEF Surjection
<1>5. IsFiniteSet(SeqIds)
  BY <1>2, <1>4, FS_Surjection
<1>6. IsFiniteSet(SeqIds \cup {0})
  BY <1>5, FS_AddElement
<1>7. SeqIds \cup {0} \subseteq Nat
  BY <1>3 DEF Rest, Numbers
<1> QED
  BY <1>6, <1>7, MaxIsMember

LEMMA StartedFinite ==
  ASSUME IsFiniteSet(Started), NEW r \in Reqs,
         \A q \in Reqs \ {r} : pc'[q] = pc[q]
  PROVE  IsFiniteSet(Started')
<1>1. Started' \subseteq Started \cup {r}
  BY DEF Started
<1>2. IsFiniteSet(Started \cup {r})
  BY FS_AddElement
<1> QED
  BY <1>1, <1>2, FS_Subset

LEMMA StepTyped ==
  ASSUME SendInv, Rest, [SendNext]_sendVars
  PROVE  Rest'
<1>1. ASSUME NEW r \in Reqs, NEW s, Goto(r, s) PROVE IsFiniteSet(Started')
  <2>1. \A q \in Reqs \ {r} : pc'[q] = pc[q]
    BY <1>1 DEF SendInv, Shape
  <2> QED
    BY <2>1, StartedFinite DEF Rest
<1>2. /\ UNCHANGED pc => IsFiniteSet(Started')
      /\ UNCHANGED <<has, lock, published>> => Flags'
      /\ UNCHANGED <<counter, maxSeq, seq>> => Numbers'
      /\ UNCHANGED <<losses, expiries>> => Faults'
  BY DEF Rest, Started, Flags, Numbers, Faults
<1>3. ASSUME NEW r \in Reqs, TakeLock(r) PROVE Rest'
  <2>1. Flags'
    <3>1. PICK got \in BOOLEAN : /\ has' = [has EXCEPT ![r] = got]
                                 /\ lock' = IF got THEN [lock EXCEPT ![Cmid[r]] = TRUE] ELSE lock
      BY <1>3 DEF TakeLock
    <3>2. UNCHANGED published
      BY <1>3 DEF TakeLock
    <3> QED
      BY <3>1, <3>2 DEF Rest, Flags
  <2> QED
    BY <1>1, <1>2, <1>3, <2>1 DEF TakeLock, Rest
<1>4. ASSUME NEW r \in Reqs, SeqMax(r) PROVE Rest'
  <2>1. Numbers'
    BY <1>4, MaxSeqIdIsNat DEF SeqMax, Rest, Numbers
  <2> QED
    BY <1>1, <1>2, <1>4, <2>1 DEF SeqMax, Rest
<1>5. ASSUME NEW r \in Reqs, SeqSetNX(r) PROVE Rest'
  <2>1. Numbers'
    BY <1>5 DEF SeqSetNX, SetIfAbsent, Rest, Numbers
  <2> QED
    BY <1>1, <1>2, <1>5, <2>1 DEF SeqSetNX, Rest
<1>6. ASSUME NEW r \in Reqs, SeqIncr(r) PROVE Rest'
  <2>1. PICK next \in Nat : counter' = next /\ seq' = [seq EXCEPT ![r] = next]
    <3> DEFINE next == IF counter = Absent THEN 1 ELSE counter + 1
    <3>1. next \in Nat
      BY DEF Rest, Numbers
    <3>2. counter' = next /\ seq' = [seq EXCEPT ![r] = next]
      BY <1>6 DEF SeqIncr
    <3> HIDE DEF next
    <3> QED
      BY <3>1, <3>2
  <2>2. Numbers'
    BY <1>6, <2>1 DEF SeqIncr, Rest, Numbers
  <2> QED
    BY <1>1, <1>2, <1>6, <2>2 DEF SeqIncr, Rest
<1>7. ASSUME NEW r \in Reqs, Unlock(r) PROVE Rest'
  <2>1. Flags'
    BY <1>7 DEF Unlock, Rest, Flags
  <2> QED
    BY <1>1, <1>2, <1>7, <2>1 DEF Unlock, Rest
<1>8. ASSUME NEW r \in Reqs, PublishEvent(r) PROVE Rest'
  <2>1. Flags'
    BY <1>8 DEF PublishEvent, Rest, Flags
  <2> QED
    BY <1>1, <1>2, <1>8, <2>1 DEF PublishEvent, Rest
<1>9. ASSUME NEW r \in Reqs,
             \/ Lookup(r) \/ StatementFails(r) \/ Check(r) \/ SeqGet(r) \/ Recheck(r)
             \/ Create(r) \/ CreateContents(r) \/ Commit(r) \/ Receipt(r) \/ Crash(r)
      PROVE  Rest'
  <2>1. UNCHANGED <<has, lock, published, counter, maxSeq, seq, losses, expiries>>
    BY <1>9 DEF Lookup, StatementFails, Check, SeqGet, Recheck, Create, CreateContents,
                Commit, Receipt, Crash
  <2>2. \E s : Goto(r, s)
    BY <1>9 DEF Lookup, StatementFails, Check, SeqGet, Recheck, Create, CreateContents,
                Commit, Receipt, Crash, Fail
  <2> QED
    BY <1>1, <1>2, <2>1, <2>2 DEF Rest
<1>10. ASSUME NEW w \in Withdrawers, WithdrawStep(w) PROVE Rest'
  <2>1. UNCHANGED <<reqVars, redisVars, published>>
    BY <1>10 DEF WithdrawStep, WithdrawRead, WithdrawUpdate, WithdrawDelete,
                 WithdrawInsert, WithdrawCommit, WithdrawPublish
  <2> QED
    BY <1>2, <2>1 DEF Rest
<1>11. CASE SeqKeyLost
  <2>1. Numbers' /\ Faults'
    BY <1>11, SendAssumption DEF SeqKeyLost, Rest, Numbers, Faults
  <2> QED
    BY <1>2, <1>11, <2>1 DEF SeqKeyLost, Rest
<1>12. ASSUME NEW cm \in Cmids, LockExpires(cm) PROVE Rest'
  <2>1. Faults'
    BY <1>12, SendAssumption DEF LockExpires, Rest, Faults
  <2>2. Flags'
    BY <1>12 DEF LockExpires, Rest, Flags
  <2> QED
    BY <1>2, <1>12, <2>1, <2>2 DEF LockExpires, Rest
<1>13. CASE UNCHANGED sendVars
  BY <1>2, <1>13 DEF sendVars, Rest
<1> QED
  BY <1>3, <1>4, <1>5, <1>6, <1>7, <1>8, <1>9, <1>10, <1>11, <1>12, <1>13 DEF SendNext, SendStep

(* Every variable keeps its type; in particular GetRoomSeqId always finds  *)
(* a largest sequence number and hands out a number.                       *)
THEOREM SendTypeCorrect == SendSpec => []SendTypeOK
<1>1. SendInit => Rest
  <2> SUFFICES ASSUME SendInit PROVE Rest
    OBVIOUS
  <2>1. IsFiniteSet(Started)
    <3>1. Started = {}
      BY DEF SendInit, Started
    <3> QED
      BY <3>1, FS_EmptySet
  <2>2. has \in [Reqs -> BOOLEAN] /\ lock \in [Cmids -> BOOLEAN] /\ published \subseteq Reqs
    BY DEF SendInit
  <2>3. counter \in Nat \cup {Absent} /\ maxSeq \in [Reqs -> Nat] /\ seq \in [Reqs -> Nat]
    BY DEF SendInit
  <2>4. losses = 0 /\ expiries = 0
    BY DEF SendInit
  <2>5. 0 \in 0 .. MaxKeyLosses /\ 0 \in 0 .. MaxExpiries
    BY SendAssumption
  <2> QED
    BY <2>1, <2>2, <2>3, <2>4, <2>5 DEF Rest, Flags, Numbers, Faults
<1>2. SendInv /\ Rest /\ [SendNext]_sendVars => Rest'
  BY StepTyped
<1>3. SendInv /\ Rest => SendTypeOK
  BY DEF SendInv, Shape, Rest, Flags, Numbers, Faults, SendTypeOK
<1> QED
  BY SendInvariance, <1>1, <1>2, <1>3, PTL DEF SendSpec
=============================================================================
