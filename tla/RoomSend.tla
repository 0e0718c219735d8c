------------------------------ MODULE RoomSend ------------------------------
(***************************************************************************)
(* How a room message is accepted and how it is withdrawn                  *)
(* (quic/handler/message_handler.go handlerRoomMessage and                 *)
(* handlerRoomMessageWithdrawRequest, db/query/room.go GetRoomSeqId).      *)
(*                                                                         *)
(* Every frame of a client is handled by a goroutine of its own, so a      *)
(* message the client sends again runs next to the first attempt. A        *)
(* request r that inserts a row is also the identity (mid) of that row.    *)
(* Between two steps of one request anything may happen; a step is one     *)
(* Redis command or one SQL statement.                                     *)
(***************************************************************************)
EXTENDS Naturals, FiniteSets, FiniteSetsExt

CONSTANTS
  Reqs,         \* send attempts of one sender in one room
  Cmids,        \* client_mid values
  Cmid,         \* Cmid[r]: the client_mid of an attempt
  Withdrawers,  \* withdraw requests (the sender, an admin, over QUIC or HTTP)
  Absent,       \* no key, row or transaction
  MayCrash,     \* attempts whose node may die under them
  CommitUnknown,\* may Commit report an error although it took effect?
  Outcomes,     \* outcomes of a statement: subset of BOOLEAN
  MaxKeyLosses, \* bound: times Redis loses the room's sequence key
  MaxExpiries   \* bound: times a de-duplication lock outlives its 15 s

ASSUME SendAssumption ==
  /\ Cmid \in [Reqs -> Cmids]
  /\ Absent \notin Reqs \cup Cmids \cup Withdrawers \cup Nat
  /\ Withdrawers \cap {"body"} = {}
  /\ MayCrash \subseteq Reqs
  /\ CommitUnknown \in BOOLEAN
  /\ Outcomes \subseteq BOOLEAN
  /\ MaxKeyLosses \in Nat /\ MaxExpiries \in Nat

VARIABLES
  pc,       \* pc[r]: next step of handlerRoomMessage
  has,      \* has[r]: r's SetNX succeeded, so its defer deletes the key
  lock,     \* lock[cm]: the Redis de-duplication key exists
  found,    \* found[r]: the row the idempotency checks returned
  counter,  \* Redis room sequence key, Absent when it does not exist
  maxSeq,   \* maxSeq[r]: SELECT MAX(seq_id) as r read it
  seq,      \* seq[r]: the seq id r was given
  row,      \* row[r]: r's room_message row
  live,     \* live[r]: contents of that row with delete_time = 0
  holder,   \* holder[r]: the withdraw transaction that has locked the row
  published,\* rows whose EventRoomMessage has run
  reply,    \* what the client was told about r
  wpc,      \* wpc[w]: next step of handlerRoomMessageWithdrawRequest
  target,   \* target[w]: the row it found
  gone,     \* gone[w]: contents its transaction has deleted
  losses, expiries \* how often the bounded faults happened

reqVars == <<pc, has, found, maxSeq, seq, reply>>
redisVars == <<lock, counter, losses, expiries>>
rowVars == <<row, live, holder, published>>
wVars == <<wpc, target, gone>>
sendVars == <<reqVars, redisVars, rowVars, wVars>>

Stages == {"idle", "lookup", "check", "get", "max", "setnx", "incr", "recheck",
           "create", "contents", "commit", "publish", "receipt", "unlock", "done"}
RowStates == {"none", "uncommitted", "stored", "withdrawn"}
Replies == {"none", "receipt", "failed", "rejected", "silent"}
WStages == {"idle", "update", "delete", "insert", "commit", "publish", "done"}

Visible(r) == row[r] \in {"stored", "withdrawn"}  \* to other transactions
RowsOf(cm) == {r \in Reqs : Cmid[r] = cm /\ Visible(r)}
SeqIds == {seq[r] : r \in {q \in Reqs : Visible(q)}}

SendInit ==
  /\ pc = [r \in Reqs |-> "idle"] /\ has = [r \in Reqs |-> FALSE]
  /\ lock = [cm \in Cmids |-> FALSE]
  /\ found = [r \in Reqs |-> Absent]
  /\ counter = Absent
  /\ maxSeq = [r \in Reqs |-> 0] /\ seq = [r \in Reqs |-> 0]
  /\ row = [r \in Reqs |-> "none"] /\ live = [r \in Reqs |-> {}]
  /\ holder = [r \in Reqs |-> Absent]
  /\ published = {}
  /\ reply = [r \in Reqs |-> "none"]
  /\ wpc = [w \in Withdrawers |-> "idle"]
  /\ target = [w \in Withdrawers |-> Absent]
  /\ gone = [w \in Withdrawers |-> {}]
  /\ losses = 0 /\ expiries = 0

Goto(r, s) == pc' = [pc EXCEPT ![r] = s]
Tell(r, what) == reply' = [reply EXCEPT ![r] = what]

\* Mutant of Fail: an error path returns without failRoomMessageSend
FailSilently(r) == Goto(r, "unlock") /\ UNCHANGED reply

\* failRoomMessageSend, then the deferred delete
Fail(r) == Goto(r, "unlock") /\ Tell(r, "failed")

(***************************************************************************)
(* handlerRoomMessage                                                      *)
(***************************************************************************)
\* SetNX of the de-duplication key; the handler goes on whatever it returns
TakeLock(r) ==
  /\ pc[r] = "idle" /\ Goto(r, "lookup")
  /\ \E ok \in Outcomes :
       LET got == ok /\ ~lock[Cmid[r]]
       IN /\ has' = [has EXCEPT ![r] = got]
          /\ lock' = IF got THEN [lock EXCEPT ![Cmid[r]] = TRUE] ELSE lock
  /\ UNCHANGED <<found, maxSeq, seq, reply, counter, losses, expiries, rowVars, wVars>>

\* findExistingRoomMessage
Lookup(r) ==
  /\ pc[r] = "lookup"
  /\ \/ /\ RowsOf(Cmid[r]) = {} /\ Goto(r, "check") /\ UNCHANGED found
     \/ /\ RowsOf(Cmid[r]) # {} /\ Goto(r, "receipt")
        /\ \E q \in RowsOf(Cmid[r]) : found' = [found EXCEPT ![r] = q]
  /\ UNCHANGED <<has, maxSeq, seq, reply, redisVars, rowVars, wVars>>

\* a query, a Redis command or the INSERT reports an error: nothing is stored
StatementFails(r) ==
  /\ FALSE \in Outcomes
  /\ pc[r] \in {"lookup", "check", "get", "max", "setnx", "incr", "recheck", "create"}
  /\ Fail(r)
  /\ UNCHANGED <<has, found, maxSeq, seq, redisVars, rowVars, wVars>>

\* room dissolved, not a friend, muted: a reply of its own and nothing stored
Check(r) ==
  /\ pc[r] = "check"
  /\ \/ Goto(r, "get") /\ UNCHANGED reply
     \/ FALSE \in Outcomes /\ Goto(r, "unlock") /\ Tell(r, "rejected")
  /\ UNCHANGED <<has, found, maxSeq, seq, redisVars, rowVars, wVars>>

\* GetRoomSeqId: GET; without a key SELECT MAX, SETNX; then always INCR
SeqGet(r) ==
  /\ pc[r] = "get"
  /\ Goto(r, IF counter = Absent THEN "max" ELSE "incr")
  /\ UNCHANGED <<has, found, maxSeq, seq, reply, redisVars, rowVars, wVars>>

SeqMax(r) ==
  /\ pc[r] = "max" /\ Goto(r, "setnx")
  /\ maxSeq' = [maxSeq EXCEPT ![r] = Max(SeqIds \cup {0})]
  /\ UNCHANGED <<has, found, seq, reply, redisVars, rowVars, wVars>>

\* Mutant of SetIfAbsent: the key starts one too low
SetBelowMax(r) == IF counter = Absent THEN maxSeq[r] - 1 ELSE counter

SetIfAbsent(r) == IF counter = Absent THEN maxSeq[r] ELSE counter

SeqSetNX(r) ==
  /\ pc[r] = "setnx" /\ Goto(r, "incr")
  /\ counter' = SetIfAbsent(r)
  /\ UNCHANGED <<has, found, maxSeq, seq, reply, lock, losses, expiries, rowVars, wVars>>

\* INCR of an absent key starts at 0
SeqIncr(r) ==
  /\ pc[r] = "incr" /\ Goto(r, "recheck")
  /\ LET next == IF counter = Absent THEN 1 ELSE counter + 1
     IN counter' = next /\ seq' = [seq EXCEPT ![r] = next]
  /\ UNCHANGED <<has, found, maxSeq, reply, lock, losses, expiries, rowVars, wVars>>

\* the transaction looks for the row once more
Recheck(r) ==
  /\ pc[r] = "recheck"
  /\ \/ /\ RowsOf(Cmid[r]) = {} /\ Goto(r, "create") /\ UNCHANGED found
     \/ /\ RowsOf(Cmid[r]) # {} /\ Goto(r, "receipt")
        /\ \E q \in RowsOf(Cmid[r]) : found' = [found EXCEPT ![r] = q]
  /\ UNCHANGED <<has, maxSeq, seq, reply, redisVars, rowVars, wVars>>

\* Mutant of Clash: room_message has no unique index on client_mid
ClashWithoutClientMid(r, q) == q # r /\ seq[q] = seq[r]

\* unique indexes (rid, sender_uid, client_mid) and (rid, seq_id)
Clash(r, q) == q # r /\ (Cmid[q] = Cmid[r] \/ seq[q] = seq[r])

\* an INSERT waits for a transaction that has inserted the same key
WaitsFor(r, q) == row[q] = "uncommitted" /\ Clash(r, q)

Create(r) ==
  /\ pc[r] = "create"
  /\ ~\E q \in Reqs : WaitsFor(r, q)
  /\ IF \E q \in Reqs : Visible(q) /\ Clash(r, q)
     THEN Fail(r) /\ UNCHANGED row
     ELSE /\ Goto(r, "contents") /\ UNCHANGED reply
          /\ row' = [row EXCEPT ![r] = "uncommitted"]
  /\ UNCHANGED <<has, found, maxSeq, seq, redisVars, live, holder, published, wVars>>

Rollback(r) == row' = [row EXCEPT ![r] = "none"]

\* the contents; an empty list or an error rolls the transaction back
CreateContents(r) ==
  /\ pc[r] = "contents"
  /\ \/ Goto(r, "commit") /\ UNCHANGED <<reply, row>>
     \/ FALSE \in Outcomes /\ Fail(r) /\ Rollback(r)
     \/ FALSE \in Outcomes /\ Rollback(r) /\ Goto(r, "unlock") /\ Tell(r, "rejected")
  /\ UNCHANGED <<has, found, maxSeq, seq, redisVars, live, holder, published, wVars>>

\* Mutants of AfterCommit: the result of Commit is not looked at; the event
\* is published by nobody
AfterCommitUnchecked(ok) == "publish"
AfterCommitForgetEvent(ok) == IF ok THEN "receipt" ELSE "unlock"

AfterCommit(ok) == IF ok THEN "publish" ELSE "unlock"

\* Commit may fail; its error may also hide that it took effect
Commit(r) ==
  /\ pc[r] = "commit"
  /\ \E applied \in BOOLEAN, ok \in BOOLEAN :
       /\ applied = ok \/ (applied /\ CommitUnknown)
       /\ ok \/ FALSE \in Outcomes
       /\ Goto(r, AfterCommit(ok))
       /\ reply' = IF AfterCommit(ok) = "unlock" THEN [reply EXCEPT ![r] = "failed"] ELSE reply
       /\ row' = [row EXCEPT ![r] = IF applied THEN "stored" ELSE "none"]
       /\ live' = [live EXCEPT ![r] = IF applied THEN {"body"} ELSE {}]
       /\ found' = [found EXCEPT ![r] = r]
  /\ UNCHANGED <<has, maxSeq, seq, redisVars, holder, published, wVars>>

\* event.Publish(EventRoomMessage): ack rows and fanout, see RoomDelivery
PublishEvent(r) ==
  /\ pc[r] = "publish" /\ Goto(r, "receipt")
  /\ published' = published \cup {r}
  /\ UNCHANGED <<has, found, maxSeq, seq, reply, redisVars, row, live, holder, wVars>>

\* deliverAcceptedRoomMessageToSender: nothing at all for a withdrawn message
Receipt(r) ==
  /\ pc[r] = "receipt" /\ Goto(r, "unlock")
  /\ Tell(r, IF row[found[r]] = "withdrawn" THEN "silent" ELSE "receipt")
  /\ UNCHANGED <<has, found, maxSeq, seq, redisVars, rowVars, wVars>>

\* the deferred Delete removes the key, whoever set it
Unlock(r) ==
  /\ pc[r] = "unlock" /\ Goto(r, "done")
  /\ lock' = IF has[r] THEN [lock EXCEPT ![Cmid[r]] = FALSE] ELSE lock
  /\ UNCHANGED <<has, found, maxSeq, seq, reply, counter, losses, expiries, rowVars, wVars>>

LockExpires(cm) ==
  /\ lock[cm] /\ expiries < MaxExpiries /\ expiries' = expiries + 1
  /\ lock' = [lock EXCEPT ![cm] = FALSE]
  /\ UNCHANGED <<reqVars, counter, losses, rowVars, wVars>>

SeqKeyLost ==
  /\ counter # Absent /\ losses < MaxKeyLosses /\ losses' = losses + 1
  /\ counter' = Absent
  /\ UNCHANGED <<reqVars, lock, expiries, rowVars, wVars>>

\* the node dies: its open transaction is rolled back, its lock stays
Crash(r) ==
  /\ r \in MayCrash /\ pc[r] \notin {"idle", "done"}
  /\ Goto(r, "done")
  /\ row' = IF row[r] = "uncommitted" THEN [row EXCEPT ![r] = "none"] ELSE row
  /\ UNCHANGED <<has, found, maxSeq, seq, reply, redisVars, live, holder, published, wVars>>

(***************************************************************************)
(* handlerRoomMessageWithdrawRequest (RoomMessageWithdraw over HTTP runs   *)
(* the same transaction)                                                   *)
(***************************************************************************)
WGoto(w, s) == wpc' = [wpc EXCEPT ![w] = s]

\* GetRoomMessageByRidSeqId, and the checks of the row it returned
WithdrawRead(w) ==
  /\ wpc[w] = "idle" /\ WGoto(w, "update")
  /\ \E r \in Reqs : row[r] = "stored" /\ target' = [target EXCEPT ![w] = r]
  /\ UNCHANGED <<reqVars, redisVars, rowVars, gone>>

RowFree(r) == holder[r] = Absent

\* UPDATE room_message takes the row's lock until the transaction ends
WithdrawUpdate(w) ==
  /\ wpc[w] = "update" /\ RowFree(target[w]) /\ WGoto(w, "delete")
  /\ holder' = [holder EXCEPT ![target[w]] = w]
  /\ UNCHANGED <<reqVars, redisVars, row, live, published, target, gone>>

\* Mutant of WithdrawDelete: only the original contents are deleted
DeleteBodyOnly(w) ==
  /\ wpc[w] = "delete" /\ WGoto(w, "insert")
  /\ gone' = [gone EXCEPT ![w] = live[target[w]] \cap {"body"}]
  /\ UNCHANGED <<reqVars, redisVars, rowVars, target>>

\* UPDATE room_message_content: every content of the message it can see
WithdrawDelete(w) ==
  /\ wpc[w] = "delete" /\ WGoto(w, "insert")
  /\ gone' = [gone EXCEPT ![w] = live[target[w]]]
  /\ UNCHANGED <<reqVars, redisVars, rowVars, target>>

\* the notice that replaces them
WithdrawInsert(w) ==
  /\ wpc[w] = "insert" /\ WGoto(w, "commit")
  /\ UNCHANGED <<reqVars, redisVars, rowVars, target, gone>>

\* a statement that fails before ends the request like a failing commit
WithdrawCommit(w) ==
  /\ wpc[w] = "commit"
  /\ \E ok \in Outcomes :
       /\ WGoto(w, IF ok THEN "publish" ELSE "done")
       /\ row' = IF ok THEN [row EXCEPT ![target[w]] = "withdrawn"] ELSE row
       /\ live' = IF ok THEN [live EXCEPT ![target[w]] = (@ \ gone[w]) \cup {w}] ELSE live
  /\ holder' = [holder EXCEPT ![target[w]] = Absent]
  /\ UNCHANGED <<reqVars, redisVars, published, target, gone>>

\* event.Publish(EventRoomMessageWithdraw)
WithdrawPublish(w) ==
  /\ wpc[w] = "publish" /\ WGoto(w, "done")
  /\ UNCHANGED <<reqVars, redisVars, rowVars, target, gone>>

SendStep(r) ==
  \/ TakeLock(r) \/ Lookup(r) \/ Check(r)
  \/ SeqGet(r) \/ SeqMax(r) \/ SeqSetNX(r) \/ SeqIncr(r)
  \/ Recheck(r) \/ Create(r) \/ CreateContents(r) \/ Commit(r)
  \/ PublishEvent(r) \/ Receipt(r) \/ Unlock(r)

WithdrawStep(w) ==
  \/ WithdrawRead(w) \/ WithdrawUpdate(w) \/ WithdrawDelete(w)
  \/ WithdrawInsert(w) \/ WithdrawCommit(w) \/ WithdrawPublish(w)

SendNext ==
  \/ \E r \in Reqs : SendStep(r) \/ StatementFails(r) \/ Crash(r)
  \/ \E w \in Withdrawers : WithdrawStep(w)
  \/ SeqKeyLost \/ \E cm \in Cmids : LockExpires(cm)

SendSpec == SendInit /\ [][SendNext]_sendVars

\* a goroutine that can go on does; no attempt is rescued by a failing statement
Fairness == \A r \in Reqs : WF_sendVars(pc[r] # "idle" /\ SendStep(r))
SendFairSpec == SendSpec /\ Fairness

(***************************************************************************)
(* Properties                                                              *)
(***************************************************************************)
\* Every variable keeps its shape.
SendTypeOK ==
  /\ pc \in [Reqs -> Stages] /\ has \in [Reqs -> BOOLEAN]
  /\ lock \in [Cmids -> BOOLEAN]
  /\ found \in [Reqs -> Reqs \cup {Absent}]
  /\ counter \in Nat \cup {Absent}
  /\ maxSeq \in [Reqs -> Nat] /\ seq \in [Reqs -> Nat]
  /\ row \in [Reqs -> RowStates]
  /\ live \in [Reqs -> SUBSET (Withdrawers \cup {"body"})]
  /\ holder \in [Reqs -> Withdrawers \cup {Absent}]
  /\ published \subseteq Reqs
  /\ reply \in [Reqs -> Replies]
  /\ wpc \in [Withdrawers -> WStages]
  /\ target \in [Withdrawers -> Reqs \cup {Absent}]
  /\ gone \in [Withdrawers -> SUBSET (Withdrawers \cup {"body"})]
  /\ losses \in 0 .. MaxKeyLosses /\ expiries \in 0 .. MaxExpiries

\* However often a client sends a message again, with the Redis lock failing or
\* expiring under it, one row is stored per client_mid, and no two rows of the
\* room share a seq id.
OneRowPerClientMid ==
  \A r, q \in Reqs : r # q /\ Visible(r) /\ Visible(q) =>
    Cmid[r] # Cmid[q] /\ seq[r] # seq[q]

\* A client that was sent the receipt of a message can rely on the row: it is
\* committed, under the client_mid it sent, and stays.
ReceiptMeansStored ==
  \A r \in Reqs : reply[r] = "receipt" => found[r] \in RowsOf(Cmid[r])

\* A message never loses its contents: a stored message shows its body, a
\* withdrawn one exactly one notice, whatever withdraw requests overlapped.
ContentsMatchRow ==
  \A r \in Reqs :
    /\ row[r] = "stored" => live[r] = {"body"}
    /\ row[r] = "withdrawn" => \E w \in Withdrawers : live[r] = {w}

(***************************************************************************)
(* The inductive invariant of the proofs (RoomMessagesProofs)              *)
(***************************************************************************)
Before(r) == pc[r] \in {"idle", "lookup", "check", "get", "max", "setnx", "incr",
                        "recheck", "create"}

\* The functions the argument reads are functions of the right domain.
Shape ==
  /\ pc \in [Reqs -> Stages] /\ row \in [Reqs -> RowStates]
  /\ found \in [Reqs -> Reqs \cup {Absent}] /\ reply \in [Reqs -> Replies]
  /\ seq = [r \in Reqs |-> seq[r]]
  /\ live \in [Reqs -> SUBSET (Withdrawers \cup {"body"})]
  /\ holder \in [Reqs -> Withdrawers \cup {Absent}]
  /\ wpc \in [Withdrawers -> WStages]
  /\ target \in [Withdrawers -> Reqs \cup {Absent}]
  /\ gone \in [Withdrawers -> SUBSET (Withdrawers \cup {"body"})]

\* A request has a row only from its INSERT on, and an open transaction exactly
\* while it is between INSERT and Commit.
RowFollowsPc ==
  \A r \in Reqs :
    /\ Before(r) => row[r] = "none"
    /\ row[r] = "uncommitted" <=> pc[r] \in {"contents", "commit"}

\* Rows that exist, committed or not, never clash on an index.
NoClash ==
  \A r, q \in Reqs : row[r] # "none" /\ row[q] # "none" => ~Clash(r, q)

\* What a request is about to confirm is stored under its client_mid.
FoundIsStored ==
  \A r \in Reqs :
    pc[r] \in {"publish", "receipt"} \/ reply[r] = "receipt" => found[r] \in RowsOf(Cmid[r])

\* A withdraw transaction works on a stored row, alone from its UPDATE on, and
\* has deleted all contents the row shows.
WithdrawHoldsRow ==
  \A w \in Withdrawers :
    /\ wpc[w] # "idle" => target[w] \in Reqs /\ Visible(target[w])
    /\ wpc[w] \in {"delete", "insert", "commit"} => holder[target[w]] = w
    /\ wpc[w] \in {"insert", "commit"} => gone[w] = live[target[w]]

SendInv == Shape /\ RowFollowsPc /\ NoClash /\ FoundIsStored /\ WithdrawHoldsRow
        /\ ContentsMatchRow

\* Every attempt is answered, also one that had to wait for the transaction of
\* another attempt.
EveryAttemptAnswered ==
  \A r \in Reqs : pc[r] # "idle" ~> reply[r] # "none"

\* A receipt promises the fanout: once the sender has the receipt of a message,
\* EventRoomMessage is published for it ("the other members are served by the
\* EventRoomMessage fanout", quic/handler/message_handler.go:639).
AcceptedIsNotified ==
  \A r \in Reqs : reply[r] = "receipt" ~> found[r] \in published

=============================================================================
