----------------------------- MODULE RoomMembers -----------------------------
(***************************************************************************)
(* The members of one group room (http/handler/room/room.go,               *)
(* join_request.go, invite.go, db/query/room.go, room_owner.go,            *)
(* room_user_*.go).                                                        *)
(*                                                                         *)
(* Every HTTP handler checks first, on the database and on the cached list *)
(* of member ids, and writes later in a transaction whose statements do    *)
(* not repeat the check. Afterwards it refreshes the cache in two steps:   *)
(* SELECT the members, SET the key. Handlers run at the same time; a step  *)
(* is a check, a transaction, or one command.                              *)
(***************************************************************************)
EXTENDS Naturals, FiniteSets

CONSTANTS
  Uids,         \* users
  Creator,      \* the user who creates the room
  Reqs,         \* slots of concurrent HTTP handlers
  NoUid,
  NoCache,      \* the Redis key ROOM:USER:IDS does not exist
  NoTask,
  Ops,          \* the requests users make
  SelfRole,     \* may the owner name himself in a role update?
  MaxOvertaken, \* bound: new requests stop after so many overtaken commits
  MaxFailures,  \* bound: failed transactions, failed refreshes, lost keys
  MaxRequests   \* bound: requests

ASSUME ConstantsAssumption ==
  /\ Creator \in Uids /\ NoUid \notin Uids
  /\ IsFiniteSet(Uids)
  /\ Ops \subseteq {"join", "apply", "accept", "reject", "config", "role",
                    "transfer", "dissolve", "kick", "leave"}
  /\ SelfRole \in BOOLEAN
  /\ MaxOvertaken \in Nat /\ MaxFailures \in Nat /\ MaxRequests \in Nat

VARIABLES
  state,     \* the room row: "none", "active", "dissolved"
  createUid, \* room.create_uid
  count,     \* room.member_count
  approval,  \* room.join_approval_required
  role,      \* role[u] in room_user, "out" when deleted or absent
  session,   \* users whose user_room_session is visible
  req,       \* req[u]: state of u's room_join_request
  cache,     \* the member ids cached in Redis
  pc, task,  \* pc[r], task[r]: what the handler in slot r does next, and for whom
  seen,      \* seen[r]: the member ids its refresh has read
  overtaken, \* history: commits whose check did not hold any more
  stale,     \* history: a refresh failed or stored an old list
  failures, requests  \* counters for the bounds

dbVars == <<state, createUid, count, approval, role, session, req>>
slotVars == <<pc, task, seen>>
boundVars == <<failures, requests>>
vars == <<dbVars, cache, slotVars, overtaken, stale, boundVars>>

Roles == {"out", "normal", "admin", "owner"}
Members == {u \in Uids : role[u] # "out"}
Task(op, by, on, new) == [op |-> op, by |-> by, on |-> on, new |-> new]
Tasks == [op : {"create", "fill", "join", "apply", "accept", "reject", "role",
                "transfer", "dissolve", "kick", "leave"},
          by : Uids, on : Uids, new : Roles]

ASSUME NoTaskIsNoTask == NoTask \notin Tasks

Init ==
  /\ state = "none" /\ createUid = NoUid /\ count = 0 /\ approval = FALSE
  /\ role = [u \in Uids |-> "out"] /\ session = {}
  /\ req = [u \in Uids |-> "none"]
  /\ cache = NoCache
  /\ pc = [r \in Reqs |-> "idle"] /\ task = [r \in Reqs |-> NoTask]
  /\ seen = [r \in Reqs |-> {}]
  /\ overtaken = 0 /\ stale = FALSE /\ failures = 0 /\ requests = 0

-----------------------------------------------------------------------------
(* The permission checks.                                                  *)

\* CanUserMuteInRoom: the right of an administrator, for every setting.
CanUserMuteInRoom(u) == role[u] \in {"admin", "owner"}

\* CanKickMemberInRoom: administrators may remove members, the owner also
\* administrators, and nobody the owner.
CanKick(by, on) ==
  /\ by # on /\ CanUserMuteInRoom(by)
  /\ role[on] \in {"normal", "admin"}
  /\ role[on] = "admin" => role[by] = "owner"

\* The other checks take the list that tells the members: the cache when the
\* code checks (HasRoomUser; a missing key is filled first, Fill), the rows
\* when Valid asks whether the check still holds.

\* validatePublicRoomJoin.
CanJoin(u, list) == state = "active" /\ u \notin list

\* RoomLeave: the owner has to hand the room over first.
CanLeave(u, list) == state = "active" /\ u \in list /\ role[u] \in {"normal", "admin"}

\* Faulty: the operator's own role is not looked at.
CanTransferByAnyone(o, u, list) ==
  state = "active" /\ u # o /\ {o, u} \subseteq list /\ role[u] \in {"normal", "admin"}

\* RoomOwnerTransfer, TransferRoomOwner: by role.
CanTransfer(o, u, list) ==
  /\ state = "active" /\ u # o /\ u \in list
  /\ role[o] = "owner" /\ role[u] \in {"normal", "admin"}

\* RoomUserRoleUpdate: by create_uid.
CanSetRole(o, u, list) ==
  /\ state = "active" /\ createUid = o /\ u \in list /\ role[u] # "out"
  /\ u = o => SelfRole

\* RoomJoinRequestAccept, RoomJoinRequestReject: "already handled".
Open(u) == req[u] = "pending"

-----------------------------------------------------------------------------
(* A request: check now, write later.                                      *)

\* The handler in slot r has passed its checks.
Start(r, t, next) ==
  /\ pc[r] = "idle" /\ requests < MaxRequests /\ overtaken < MaxOvertaken
  /\ t.op \in Ops \cup {"create", "fill"}
  /\ requests' = requests + 1
  /\ pc' = [pc EXCEPT ![r] = next]
  /\ task' = [task EXCEPT ![r] = t]
  /\ UNCHANGED <<seen, failures, stale, cache>>

\* RoomCreate: the room's row is inserted before the transaction that makes
\* the creator its owner.
CreateRow(r) ==
  /\ state = "none"
  /\ Start(r, Task("create", Creator, Creator, "owner"), "commit")
  /\ state' = "active" /\ createUid' = Creator
  /\ UNCHANGED <<count, approval, role, session, req, overtaken>>

\* RoomJoin, with the right password, when no approval is required.
Join(r, u) ==
  /\ cache # NoCache /\ CanJoin(u, cache)
  /\ ~approval
  /\ Start(r, Task("join", u, u, "normal"), "commit")
  /\ UNCHANGED <<dbVars, overtaken>>

\* RoomJoinInvite: the same join; a member is told so.
JoinByInvite(r, u) ==
  /\ cache # NoCache /\ CanJoin(u, cache)
  /\ ~approval
  /\ Start(r, Task("join", u, u, "normal"), "commit")
  /\ UNCHANGED <<dbVars, overtaken>>

\* RoomJoinApply: the right answer joins at once, any other waits.
Apply(r, u, right) ==
  /\ cache # NoCache /\ CanJoin(u, cache)
  /\ approval
  /\ Start(r, Task("apply", u, u, "normal"), IF right THEN "commit" ELSE "save")
  /\ UNCHANGED <<dbVars, overtaken>>

\* RoomJoinRequestAccept.
Accept(r, a, u) ==
  /\ Open(u) /\ CanUserMuteInRoom(a)
  /\ cache # NoCache /\ CanJoin(u, cache)
  /\ Start(r, Task("accept", a, u, "normal"), "mark")
  /\ UNCHANGED <<dbVars, overtaken>>

\* RoomJoinRequestReject: works on a dissolved room too.
Reject(r, a, u) ==
  /\ Open(u) /\ CanUserMuteInRoom(a)
  /\ Start(r, Task("reject", a, u, "out"), "mark")
  /\ UNCHANGED <<dbVars, overtaken>>

\* RoomJoinConfigUpdate, one UPDATE right after the check.
JoinConfigUpdate(r, a) ==
  /\ state = "active" /\ CanUserMuteInRoom(a)
  /\ "config" \in Ops /\ pc[r] = "idle" /\ requests < MaxRequests
  /\ requests' = requests + 1
  /\ approval' = ~approval
  /\ UNCHANGED <<state, createUid, count, role, session, req, cache, slotVars,
                 overtaken, stale, failures>>

\* RoomUserRoleUpdate.
RoleUpdate(r, o, u, new) ==
  /\ cache # NoCache /\ CanSetRole(o, u, cache)
  /\ new \in {"normal", "admin"} \ {role[u]}
  /\ Start(r, Task("role", o, u, new), "commit")
  /\ UNCHANGED <<dbVars, overtaken>>

\* RoomOwnerTransfer.
Transfer(r, o, u) ==
  /\ cache # NoCache /\ CanTransfer(o, u, cache)
  /\ Start(r, Task("transfer", o, u, "owner"), "commit")
  /\ UNCHANGED <<dbVars, overtaken>>

RoomDissolve(r, o) ==
  /\ state = "active" /\ role[o] = "owner"
  /\ Start(r, Task("dissolve", o, o, "owner"), "commit")
  /\ UNCHANGED <<dbVars, overtaken>>

RoomMemberKick(r, a, u) ==
  /\ state = "active" /\ CanKick(a, u)
  /\ Start(r, Task("kick", a, u, "out"), "commit")
  /\ UNCHANGED <<dbVars, overtaken>>

RoomLeave(r, u) ==
  /\ cache # NoCache /\ CanLeave(u, cache)
  /\ Start(r, Task("leave", u, u, "out"), "commit")
  /\ UNCHANGED <<dbVars, overtaken>>

-----------------------------------------------------------------------------
(* The transactions. They trust the check: Valid is the check, repeated on *)
(* the database at the time of the commit, which the code does not do.     *)

Creating == \E r \in Reqs : pc[r] = "commit" /\ task[r].op = "create"

Valid(t) ==
  CASE t.op = "create" -> role[t.on] = "out" /\ state = "active"
    [] t.op \in {"join", "apply", "accept"} ->
         CanJoin(t.on, Members) /\ (Creating => t.on # createUid)
    [] t.op = "role" -> CanSetRole(t.by, t.on, Members)
    [] t.op = "transfer" -> CanTransfer(t.by, t.on, Members)
    [] t.op = "dissolve" -> state = "active" /\ role[t.by] = "owner"
    [] t.op = "kick" -> state = "active" /\ CanKick(t.by, t.on)
    [] t.op = "leave" -> CanLeave(t.on, Members)

Count(t) == overtaken' = overtaken + IF Valid(t) THEN 0 ELSE 1

Go(r, next) ==
  /\ pc' = [pc EXCEPT ![r] = next]
  /\ task' = IF next = "idle" THEN [task EXCEPT ![r] = NoTask] ELSE task
  /\ UNCHANGED <<cache, seen, boundVars>>

\* UpsertActiveRoomUserTx and UpsertActiveUserRoomSessionTx: whoever joins
\* starts as a normal member, also one who is a member already.
Enter(u, as) ==
  /\ role' = [role EXCEPT ![u] = as]
  /\ session' = session \cup {u}
  /\ count' = count + 1

\* Faulty: counted down twice and without GREATEST.
ExitCountedTwice(u) ==
  /\ role' = [role EXCEPT ![u] = "out"] /\ session' = session \ {u} /\ count' = count - 2

\* The three UPDATEs of RoomMemberKick and RoomLeave. Who is out already is
\* counted once more: nobody looks at RowsAffected.
Exit(u) ==
  /\ role' = [role EXCEPT ![u] = "out"]
  /\ session' = session \ {u}
  /\ count' = IF count > 0 THEN count - 1 ELSE 0

\* Faulty: leaving does not refresh the member list.
AfterCommitLeaveSkips(t) ==
  IF t.op \in {"role", "transfer", "dissolve", "leave"} THEN "idle" ELSE "read"

\* Where a handler goes on after its transaction.
AfterCommit(t) == IF t.op \in {"role", "transfer", "dissolve"} THEN "idle" ELSE "read"

CommitCreate(r) ==
  /\ pc[r] = "commit" /\ task[r].op = "create"
  /\ role[Creator] = "out"    \* else the unique (rid, uid) refuses the row
  /\ Count(task[r]) /\ Enter(Creator, "owner")
  /\ Go(r, AfterCommit(task[r]))
  /\ UNCHANGED <<state, createUid, approval, req, stale>>

CommitJoin(r) ==
  /\ pc[r] = "commit" /\ task[r].op \in {"join", "apply", "accept"}
  /\ Count(task[r]) /\ Enter(task[r].on, "normal")
  /\ Go(r, AfterCommit(task[r]))
  /\ UNCHANGED <<state, createUid, approval, req, stale>>

CommitExit(r) ==
  /\ pc[r] = "commit" /\ task[r].op \in {"kick", "leave"}
  /\ Count(task[r]) /\ Exit(task[r].on)
  /\ Go(r, AfterCommit(task[r]))
  /\ UNCHANGED <<state, createUid, approval, req, stale>>

\* UpdateRoomUserRole ... WHERE delete_time = 0.
CommitRole(r) ==
  /\ pc[r] = "commit" /\ task[r].op = "role"
  /\ Count(task[r])
  /\ role' = [role EXCEPT ![task[r].on] = IF @ = "out" THEN @ ELSE task[r].new]
  /\ Go(r, AfterCommit(task[r]))
  /\ UNCHANGED <<state, createUid, count, approval, session, req, stale>>

\* TransferRoomOwner: create_uid only while the room is active, the roles of
\* both as long as they are members, and nobody counts the rows.
HandOver(t) ==
  /\ createUid' = IF state = "active" THEN t.on ELSE createUid
  /\ role' = [u \in Uids |->
       IF role[u] = "out" THEN "out"
       ELSE IF u = t.on THEN "owner"
       ELSE IF u = t.by THEN "normal" ELSE role[u]]

CommitTransfer(r) ==
  /\ pc[r] = "commit" /\ task[r].op = "transfer"
  /\ Count(task[r]) /\ HandOver(task[r])
  /\ Go(r, AfterCommit(task[r]))
  /\ UNCHANGED <<state, count, approval, session, req, stale>>

\* DissolveRoom: members and sessions stay.
CommitDissolve(r) ==
  /\ pc[r] = "commit" /\ task[r].op = "dissolve"
  /\ Count(task[r]) /\ state' = "dissolved"
  /\ Go(r, AfterCommit(task[r]))
  /\ UNCHANGED <<createUid, count, approval, role, session, req, stale>>

\* CreateOrUpdateRoomJoinRequest: a request is always pending again.
SaveRequest(r) ==
  /\ pc[r] = "save"
  /\ req' = [req EXCEPT ![task[r].on] = "pending"]
  /\ Go(r, "idle")
  /\ UNCHANGED <<state, createUid, count, approval, role, session, overtaken, stale>>

\* The first transaction of Accept and the only one of Reject: the state is
\* written without asking for the old one.
MarkRequest(r) ==
  /\ pc[r] = "mark"
  /\ LET t == task[r] IN
       /\ overtaken' = overtaken + IF Open(t.on) THEN 0 ELSE 1
       /\ req' = [req EXCEPT ![t.on] = IF t.op = "accept" THEN "accepted" ELSE "rejected"]
       /\ Go(r, IF t.op = "accept" THEN "commit" ELSE "idle")
  /\ UNCHANGED <<state, createUid, count, approval, role, session, stale>>

\* Any transaction may fail and roll back: the handler answers an error. A
\* room whose creation fails here stays behind without members.
Rollback(r) ==
  /\ pc[r] \in {"commit", "mark"} /\ failures < MaxFailures
  /\ failures' = failures + 1
  /\ overtaken' = overtaken + IF task[r].op = "create" THEN 1 ELSE 0
  /\ pc' = [pc EXCEPT ![r] = "idle"] /\ task' = [task EXCEPT ![r] = NoTask]
  /\ UNCHANGED <<dbVars, cache, seen, stale, requests>>

-----------------------------------------------------------------------------
(* The cached member list.                                                 *)

\* GetRoomUserIdsCache on a missing key starts the same refresh.
Fill(r) ==
  /\ cache = NoCache /\ state = "active"
  /\ Start(r, Task("fill", Creator, Creator, "out"), "read")
  /\ UNCHANGED <<dbVars, overtaken>>

\* SetRoomUserIdsCache, first half: SELECT uid ... WHERE delete_time = 0.
RefreshRead(r) ==
  /\ pc[r] = "read"
  /\ pc' = [pc EXCEPT ![r] = "set"]
  /\ seen' = [seen EXCEPT ![r] = Members]
  /\ UNCHANGED <<dbVars, cache, task, overtaken, stale, boundVars>>

\* A join is broadcast to the members in the cache next (NotifyQuic).
AfterSet(t) == IF t.op \in {"join", "apply", "accept"} THEN "notify" ELSE "idle"

\* SetRoomUserIdsCache, second half: SET without expiry.
RefreshSet(r) ==
  /\ pc[r] = "set"
  /\ cache' = seen[r]
  /\ stale' = (stale \/ seen[r] # Members)
  /\ pc' = [pc EXCEPT ![r] = AfterSet(task[r])]
  /\ task' = IF AfterSet(task[r]) = "idle" THEN [task EXCEPT ![r] = NoTask] ELSE task
  /\ seen' = [seen EXCEPT ![r] = {}]
  /\ UNCHANGED <<dbVars, overtaken, boundVars>>

\* The failure is logged, the old list stays.
RefreshFails(r) ==
  /\ pc[r] \in {"read", "set"} /\ failures < MaxFailures
  /\ failures' = failures + 1
  /\ stale' = TRUE
  /\ pc' = [pc EXCEPT ![r] = AfterSet(task[r])]
  /\ task' = IF AfterSet(task[r]) = "idle" THEN [task EXCEPT ![r] = NoTask] ELSE task
  /\ seen' = [seen EXCEPT ![r] = {}]
  /\ UNCHANGED <<dbVars, cache, overtaken, requests>>

Notify(r) ==
  /\ pc[r] = "notify"
  /\ Go(r, "idle")
  /\ UNCHANGED <<dbVars, overtaken, stale>>

\* Redis loses the key.
CacheLost ==
  /\ cache # NoCache /\ failures < MaxFailures
  /\ failures' = failures + 1 /\ cache' = NoCache
  /\ UNCHANGED <<dbVars, slotVars, overtaken, stale, requests>>

-----------------------------------------------------------------------------
Check(r) ==
  \/ CreateRow(r) \/ Fill(r)
  \/ \E u \in Uids : \/ Join(r, u) \/ JoinByInvite(r, u) \/ RoomLeave(r, u)
                     \/ JoinConfigUpdate(r, u) \/ RoomDissolve(r, u)
                     \/ \E right \in BOOLEAN : Apply(r, u, right)
  \/ \E a, u \in Uids : \/ Accept(r, a, u) \/ Reject(r, a, u) \/ RoomMemberKick(r, a, u)
                        \/ Transfer(r, a, u)
                        \/ \E new \in {"normal", "admin"} : RoleUpdate(r, a, u, new)

Work(r) ==
  \/ CommitCreate(r) \/ CommitJoin(r) \/ CommitExit(r) \/ CommitRole(r)
  \/ CommitTransfer(r) \/ CommitDissolve(r) \/ SaveRequest(r) \/ MarkRequest(r)
  \/ RefreshRead(r) \/ RefreshSet(r) \/ Notify(r)

Next == CacheLost \/ \E r \in Reqs : Check(r) \/ Work(r) \/ Rollback(r) \/ RefreshFails(r)

Spec == Init /\ [][Next]_vars

-----------------------------------------------------------------------------
Stages == {"idle", "commit", "save", "mark", "read", "set", "notify"}

TypeOK ==
  /\ state \in {"none", "active", "dissolved"}
  /\ createUid \in Uids \cup {NoUid}
  /\ count \in Nat /\ approval \in BOOLEAN
  /\ role \in [Uids -> Roles] /\ session \subseteq Uids
  /\ req \in [Uids -> {"none", "pending", "accepted", "rejected"}]
  /\ cache = NoCache \/ cache \subseteq Uids
  /\ pc \in [Reqs -> Stages] /\ task \in [Reqs -> Tasks \cup {NoTask}]
  /\ \A r \in Reqs : (task[r] = NoTask) <=> (pc[r] = "idle")
  /\ seen \in [Reqs -> SUBSET Uids]
  /\ overtaken \in Nat /\ stale \in BOOLEAN
  /\ failures \in 0..MaxFailures /\ requests \in 0..MaxRequests

\* The requests implement RoomRules: as long as none of them was overtaken
\* between its check and its commit, and RoomCreate did not fail half way,
\* every transaction is one step of the rules, however many handlers overlap.
RuleState ==
  IF state = "active" /\ Creating THEN "new" ELSE state

Rules == INSTANCE RoomRules WITH
  state <- RuleState, owner <- createUid, broken <- overtaken > 0

ImplementsRules == Rules!Spec

\* The other two views of the membership agree with it: the visible sessions at
\* every moment, whatever overlaps, and the cached list of members when no
\* handler is about to refresh it, unless a refresh failed or stored a list it
\* had read too early.
MemberViewsAgree ==
  /\ session = Members
  /\ ~stale /\ (\A r \in Reqs : pc[r] \notin {"read", "set"}) => cache \in {NoCache, Members}

=============================================================================
