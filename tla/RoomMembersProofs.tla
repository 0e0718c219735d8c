------------------------- MODULE RoomMembersProofs -------------------------
(***************************************************************************)
(* Proofs about RoomMembers, for any finite set of users and any number of *)
(* handlers, failures and overtaken commits: Spec implements RoomRules as  *)
(* long as a room's owner does not name himself in a role update, and the  *)
(* sessions and the cached list agree with the members.                    *)
(*                                                                         *)
(* A step is a rule of RoomRules, or leaves the rules' state alone, or     *)
(* follows an overtaken commit, where nothing is promised. Which rule a    *)
(* valid commit is, depends on what RoomRules keeps (RulesKeep): the owner *)
(* alone has his role, and the count is the number of members.             *)
(***************************************************************************)
EXTENDS RoomMembers, FiniteSetTheorems, TLAPS

(* What RoomRules keeps, on the rows of RoomMembers.                       *)
RulesKeep == Rules!TypeOK /\ Rules!OneOwner /\ Rules!CountsMembers

Shape ==
  /\ state \in {"none", "active", "dissolved"}
  /\ createUid \in Uids \cup {NoUid} /\ count \in Nat /\ overtaken \in Nat
  /\ role \in [Uids -> Roles] /\ session \subseteq Uids
  /\ pc \in [Reqs -> Stages] /\ task \in [Reqs -> Tasks \cup {NoTask}]
  /\ \A r \in Reqs : pc[r] # "idle" => task[r] \in Tasks

CreatingIn(r) == pc[r] = "commit" /\ task[r].op = "create"

(* What a pending commit was started with.                                 *)
TasksSound ==
  \A r \in Reqs :
    /\ pc[r] = "mark" => task[r].op \in {"accept", "reject"}
    /\ pc[r] = "commit" /\ task[r].op = "role" => task[r].new \in {"normal", "admin"}

(* One handler creates the room, and nobody hands it over before.          *)
CreationSound ==
  /\ \A r \in Reqs : CreatingIn(r) => state # "none"
  /\ \A r, q \in Reqs : CreatingIn(r) /\ CreatingIn(q) => r = q
  /\ overtaken = 0 /\ Creating => state = "active" /\ createUid = Creator

IInv == Shape /\ TasksSound /\ CreationSound /\ RulesKeep

-----------------------------------------------------------------------------
(* The rules keep one owner and count the members. That the count never    *)
(* goes below zero rests on its counting the members, so that type and     *)
(* count are kept together.                                                *)

(* RoomRules counts as FiniteSets does.                                    *)
LEMMA SameCardinality == \A S : Rules!Cardinality(S) = Cardinality(S)
BY DEF Cardinality, Rules!Cardinality

(* A user who gets a role other than "out" is one member more, one who     *)
(* loses it is one less, and any other change of roles moves nobody.       *)
LEMMA EnterCounts ==
  ASSUME Rules!TypeOK, NEW u \in Uids, role[u] = "out",
         NEW r \in {"normal", "admin", "owner"}, role' = [role EXCEPT ![u] = r]
  PROVE  Cardinality(Rules!In') = Cardinality(Rules!In) + 1
<1>1. Rules!In' = Rules!In \cup {u} /\ u \notin Rules!In
  BY DEF Rules!In, Rules!TypeOK
<1>2. IsFiniteSet(Rules!In)
  BY ConstantsAssumption, FS_Subset DEF Rules!In
<1> QED
  BY <1>1, <1>2, FS_AddElement

LEMMA ExitCounts ==
  ASSUME Rules!TypeOK, NEW u \in Uids, role[u] # "out",
         role' = [role EXCEPT ![u] = "out"]
  PROVE  /\ Cardinality(Rules!In') = Cardinality(Rules!In) - 1
         /\ Cardinality(Rules!In') \in Nat
<1>1. Rules!In' = Rules!In \ {u} /\ u \in Rules!In
  BY DEF Rules!In, Rules!TypeOK
<1>2. IsFiniteSet(Rules!In)
  BY ConstantsAssumption, FS_Subset DEF Rules!In
<1>3. IsFiniteSet(Rules!In')
  BY <1>1, <1>2, FS_Subset
<1> QED
  BY <1>1, <1>2, <1>3, FS_RemoveElement, FS_CardinalityType

LEMMA NobodyCountsZero ==
  ASSUME Rules!In = {}
  PROVE  Cardinality(Rules!In) = 0
BY FS_EmptySet

(* Each rule keeps the invariant.                                          *)
LEMMA RuleKeeps ==
  ASSUME RulesKeep, ~(overtaken > 0), (overtaken > 0)' = FALSE, Rules!Rule
  PROVE  RulesKeep'
<1>1. ASSUME NEW u \in Uids, Rules!Announce(u) PROVE RulesKeep'
  <2>1. Rules!In' = Rules!In /\ Rules!In = {}
    BY <1>1 DEF Rules!Announce, Rules!In, RulesKeep, Rules!OneOwner
  <2>2. Rules!TypeOK' /\ Rules!CountsMembers'
    BY <1>1, <2>1 DEF Rules!Announce, RulesKeep, Rules!TypeOK, Rules!CountsMembers
  <2>3. Rules!OneOwner'
    BY <1>1, <2>1 DEF Rules!Announce, RulesKeep, Rules!TypeOK, Rules!OneOwner, Rules!In
  <2> QED
    BY <2>2, <2>3 DEF RulesKeep
<1>2. CASE Rules!Found
  <2>1. createUid \in Uids /\ Cardinality(Rules!In') = Cardinality(Rules!In) + 1
    BY <1>2, EnterCounts DEF Rules!Found, RulesKeep, Rules!OneOwner
  <2>2. Rules!TypeOK' /\ Rules!CountsMembers'
    <3>1. count' \in Nat
      BY <1>2 DEF Rules!Found, RulesKeep, Rules!TypeOK
    <3>2. role' \in [Uids -> {"out", "normal", "admin", "owner"}]
      BY <1>2, <2>1 DEF Rules!Found, RulesKeep, Rules!TypeOK
    <3>3. Rules!TypeOK'
      BY <1>2, <3>1, <3>2 DEF Rules!Found, RulesKeep, Rules!TypeOK
    <3>4. Rules!CountsMembers'
      BY <1>2, <2>1, <3>1, SameCardinality DEF Rules!Found, RulesKeep, Rules!CountsMembers
    <3> QED
      BY <3>3, <3>4
  <2>3. Rules!OneOwner'
    BY <1>2, <2>1 DEF Rules!Found, RulesKeep, Rules!TypeOK, Rules!OneOwner, Rules!In
  <2> QED
    BY <2>2, <2>3 DEF RulesKeep
<1>3. ASSUME NEW u \in Uids, Rules!Admit(u) PROVE RulesKeep'
  <2>1. Cardinality(Rules!In') = Cardinality(Rules!In) + 1
    BY <1>3, EnterCounts DEF Rules!Admit, RulesKeep
  <2>2. Rules!TypeOK' /\ Rules!CountsMembers'
    <3>1. count' \in Nat
      BY <1>3 DEF Rules!Admit, RulesKeep, Rules!TypeOK
    <3>2. role' \in [Uids -> {"out", "normal", "admin", "owner"}]
      BY <1>3, <2>1 DEF Rules!Admit, RulesKeep, Rules!TypeOK
    <3>3. Rules!TypeOK'
      BY <1>3, <3>1, <3>2 DEF Rules!Admit, RulesKeep, Rules!TypeOK
    <3>4. Rules!CountsMembers'
      BY <1>3, <2>1, <3>1, SameCardinality DEF Rules!Admit, RulesKeep, Rules!CountsMembers
    <3> QED
      BY <3>3, <3>4
  <2>3. Rules!OneOwner'
    BY <1>3 DEF Rules!Admit, RulesKeep, Rules!TypeOK, Rules!OneOwner, Rules!In
  <2> QED
    BY <2>2, <2>3 DEF RulesKeep
<1>4. ASSUME NEW u \in Uids, Rules!Remove(u) PROVE RulesKeep'
  <2>1. Cardinality(Rules!In') = Cardinality(Rules!In) - 1 /\ Cardinality(Rules!In') \in Nat
    BY <1>4, ExitCounts DEF Rules!Remove, RulesKeep
  <2>2. Rules!TypeOK' /\ Rules!CountsMembers'
    BY <1>4, <2>1, SameCardinality DEF Rules!Remove, RulesKeep, Rules!TypeOK, Rules!CountsMembers
  <2>3. Rules!OneOwner'
    BY <1>4 DEF Rules!Remove, RulesKeep, Rules!TypeOK, Rules!OneOwner, Rules!In
  <2> QED
    BY <2>2, <2>3 DEF RulesKeep
<1>5. ASSUME NEW u \in Uids, NEW r \in {"normal", "admin"}, Rules!Appoint(u, r) PROVE RulesKeep'
  <2>1. Rules!In' = Rules!In
    BY <1>5 DEF Rules!Appoint, Rules!In, RulesKeep, Rules!TypeOK
  <2>2. Rules!TypeOK' /\ Rules!CountsMembers'
    BY <1>5, <2>1 DEF Rules!Appoint, RulesKeep, Rules!TypeOK, Rules!CountsMembers
  <2>3. Rules!OneOwner'
    BY <1>5 DEF Rules!Appoint, RulesKeep, Rules!TypeOK, Rules!OneOwner, Rules!In
  <2> QED
    BY <2>2, <2>3 DEF RulesKeep
<1>6. ASSUME NEW u \in Uids, Rules!HandOver(u) PROVE RulesKeep'
  <2>1. createUid \in Uids /\ role[createUid] = "owner" /\ u # createUid
    BY <1>6 DEF Rules!HandOver, RulesKeep, Rules!OneOwner
  <2>2. Rules!In' = Rules!In
    BY <1>6, <2>1 DEF Rules!HandOver, Rules!In, RulesKeep, Rules!TypeOK
  <2>3. Rules!TypeOK' /\ Rules!CountsMembers'
    BY <1>6, <2>2 DEF Rules!HandOver, RulesKeep, Rules!TypeOK, Rules!CountsMembers
  <2>4. Rules!OneOwner'
    BY <1>6, <2>1 DEF Rules!HandOver, RulesKeep, Rules!TypeOK, Rules!OneOwner, Rules!In
  <2> QED
    BY <2>3, <2>4 DEF RulesKeep
<1>7. CASE Rules!Dissolve
  BY <1>7 DEF Rules!Dissolve, RulesKeep, Rules!TypeOK, Rules!OneOwner, Rules!CountsMembers, Rules!In
<1> QED
  BY <1>1, <1>2, <1>3, <1>4, <1>5, <1>6, <1>7 DEF Rules!Rule

LEMMA StepKeeps ==
  ASSUME RulesKeep, [Rules!Next]_Rules!rvars
  PROVE  RulesKeep'
<1>1. CASE ~(overtaken > 0) /\ (overtaken > 0)' = FALSE /\ Rules!Rule
  BY <1>1, RuleKeeps
<1>2. CASE Rules!Break
  BY <1>2 DEF Rules!Break, RulesKeep, Rules!OneOwner, Rules!CountsMembers
<1>3. CASE UNCHANGED Rules!rvars
  BY <1>3 DEF Rules!rvars, RulesKeep, Rules!TypeOK, Rules!OneOwner, Rules!CountsMembers, Rules!In
<1> QED
  BY <1>1, <1>2, <1>3 DEF Rules!Next

(* Where there is a member, member_count is not zero.                      *)
LEMMA MembersCount ==
  ASSUME RulesKeep, ~(overtaken > 0), NEW u \in Uids, role[u] # "out"
  PROVE  count > 0
<1>1. IsFiniteSet(Rules!In) /\ u \in Rules!In
  BY ConstantsAssumption, FS_Subset DEF Rules!In
<1>2. Cardinality(Rules!In) # 0
  BY <1>1, FS_EmptySet
<1> QED
  BY <1>2, SameCardinality DEF RulesKeep, Rules!TypeOK, Rules!CountsMembers


-----------------------------------------------------------------------------
(* What the rules keep, in terms of the rows.                              *)
LEMMA WhileLawful ==
  ASSUME IInv, overtaken = 0
  PROVE  /\ RuleState \in {"active", "dissolved"} =>
              createUid \in Uids /\ role[createUid] = "owner"
         /\ RuleState = "new" => createUid \in Uids /\ role[createUid] = "out"
         /\ \A u \in Uids : role[u] = "owner" => u = createUid
         /\ \A u \in Uids : role[u] # "out" => count > 0
<1>1. ~(overtaken > 0) /\ RulesKeep
  BY DEF IInv
<1>2. \A u \in Uids : role[u] # "out" => count > 0
  BY <1>1, MembersCount
<1> QED
  BY <1>1, <1>2 DEF RulesKeep, Rules!OneOwner

(* After an overtaken commit a step has to keep the types only.            *)
LEMMA BrokenStep ==
  ASSUME Shape', overtaken' > 0
  PROVE  Rules!Next
BY DEF Shape, Roles, RuleState, Rules!Next, Rules!Break, Rules!TypeOK

LEMMA StutterStep ==
  ASSUME UNCHANGED <<state, createUid, role, count, overtaken>>, Creating' <=> Creating
  PROVE  UNCHANGED Rules!rvars
BY DEF Rules!rvars, RuleState

(* A handler moves on and does not become the room's creator.              *)
LEMMA HandlerMoves ==
  ASSUME IInv, Shape', NEW r \in Reqs,
         \A q \in Reqs \ {r} : pc'[q] = pc[q] /\ task'[q] = task[q],
         ~CreatingIn(r)',
         pc'[r] = "mark" => task'[r].op \in {"accept", "reject"},
         pc'[r] = "commit" /\ task'[r].op = "role" => task'[r].new \in {"normal", "admin"},
         state # "none" => state' # "none",
         overtaken' = 0 => overtaken = 0,
         overtaken' = 0 /\ Creating' => UNCHANGED <<state, createUid>>,
         [Rules!Next]_Rules!rvars
  PROVE  IInv'
<1>1. \A q \in Reqs \ {r} : CreatingIn(q)' <=> CreatingIn(q)
  BY DEF CreatingIn
<1>2. Creating' => Creating
  BY <1>1 DEF Creating, CreatingIn
<1>3. TasksSound'
  BY DEF IInv, TasksSound
<1>4. CreationSound'
  BY <1>1, <1>2 DEF IInv, CreationSound
<1>5. RulesKeep'
  BY StepKeeps DEF IInv
<1> QED
  BY <1>3, <1>4, <1>5 DEF IInv

(* The creator's handler is the same before and after.                     *)
LEMMA SameCreating ==
  ASSUME NEW r \in Reqs,
         \A q \in Reqs \ {r} : pc'[q] = pc[q] /\ task'[q] = task[q],
         ~CreatingIn(r), ~CreatingIn(r)'
  PROVE  Creating' <=> Creating
BY DEF Creating, CreatingIn

(* A handler moves on and leaves the rows of the rules alone.              *)
LEMMA QuietStep ==
  ASSUME IInv, Shape', NEW r \in Reqs,
         \A q \in Reqs \ {r} : pc'[q] = pc[q] /\ task'[q] = task[q],
         ~CreatingIn(r), ~CreatingIn(r)',
         pc'[r] = "mark" => task'[r].op \in {"accept", "reject"},
         pc'[r] = "commit" /\ task'[r].op = "role" => task'[r].new \in {"normal", "admin"},
         UNCHANGED <<state, createUid, role, count, overtaken>>
  PROVE  IInv' /\ UNCHANGED Rules!rvars
<1>1. Creating' <=> Creating
  BY SameCreating
<1>2. UNCHANGED Rules!rvars
  BY <1>1, StutterStep
<1>3. overtaken' = 0 => overtaken = 0
  OBVIOUS
<1> QED
  BY <1>2, <1>3, HandlerMoves

-----------------------------------------------------------------------------
(* The checks.                                                             *)

LEMMA StartKeeps ==
  ASSUME IInv, NEW r \in Reqs, NEW t \in Tasks, NEW next \in Stages \ {"idle"},
         t.op # "create",
         next = "mark" => t.op \in {"accept", "reject"},
         next = "commit" /\ t.op = "role" => t.new \in {"normal", "admin"},
         Start(r, t, next), UNCHANGED <<dbVars, overtaken>>
  PROVE  IInv' /\ UNCHANGED Rules!rvars
<1>1. Shape'
  BY DEF IInv, Shape, Start, dbVars
<1>2. /\ pc[r] = "idle" /\ pc'[r] = next /\ task'[r] = t
      /\ \A q \in Reqs \ {r} : pc'[q] = pc[q] /\ task'[q] = task[q]
  BY DEF IInv, Shape, Start
<1>3. UNCHANGED <<state, createUid, role, count, overtaken>>
  BY DEF dbVars
<1>4. ~CreatingIn(r) /\ ~CreatingIn(r)'
  BY <1>2 DEF CreatingIn
<1> QED
  BY <1>1, <1>2, <1>3, <1>4, QuietStep

LEMMA TaskIs ==
  ASSUME NEW op \in {"create", "fill", "join", "apply", "accept", "reject", "role",
                     "transfer", "dissolve", "kick", "leave"},
         NEW by \in Uids, NEW on \in Uids, NEW new \in Roles
  PROVE  /\ Task(op, by, on, new) \in Tasks
         /\ Task(op, by, on, new).op = op /\ Task(op, by, on, new).on = on
         /\ Task(op, by, on, new).new = new
BY DEF Task, Tasks

LEMMA ChecksKeep ==
  ASSUME IInv, NEW r \in Reqs, NEW a \in Uids, NEW u \in Uids,
         NEW right \in BOOLEAN, NEW new \in {"normal", "admin"},
         \/ Fill(r) \/ Join(r, u) \/ JoinByInvite(r, u) \/ RoomLeave(r, u)
         \/ RoomDissolve(r, u) \/ Apply(r, u, right) \/ Accept(r, a, u) \/ Reject(r, a, u)
         \/ RoomMemberKick(r, a, u) \/ Transfer(r, a, u) \/ RoleUpdate(r, a, u, new)
  PROVE  IInv' /\ UNCHANGED Rules!rvars
<1> USE DEF Stages, Roles
<1> DEFINE Sound(t, next) ==
       /\ t \in Tasks /\ t.op # "create" /\ next \in Stages \ {"idle"}
       /\ next = "mark" => t.op \in {"accept", "reject"}
       /\ next = "commit" /\ t.op = "role" => t.new \in {"normal", "admin"}
<1>0. ASSUME NEW t, NEW next, Sound(t, next), Start(r, t, next), UNCHANGED <<dbVars, overtaken>>
      PROVE  IInv' /\ UNCHANGED Rules!rvars
  BY <1>0, StartKeeps
<1>1. CASE Fill(r)
  <2>1. Sound(Task("fill", Creator, Creator, "out"), "read")
    BY ConstantsAssumption, TaskIs
  <2> QED
    BY <1>0, <1>1, <2>1 DEF Fill
<1>2. CASE Join(r, u) \/ JoinByInvite(r, u)
  <2>1. Sound(Task("join", u, u, "normal"), "commit")
    BY TaskIs
  <2> QED
    BY <1>0, <1>2, <2>1 DEF Join, JoinByInvite
<1>3. CASE RoomLeave(r, u)
  <2>1. Sound(Task("leave", u, u, "out"), "commit")
    BY TaskIs
  <2> QED
    BY <1>0, <1>3, <2>1 DEF RoomLeave
<1>4. CASE RoomDissolve(r, u)
  <2>1. Sound(Task("dissolve", u, u, "owner"), "commit")
    BY TaskIs
  <2> QED
    BY <1>0, <1>4, <2>1 DEF RoomDissolve
<1>5. CASE Apply(r, u, right)
  <2>1. \A next \in {"commit", "save"} : Sound(Task("apply", u, u, "normal"), next)
    BY TaskIs
  <2>2. Start(r, Task("apply", u, u, "normal"), "commit") \/ Start(r, Task("apply", u, u, "normal"), "save")
    BY <1>5 DEF Apply
  <2> QED
    BY <1>0, <1>5, <2>1, <2>2 DEF Apply
<1>6. CASE Accept(r, a, u)
  <2>1. Sound(Task("accept", a, u, "normal"), "mark")
    BY TaskIs
  <2> QED
    BY <1>0, <1>6, <2>1 DEF Accept
<1>7. CASE Reject(r, a, u)
  <2>1. Sound(Task("reject", a, u, "out"), "mark")
    BY TaskIs
  <2> QED
    BY <1>0, <1>7, <2>1 DEF Reject
<1>8. CASE RoomMemberKick(r, a, u)
  <2>1. Sound(Task("kick", a, u, "out"), "commit")
    BY TaskIs
  <2> QED
    BY <1>0, <1>8, <2>1 DEF RoomMemberKick
<1>9. CASE Transfer(r, a, u)
  <2>1. Sound(Task("transfer", a, u, "owner"), "commit")
    BY TaskIs
  <2> QED
    BY <1>0, <1>9, <2>1 DEF Transfer
<1>10. CASE RoleUpdate(r, a, u, new)
  <2>1. Sound(Task("role", a, u, new), "commit")
    BY TaskIs
  <2> QED
    BY <1>0, <1>10, <2>1 DEF RoleUpdate
<1> QED
  BY <1>1, <1>2, <1>3, <1>4, <1>5, <1>6, <1>7, <1>8, <1>9, <1>10

(* RoomCreate inserts the row: the room is announced.                      *)
LEMMA CreateRowKeeps ==
  ASSUME IInv, NEW r \in Reqs, CreateRow(r)
  PROVE  IInv' /\ [Rules!Next]_Rules!rvars
<1> DEFINE t == Task("create", Creator, Creator, "owner")
<1>1. t \in Tasks /\ t.op = "create" /\ t.on = Creator
  BY ConstantsAssumption, TaskIs DEF Roles
<1>2. /\ state = "none" /\ state' = "active" /\ createUid' = Creator
      /\ pc' = [pc EXCEPT ![r] = "commit"] /\ task' = [task EXCEPT ![r] = t]
      /\ UNCHANGED <<count, role, session, overtaken>>
  BY DEF CreateRow, Start
<1> HIDE DEF t
<1>3. Shape'
  BY <1>1, <1>2, ConstantsAssumption DEF IInv, Shape, Stages
<1>4. /\ pc'[r] = "commit" /\ task'[r] = t
      /\ \A q \in Reqs \ {r} : pc'[q] = pc[q] /\ task'[q] = task[q]
  BY <1>2 DEF IInv, Shape
<1>5. \A q \in Reqs : ~CreatingIn(q)
  BY <1>2 DEF IInv, CreationSound
<1>6. \A q \in Reqs : CreatingIn(q)' <=> q = r
  BY <1>1, <1>4, <1>5 DEF CreatingIn
<1>7. ~Creating /\ Creating'
  BY <1>5, <1>6 DEF Creating, CreatingIn
<1>8. TasksSound'
  BY <1>1, <1>2, <1>4 DEF IInv, TasksSound
<1>9. CreationSound'
  BY <1>2, <1>6 DEF CreationSound
<1>10. [Rules!Next]_Rules!rvars
  <2>1. CASE overtaken = 0
    <3>1. RuleState = "none" /\ RuleState' = "new"
      BY <1>2, <1>7 DEF RuleState
    <3>2. Rules!Announce(Creator)
      BY <1>2, <3>1 DEF Rules!Announce
    <3>3. Rules!Rule
      BY <3>2, ConstantsAssumption DEF Rules!Rule
    <3> QED
      BY <1>2, <2>1, <3>3 DEF Rules!Next
  <2>2. CASE overtaken # 0
    BY <1>2, <1>3, <2>2, BrokenStep DEF Shape
  <2> QED
    BY <2>1, <2>2
<1>11. RulesKeep'
  BY <1>10, StepKeeps DEF IInv
<1> QED
  BY <1>3, <1>8, <1>9, <1>10, <1>11 DEF IInv

-----------------------------------------------------------------------------
(* The commits.                                                            *)

LEMMA CommitMoves ==
  ASSUME Shape, NEW r \in Reqs, pc[r] = "commit",
         Count(task[r]), Go(r, AfterCommit(task[r]))
  PROVE  /\ pc' \in [Reqs -> Stages] /\ task' \in [Reqs -> Tasks \cup {NoTask}]
         /\ \A q \in Reqs : pc'[q] # "idle" => task'[q] \in Tasks
         /\ \A q \in Reqs \ {r} : pc'[q] = pc[q] /\ task'[q] = task[q]
         /\ pc'[r] \in {"idle", "read"}
         /\ overtaken' \in Nat
         /\ overtaken' = 0 => overtaken = 0 /\ Valid(task[r])
<1>1. PICK next \in {"idle", "read"} : Go(r, next)
  BY DEF AfterCommit
<1>2. /\ pc \in [Reqs -> Stages] /\ task \in [Reqs -> Tasks \cup {NoTask}]
      /\ \A q \in Reqs : pc[q] # "idle" => task[q] \in Tasks
  BY DEF Shape
<1>3. /\ pc' = [pc EXCEPT ![r] = next]
      /\ task' = IF next = "idle" THEN [task EXCEPT ![r] = NoTask] ELSE task
  BY <1>1 DEF Go
<1>4. next \in Stages
  BY DEF Stages
<1>5. /\ pc'[r] = next /\ \A q \in Reqs \ {r} : pc'[q] = pc[q] /\ task'[q] = task[q]
      /\ pc' \in [Reqs -> Stages] /\ task' \in [Reqs -> Tasks \cup {NoTask}]
  BY <1>2, <1>3, <1>4
<1>6. \A q \in Reqs : pc'[q] # "idle" => task'[q] \in Tasks
  BY <1>2, <1>3, <1>5
<1>7. overtaken' \in Nat /\ (overtaken' = 0 => overtaken = 0 /\ Valid(task[r]))
  BY DEF Count, Shape
<1> QED
  BY <1>5, <1>6, <1>7

(* A commit that was not overtaken has to be a rule.                       *)
LEMMA CommitKeeps ==
  ASSUME IInv, NEW r \in Reqs, pc[r] = "commit",
         Count(task[r]), Go(r, AfterCommit(task[r])),
         state' \in {"none", "active", "dissolved"}, createUid' \in Uids \cup {NoUid},
         count' \in Nat, role' \in [Uids -> Roles], session' \subseteq Uids,
         state # "none" => state' # "none",
         overtaken' = 0 /\ Creating' => UNCHANGED <<state, createUid>>,
         overtaken' = 0 => Rules!Rule
  PROVE  IInv' /\ [Rules!Next]_Rules!rvars
<1>1. Shape' /\ pc'[r] \in {"idle", "read"}
      /\ \A q \in Reqs \ {r} : pc'[q] = pc[q] /\ task'[q] = task[q]
  BY CommitMoves DEF Shape, IInv
<1>2. overtaken' = 0 => overtaken = 0
  BY CommitMoves DEF IInv
<1>3. [Rules!Next]_Rules!rvars
  <2>1. CASE overtaken' = 0
    <3>1. ~(overtaken > 0) /\ (overtaken' > 0) = FALSE
      BY <1>2, <2>1
    <3> QED
      BY <2>1, <3>1 DEF Rules!Next
  <2>2. CASE overtaken' # 0
    BY <1>1, <2>2, BrokenStep DEF Shape
  <2> QED
    BY <2>1, <2>2
<1>4. ~CreatingIn(r)'
  BY <1>1 DEF CreatingIn
<1> QED
  BY <1>1, <1>2, <1>3, <1>4, HandlerMoves

(* The commit of a handler that does not create the room.                  *)
LEMMA NotCreating ==
  ASSUME IInv, NEW r \in Reqs, pc[r] = "commit", task[r].op # "create",
         Count(task[r]), Go(r, AfterCommit(task[r]))
  PROVE  Creating' <=> Creating
BY CommitMoves, SameCreating DEF CreatingIn, IInv

LEMMA CommitCreateKeeps ==
  ASSUME IInv, NEW r \in Reqs, CommitCreate(r)
  PROVE  IInv' /\ [Rules!Next]_Rules!rvars
<1>1. /\ pc[r] = "commit" /\ task[r].op = "create" /\ role[Creator] = "out"
      /\ Count(task[r]) /\ Go(r, AfterCommit(task[r]))
      /\ role' = [role EXCEPT ![Creator] = "owner"]
      /\ session' = session \cup {Creator} /\ count' = count + 1
      /\ UNCHANGED <<state, createUid>>
  BY DEF CommitCreate, Enter
<1>2. role' \in [Uids -> Roles] /\ count' \in Nat /\ session' \subseteq Uids
  BY <1>1, ConstantsAssumption DEF IInv, Shape, Roles
<1>3. ASSUME overtaken' = 0 PROVE Rules!Rule
  <2>1. Creating /\ overtaken = 0
    BY <1>1, <1>3, CommitMoves DEF Creating, IInv
  <2>2. state = "active" /\ createUid = Creator
    BY <2>1 DEF IInv, CreationSound
  <2>3. ~Creating'
    <3>1. \A q \in Reqs \ {r} : ~CreatingIn(q)
      BY <1>1 DEF IInv, CreationSound, CreatingIn
    <3> QED
      BY <1>1, <3>1, CommitMoves DEF Creating, CreatingIn, IInv
  <2>4. RuleState = "new" /\ RuleState' = "active"
    BY <1>1, <2>1, <2>2, <2>3 DEF RuleState
  <2>5. Rules!Found
    BY <1>1, <2>2, <2>4 DEF Rules!Found
  <2> QED
    BY <2>5 DEF Rules!Rule
<1>4. state' \in {"none", "active", "dissolved"} /\ createUid' \in Uids \cup {NoUid}
  BY <1>1 DEF IInv, Shape
<1> QED
  BY <1>1, <1>2, <1>3, <1>4, CommitKeeps

LEMMA CommitJoinKeeps ==
  ASSUME IInv, NEW r \in Reqs, CommitJoin(r)
  PROVE  IInv' /\ [Rules!Next]_Rules!rvars
<1> DEFINE t == task[r]
<1>1. /\ pc[r] = "commit" /\ t.op \in {"join", "apply", "accept"}
      /\ Count(t) /\ Go(r, AfterCommit(t))
      /\ role' = [role EXCEPT ![t.on] = "normal"]
      /\ session' = session \cup {t.on} /\ count' = count + 1
      /\ UNCHANGED <<state, createUid>>
  BY DEF CommitJoin, Enter
<1>2. t.on \in Uids
  BY <1>1 DEF IInv, Shape, Tasks
<1>3. role' \in [Uids -> Roles] /\ count' \in Nat /\ session' \subseteq Uids
      /\ state' \in {"none", "active", "dissolved"} /\ createUid' \in Uids \cup {NoUid}
  BY <1>1, <1>2 DEF IInv, Shape, Roles
<1>4. Creating' <=> Creating
  BY <1>1, NotCreating
<1>5. ASSUME overtaken' = 0 PROVE Rules!Rule
  <2>1. Valid(t)
    BY <1>1, <1>5, CommitMoves DEF IInv
  <2>2. state = "active" /\ role[t.on] = "out" /\ (Creating => t.on # createUid)
    BY <1>1, <1>2, <2>1 DEF Valid, CanJoin, Members
  <2>3. RuleState \in {"new", "active"} /\ RuleState' = RuleState
        /\ (RuleState = "new" => t.on # createUid)
    BY <1>1, <1>4, <2>2 DEF RuleState
  <2>4. Rules!Admit(t.on)
    BY <1>1, <2>2, <2>3 DEF Rules!Admit
  <2> QED
    BY <1>2, <2>4 DEF Rules!Rule
<1> QED
  BY <1>1, <1>3, <1>5, CommitKeeps

LEMMA CommitExitKeeps ==
  ASSUME IInv, NEW r \in Reqs, CommitExit(r)
  PROVE  IInv' /\ [Rules!Next]_Rules!rvars
<1> DEFINE t == task[r]
<1>1. /\ pc[r] = "commit" /\ t.op \in {"kick", "leave"}
      /\ Count(t) /\ Go(r, AfterCommit(t))
      /\ role' = [role EXCEPT ![t.on] = "out"]
      /\ session' = session \ {t.on}
      /\ count' = IF count > 0 THEN count - 1 ELSE 0
      /\ UNCHANGED <<state, createUid>>
  BY DEF CommitExit, Exit
<1>2. t.on \in Uids
  BY <1>1 DEF IInv, Shape, Tasks
<1>3. role' \in [Uids -> Roles] /\ count' \in Nat /\ session' \subseteq Uids
      /\ state' \in {"none", "active", "dissolved"} /\ createUid' \in Uids \cup {NoUid}
  BY <1>1, <1>2 DEF IInv, Shape, Roles
<1>4. Creating' <=> Creating
  BY <1>1, NotCreating
<1>5. ASSUME overtaken' = 0 PROVE Rules!Rule
  <2>1. Valid(t) /\ overtaken = 0
    BY <1>1, <1>5, CommitMoves DEF IInv
  <2>2. state = "active" /\ role[t.on] \in {"normal", "admin"}
    BY <1>1, <2>1 DEF Valid, CanLeave, CanKick
  <2>3. RuleState \in {"new", "active"} /\ RuleState' = RuleState
    BY <1>1, <1>4, <2>2 DEF RuleState
  <2>4. count > 0
    BY <1>2, <2>1, <2>2, WhileLawful
  <2>5. Rules!Remove(t.on)
    BY <1>1, <2>2, <2>3, <2>4 DEF Rules!Remove
  <2> QED
    BY <1>2, <2>5 DEF Rules!Rule
<1> QED
  BY <1>1, <1>3, <1>5, CommitKeeps

(* Without SelfRole the user named is never the owner.                     *)
LEMMA CommitRoleKeeps ==
  ASSUME SelfRole = FALSE, IInv, NEW r \in Reqs, CommitRole(r)
  PROVE  IInv' /\ [Rules!Next]_Rules!rvars
<1> DEFINE t == task[r]
<1>1. /\ pc[r] = "commit" /\ t.op = "role"
      /\ Count(t) /\ Go(r, AfterCommit(t))
      /\ role' = [role EXCEPT ![t.on] = IF @ = "out" THEN @ ELSE t.new]
      /\ UNCHANGED <<state, createUid, count, session>>
  BY DEF CommitRole
<1>2. t.on \in Uids /\ t.new \in {"normal", "admin"}
  BY <1>1 DEF IInv, Shape, Tasks, TasksSound
<1>3. role' \in [Uids -> Roles] /\ count' \in Nat /\ session' \subseteq Uids
      /\ state' \in {"none", "active", "dissolved"} /\ createUid' \in Uids \cup {NoUid}
  BY <1>1, <1>2 DEF IInv, Shape, Roles
<1>4. Creating' <=> Creating
  BY <1>1, NotCreating
<1>5. ASSUME overtaken' = 0 PROVE Rules!Rule
  <2>1. Valid(t) /\ overtaken = 0
    BY <1>1, <1>5, CommitMoves DEF IInv
  <2>2. state = "active" /\ t.on # createUid /\ role[t.on] # "out"
    BY <1>1, <2>1 DEF Valid, CanSetRole
  <2>3. RuleState \in {"new", "active"} /\ RuleState' = RuleState
    BY <1>1, <1>4, <2>2 DEF RuleState
  <2>4. role[t.on] # "owner"
    BY <1>2, <2>1, <2>2, WhileLawful
  <2>5. role[t.on] \in {"normal", "admin"}
    BY <1>2, <2>2, <2>4 DEF IInv, Shape, Roles
  <2>6. role' = [role EXCEPT ![t.on] = t.new]
    BY <1>1, <2>2
  <2>7. Rules!Appoint(t.on, t.new)
    BY <1>1, <1>2, <2>3, <2>5, <2>6 DEF Rules!Appoint
  <2> QED
    BY <1>2, <2>7 DEF Rules!Rule
<1> QED
  BY <1>1, <1>3, <1>5, CommitKeeps

(* Whoever has the owner's role is create_uid, and the creation is over.   *)
LEMMA OwnerCommits ==
  ASSUME IInv, overtaken = 0, state = "active", NEW o \in Uids, role[o] = "owner"
  PROVE  o = createUid /\ ~Creating /\ RuleState = "active"
<1>1. o = createUid
  BY WhileLawful
<1>2. RuleState # "new"
  BY <1>1, WhileLawful
<1> QED
  BY <1>1, <1>2 DEF RuleState

LEMMA CommitTransferKeeps ==
  ASSUME IInv, NEW r \in Reqs, CommitTransfer(r)
  PROVE  IInv' /\ [Rules!Next]_Rules!rvars
<1> DEFINE t == task[r]
<1>1. /\ pc[r] = "commit" /\ t.op = "transfer"
      /\ Count(t) /\ Go(r, AfterCommit(t)) /\ HandOver(t)
      /\ UNCHANGED <<state, count, session>>
  BY DEF CommitTransfer
<1>2. t.on \in Uids /\ t.by \in Uids
  BY <1>1 DEF IInv, Shape, Tasks
<1>3. role' \in [Uids -> Roles] /\ count' \in Nat /\ session' \subseteq Uids
      /\ state' \in {"none", "active", "dissolved"} /\ createUid' \in Uids \cup {NoUid}
  BY <1>1, <1>2 DEF IInv, Shape, Roles, HandOver
<1>4. Creating' <=> Creating
  BY <1>1, NotCreating
<1>5. ASSUME overtaken' = 0
      PROVE  ~Creating' /\ Rules!Rule
  <2>1. Valid(t) /\ overtaken = 0
    BY <1>1, <1>5, CommitMoves DEF IInv
  <2>2. /\ state = "active" /\ t.on # t.by
        /\ role[t.by] = "owner" /\ role[t.on] \in {"normal", "admin"}
    BY <1>1, <2>1 DEF Valid, CanTransfer
  <2>3. t.by = createUid /\ ~Creating /\ RuleState = "active"
    BY <1>2, <2>1, <2>2, OwnerCommits
  <2>4. RuleState' = "active"
    BY <1>1, <1>4, <2>2, <2>3 DEF RuleState
  <2>5. \A u \in Uids : role[u] = "owner" => u = createUid
    BY <2>1, WhileLawful
  <2>6. createUid' = t.on /\ role' = [role EXCEPT ![createUid] = "normal", ![t.on] = "owner"]
    <3>1. createUid' = t.on
      BY <1>1, <2>2 DEF HandOver
    <3>2. role' = [u \in Uids |-> IF role[u] = "out" THEN "out"
                     ELSE IF u = t.on THEN "owner"
                     ELSE IF u = t.by THEN "normal" ELSE role[u]]
      BY <1>1 DEF HandOver
    <3>3. role' = [role EXCEPT ![t.by] = "normal", ![t.on] = "owner"]
      BY <3>2, <1>2, <2>2 DEF IInv, Shape
    <3> QED
      BY <3>1, <3>3, <2>3
  <2>7. Rules!HandOver(t.on)
    BY <1>1, <2>2, <2>3, <2>4, <2>6 DEF Rules!HandOver
  <2> QED
    BY <1>2, <1>4, <2>3, <2>7 DEF Rules!Rule
<1> QED
  BY <1>1, <1>3, <1>5, CommitKeeps

LEMMA CommitDissolveKeeps ==
  ASSUME IInv, NEW r \in Reqs, CommitDissolve(r)
  PROVE  IInv' /\ [Rules!Next]_Rules!rvars
<1> DEFINE t == task[r]
<1>1. /\ pc[r] = "commit" /\ t.op = "dissolve"
      /\ Count(t) /\ Go(r, AfterCommit(t)) /\ state' = "dissolved"
      /\ UNCHANGED <<createUid, count, role, session>>
  BY DEF CommitDissolve
<1>2. t.by \in Uids
  BY <1>1 DEF IInv, Shape, Tasks
<1>3. role' \in [Uids -> Roles] /\ count' \in Nat /\ session' \subseteq Uids
      /\ state' \in {"none", "active", "dissolved"} /\ createUid' \in Uids \cup {NoUid}
  BY <1>1 DEF IInv, Shape
<1>4. Creating' <=> Creating
  BY <1>1, NotCreating
<1>5. ASSUME overtaken' = 0
      PROVE  ~Creating' /\ Rules!Rule
  <2>1. Valid(t) /\ overtaken = 0
    BY <1>1, <1>5, CommitMoves DEF IInv
  <2>2. state = "active" /\ role[t.by] = "owner"
    BY <1>1, <2>1 DEF Valid
  <2>3. ~Creating /\ RuleState = "active"
    BY <1>2, <2>1, <2>2, OwnerCommits
  <2>4. RuleState' = "dissolved"
    BY <1>1 DEF RuleState
  <2>5. Rules!Dissolve
    BY <1>1, <2>3, <2>4 DEF Rules!Dissolve
  <2> QED
    BY <1>4, <2>3, <2>5 DEF Rules!Rule
<1> QED
  BY <1>1, <1>3, <1>5, CommitKeeps

-----------------------------------------------------------------------------
(* The other steps of a handler.                                           *)

LEMMA Moves ==
  ASSUME Shape, NEW r \in Reqs, pc[r] # "idle", NEW next \in Stages,
         pc' = [pc EXCEPT ![r] = next],
         task' = IF next = "idle" THEN [task EXCEPT ![r] = NoTask] ELSE task
  PROVE  /\ pc' \in [Reqs -> Stages] /\ task' \in [Reqs -> Tasks \cup {NoTask}]
         /\ \A q \in Reqs : pc'[q] # "idle" => task'[q] \in Tasks
         /\ \A q \in Reqs \ {r} : pc'[q] = pc[q] /\ task'[q] = task[q]
         /\ pc'[r] = next /\ (next # "idle" => task'[r] = task[r])
<1>1. /\ pc'[r] = next /\ \A q \in Reqs \ {r} : pc'[q] = pc[q] /\ task'[q] = task[q]
      /\ pc' \in [Reqs -> Stages] /\ task' \in [Reqs -> Tasks \cup {NoTask}]
      /\ (next # "idle" => task'[r] = task[r])
  BY DEF Shape
<1>2. \A q \in Reqs : pc'[q] # "idle" => task'[q] \in Tasks
  BY <1>1 DEF Shape
<1> QED
  BY <1>1, <1>2

LEMMA QuietMoves ==
  ASSUME IInv, NEW r \in Reqs, pc[r] \notin {"idle", "commit"},
         NEW next \in Stages \ {"commit", "mark"},
         pc' = [pc EXCEPT ![r] = next],
         task' = IF next = "idle" THEN [task EXCEPT ![r] = NoTask] ELSE task,
         UNCHANGED <<state, createUid, role, count, session, overtaken>>
  PROVE  IInv' /\ UNCHANGED Rules!rvars
<1>1. /\ pc' \in [Reqs -> Stages] /\ task' \in [Reqs -> Tasks \cup {NoTask}]
      /\ \A q \in Reqs : pc'[q] # "idle" => task'[q] \in Tasks
      /\ \A q \in Reqs \ {r} : pc'[q] = pc[q] /\ task'[q] = task[q]
      /\ pc'[r] = next
  BY Moves DEF IInv
<1>2. Shape'
  BY <1>1 DEF IInv, Shape
<1>3. ~CreatingIn(r) /\ ~CreatingIn(r)'
  BY <1>1 DEF CreatingIn
<1> QED
  BY <1>1, <1>2, <1>3, QuietStep

LEMMA QuietWork ==
  ASSUME IInv, NEW r \in Reqs,
         SaveRequest(r) \/ RefreshRead(r) \/ RefreshSet(r) \/ RefreshFails(r) \/ Notify(r)
  PROVE  IInv' /\ UNCHANGED Rules!rvars
<1> USE DEF Stages, Go, dbVars
<1>1. CASE SaveRequest(r)
  BY <1>1, QuietMoves DEF SaveRequest
<1>2. CASE RefreshRead(r)
  BY <1>2, QuietMoves DEF RefreshRead
<1>3. PICK next \in {"idle", "notify"} : next = AfterSet(task[r])
  BY DEF AfterSet
<1>4. CASE RefreshSet(r)
  BY <1>3, <1>4, QuietMoves DEF RefreshSet
<1>5. CASE RefreshFails(r)
  BY <1>3, <1>5, QuietMoves DEF RefreshFails
<1>6. CASE Notify(r)
  BY <1>6, QuietMoves DEF Notify
<1> QED
  BY <1>1, <1>2, <1>4, <1>5, <1>6

(* The request's state is written; what was not open any more counts as    *)
(* overtaken.                                                              *)
LEMMA MarkRequestKeeps ==
  ASSUME IInv, NEW r \in Reqs, MarkRequest(r)
  PROVE  IInv' /\ [Rules!Next]_Rules!rvars
<1> DEFINE t == task[r]
<1>1. PICK next \in {"commit", "idle"} :
        next = IF t.op = "accept" THEN "commit" ELSE "idle"
  OBVIOUS
<1>2. /\ pc[r] = "mark" /\ Go(r, next)
      /\ overtaken' = overtaken + IF Open(t.on) THEN 0 ELSE 1
      /\ UNCHANGED <<state, createUid, count, role, session>>
  BY <1>1 DEF MarkRequest
<1>3. next \in Stages /\ Shape
  BY DEF Stages, IInv
<1>4. /\ pc' \in [Reqs -> Stages] /\ task' \in [Reqs -> Tasks \cup {NoTask}]
      /\ \A q \in Reqs : pc'[q] # "idle" => task'[q] \in Tasks
      /\ \A q \in Reqs \ {r} : pc'[q] = pc[q] /\ task'[q] = task[q]
      /\ pc'[r] = next /\ (next # "idle" => task'[r] = t)
  BY <1>2, <1>3, Moves DEF Go
<1>5. overtaken' \in Nat /\ (overtaken' = 0 => overtaken = 0)
  BY <1>2 DEF IInv, Shape
<1>6. Shape'
  BY <1>2, <1>4, <1>5 DEF IInv, Shape
<1>7. ~CreatingIn(r) /\ ~CreatingIn(r)'
  BY <1>1, <1>2, <1>4 DEF CreatingIn
<1>8. [Rules!Next]_Rules!rvars
  <2>1. CASE overtaken' = 0
    BY <1>2, <1>4, <1>5, <1>7, <2>1, SameCreating, StutterStep
  <2>2. CASE overtaken' # 0
    BY <1>5, <1>6, <2>2, BrokenStep
  <2> QED
    BY <2>1, <2>2
<1> QED
  BY <1>1, <1>2, <1>4, <1>5, <1>6, <1>7, <1>8, HandlerMoves

(* A rolled back creation leaves a room without members behind.            *)
LEMMA RollbackKeeps ==
  ASSUME IInv, NEW r \in Reqs, Rollback(r)
  PROVE  IInv' /\ [Rules!Next]_Rules!rvars
<1>1. /\ pc[r] \in {"commit", "mark"}
      /\ overtaken' = overtaken + IF task[r].op = "create" THEN 1 ELSE 0
      /\ pc' = [pc EXCEPT ![r] = "idle"] /\ task' = [task EXCEPT ![r] = NoTask]
      /\ UNCHANGED <<state, createUid, count, role, session>>
  BY DEF Rollback, dbVars
<1>2. "idle" \in Stages /\ Shape
  BY DEF Stages, IInv
<1>3. /\ pc' \in [Reqs -> Stages] /\ task' \in [Reqs -> Tasks \cup {NoTask}]
      /\ \A q \in Reqs : pc'[q] # "idle" => task'[q] \in Tasks
      /\ \A q \in Reqs \ {r} : pc'[q] = pc[q] /\ task'[q] = task[q]
      /\ pc'[r] = "idle"
  BY <1>1, <1>2, Moves
<1>4. overtaken' \in Nat /\ (overtaken' = 0 => overtaken = 0 /\ task[r].op # "create")
  BY <1>1 DEF IInv, Shape
<1>5. Shape'
  BY <1>1, <1>3, <1>4 DEF IInv, Shape
<1>6. ~CreatingIn(r)'
  BY <1>3 DEF CreatingIn
<1>7. [Rules!Next]_Rules!rvars
  <2>1. CASE overtaken' = 0
    <3>1. ~CreatingIn(r)
      BY <1>4, <2>1 DEF CreatingIn
    <3> QED
      BY <1>1, <1>3, <1>4, <1>6, <2>1, <3>1, SameCreating, StutterStep
  <2>2. CASE overtaken' # 0
    BY <1>4, <1>5, <2>2, BrokenStep
  <2> QED
    BY <2>1, <2>2
<1> QED
  BY <1>1, <1>3, <1>4, <1>5, <1>6, <1>7, HandlerMoves

(* A step that touches neither the rules' rows nor a handler.              *)
LEMMA AsideKeeps ==
  ASSUME IInv, UNCHANGED <<state, createUid, count, role, session, pc, task, overtaken>>
  PROVE  IInv' /\ UNCHANGED Rules!rvars
<1>1. Shape' /\ TasksSound' /\ (Creating' <=> Creating)
  BY DEF IInv, Shape, TasksSound, Creating
<1>2. CreationSound'
  BY <1>1 DEF IInv, CreationSound, CreatingIn
<1>3. UNCHANGED Rules!rvars
  BY <1>1, StutterStep
<1>4. RulesKeep'
  BY <1>3, StepKeeps DEF IInv
<1> QED
  BY <1>1, <1>2, <1>3, <1>4 DEF IInv

LEMMA StepIsRule ==
  ASSUME SelfRole = FALSE, IInv, [Next]_vars
  PROVE  IInv' /\ [Rules!Next]_Rules!rvars
<1>1. CASE UNCHANGED vars
  BY <1>1, AsideKeeps DEF vars, dbVars, slotVars
<1>2. CASE CacheLost
  BY <1>2, AsideKeeps DEF CacheLost, dbVars, slotVars
<1>3. ASSUME NEW r \in Reqs, Check(r)
      PROVE  IInv' /\ [Rules!Next]_Rules!rvars
  <2>1. CASE CreateRow(r)
    BY <2>1, CreateRowKeeps
  <2>2. ASSUME NEW u \in Uids, JoinConfigUpdate(r, u)
        PROVE  IInv' /\ [Rules!Next]_Rules!rvars
    BY <2>2, AsideKeeps DEF JoinConfigUpdate, slotVars
  <2>3. CASE Fill(r)
    BY <2>3, ChecksKeep, ConstantsAssumption
  <2>4. ASSUME NEW u \in Uids,
               \/ Join(r, u) \/ JoinByInvite(r, u) \/ RoomLeave(r, u) \/ RoomDissolve(r, u)
               \/ \E right \in BOOLEAN : Apply(r, u, right)
        PROVE  IInv' /\ [Rules!Next]_Rules!rvars
    BY <2>4, ChecksKeep
  <2>5. ASSUME NEW a \in Uids, NEW u \in Uids,
               \/ Accept(r, a, u) \/ Reject(r, a, u) \/ RoomMemberKick(r, a, u)
               \/ Transfer(r, a, u)
               \/ \E new \in {"normal", "admin"} : RoleUpdate(r, a, u, new)
        PROVE  IInv' /\ [Rules!Next]_Rules!rvars
    BY <2>5, ChecksKeep
  <2> QED
    BY <1>3, <2>1, <2>2, <2>3, <2>4, <2>5 DEF Check
<1>4. ASSUME NEW r \in Reqs, Work(r) \/ Rollback(r) \/ RefreshFails(r)
      PROVE  IInv' /\ [Rules!Next]_Rules!rvars
  BY <1>4, CommitCreateKeeps, CommitJoinKeeps, CommitExitKeeps, CommitRoleKeeps,
     CommitTransferKeeps, CommitDissolveKeeps, QuietWork, MarkRequestKeeps, RollbackKeeps
     DEF Work
<1> QED
  BY <1>1, <1>2, <1>3, <1>4 DEF Next

-----------------------------------------------------------------------------
LEMMA InitIsRule ==
  ASSUME Init
  PROVE  IInv /\ Rules!Init
<1>1. Shape /\ TasksSound
  BY DEF Init, Shape, TasksSound, Stages, Roles
<1>2. ~Creating
  BY DEF Init, Creating
<1>3. CreationSound
  BY <1>2 DEF Init, CreationSound, CreatingIn
<1>4. Rules!Init
  BY DEF Init, Rules!Init, RuleState
<1>5. Rules!In = {}
  BY DEF Init, Rules!In
<1>6. RulesKeep
  BY <1>4, <1>5, NobodyCountsZero, SameCardinality
     DEF Rules!Init, RulesKeep, Rules!TypeOK, Rules!OneOwner, Rules!CountsMembers
<1> QED
  BY <1>1, <1>3, <1>4, <1>6 DEF IInv

(* Each handler's transaction is one step of RoomRules, however many       *)
(* handlers overlap (RoomOwnerTransfer, RoomLeave, RoomMemberKick, the     *)
(* joins): while nothing was overtaken the room has one owner and counts   *)
(* its members. The owner's naming himself in RoomUserRoleUpdate is left   *)
(* out: it takes his role away.                                            *)
THEOREM Implements == ASSUME SelfRole = FALSE PROVE Spec => ImplementsRules
<1>1. Init => IInv /\ Rules!Init
  BY InitIsRule
<1>2. IInv /\ [Next]_vars => IInv'
  BY StepIsRule
<1>3. IInv /\ [Next]_vars => [Rules!Next]_Rules!rvars
  BY StepIsRule
<1> QED
  BY <1>1, <1>2, <1>3, PTL DEF Spec, ImplementsRules, Rules!Spec

(* What the rules are for, on the rows themselves: until a commit is       *)
(* overtaken, RoomOwnerTransfer, RoomLeave, RoomMemberKick and the role    *)
(* updates together leave the room with one owner, its create_uid.         *)
THEOREM OneOwnerHolds == ASSUME SelfRole = FALSE PROVE Spec => []Rules!OneOwner
<1>1. Init => IInv
  BY InitIsRule
<1>2. IInv /\ [Next]_vars => IInv'
  BY StepIsRule
<1>3. IInv => Rules!OneOwner
  BY DEF IInv, RulesKeep
<1> QED
  BY <1>1, <1>2, <1>3, PTL DEF Spec

(* member_count, counted up and down by every join and exit, is the number *)
(* of members until a commit is overtaken.                                 *)
THEOREM CountsMembersHolds == ASSUME SelfRole = FALSE PROVE Spec => []Rules!CountsMembers
<1>1. Init => IInv
  BY InitIsRule
<1>2. IInv /\ [Next]_vars => IInv'
  BY StepIsRule
<1>3. IInv => Rules!CountsMembers
  BY DEF IInv, RulesKeep
<1> QED
  BY <1>1, <1>2, <1>3, PTL DEF Spec

-----------------------------------------------------------------------------
(* The views of the membership.                                            *)

ViewsSound == Shape /\ TasksSound /\ MemberViewsAgree

(* The members stay and the list is not stored: only a refresh that goes   *)
(* on may have been one before.                                            *)
LEMMA ViewsStay ==
  ASSUME MemberViewsAgree, Shape, Shape', NEW r \in Reqs,
         Members' = Members, UNCHANGED <<session, cache, stale>>,
         \A q \in Reqs \ {r} : pc'[q] = pc[q],
         pc[r] \in {"read", "set"} => pc'[r] \in {"read", "set"}
  PROVE  MemberViewsAgree'
<1>1. (\A q \in Reqs : pc'[q] \notin {"read", "set"}) => \A q \in Reqs : pc[q] \notin {"read", "set"}
  OBVIOUS
<1> HIDE DEF Members
<1> QED
  BY <1>1 DEF MemberViewsAgree

LEMMA StartViews ==
  ASSUME ViewsSound, NEW r \in Reqs, NEW t \in Tasks, NEW next \in Stages \ {"idle"},
         next = "mark" => t.op \in {"accept", "reject"},
         next = "commit" /\ t.op = "role" => t.new \in {"normal", "admin"},
         Start(r, t, next), UNCHANGED <<count, role, session, overtaken>>,
         state' \in {"none", "active", "dissolved"}, createUid' \in Uids \cup {NoUid}
  PROVE  ViewsSound'
<1>1. /\ pc[r] = "idle" /\ pc'[r] = next /\ task'[r] = t
      /\ \A q \in Reqs \ {r} : pc'[q] = pc[q] /\ task'[q] = task[q]
      /\ UNCHANGED <<cache, stale>>
  BY DEF ViewsSound, Shape, Start
<1>2. pc' \in [Reqs -> Stages] /\ task' \in [Reqs -> Tasks \cup {NoTask}]
  BY DEF ViewsSound, Shape, Start
<1>3. Shape'
  BY <1>1, <1>2 DEF ViewsSound, Shape
<1>4. TasksSound'
  BY <1>1 DEF ViewsSound, TasksSound
<1>5. Members' = Members
  BY DEF Members
<1>6. MemberViewsAgree'
  BY <1>1, <1>3, <1>5, ViewsStay DEF ViewsSound
<1> QED
  BY <1>3, <1>4, <1>6 DEF ViewsSound

LEMMA ChecksKeepViews ==
  ASSUME ViewsSound, NEW r \in Reqs, Check(r)
  PROVE  ViewsSound'
<1> USE DEF Stages, Roles
<1> DEFINE Sound(t, next) ==
       /\ t \in Tasks /\ next \in Stages \ {"idle"}
       /\ next = "mark" => t.op \in {"accept", "reject"}
       /\ next = "commit" /\ t.op = "role" => t.new \in {"normal", "admin"}
<1>0. ASSUME NEW t, NEW next, Sound(t, next), Start(r, t, next),
             UNCHANGED <<dbVars, overtaken>>
      PROVE  ViewsSound'
  BY <1>0, StartViews DEF dbVars, ViewsSound, Shape
<1>1. CASE CreateRow(r)
  <2>1. Sound(Task("create", Creator, Creator, "owner"), "commit")
    BY ConstantsAssumption, TaskIs
  <2> QED
    BY <1>1, <2>1, StartViews, ConstantsAssumption DEF CreateRow
<1>2. CASE Fill(r)
  <2>1. Sound(Task("fill", Creator, Creator, "out"), "read")
    BY ConstantsAssumption, TaskIs
  <2> QED
    BY <1>0, <1>2, <2>1 DEF Fill
<1>3. ASSUME NEW u \in Uids, Join(r, u) \/ JoinByInvite(r, u) PROVE ViewsSound'
  <2>1. Sound(Task("join", u, u, "normal"), "commit")
    BY TaskIs
  <2> QED
    BY <1>0, <1>3, <2>1 DEF Join, JoinByInvite
<1>4. ASSUME NEW u \in Uids, RoomLeave(r, u) PROVE ViewsSound'
  <2>1. Sound(Task("leave", u, u, "out"), "commit")
    BY TaskIs
  <2> QED
    BY <1>0, <1>4, <2>1 DEF RoomLeave
<1>5. ASSUME NEW u \in Uids, JoinConfigUpdate(r, u) PROVE ViewsSound'
  <2>1. UNCHANGED <<state, createUid, count, role, session, pc, task, overtaken, cache, stale>>
    BY <1>5 DEF JoinConfigUpdate, slotVars
  <2> QED
    BY <2>1 DEF ViewsSound, Shape, TasksSound, MemberViewsAgree, Members
<1>6. ASSUME NEW u \in Uids, RoomDissolve(r, u) PROVE ViewsSound'
  <2>1. Sound(Task("dissolve", u, u, "owner"), "commit")
    BY TaskIs
  <2> QED
    BY <1>0, <1>6, <2>1 DEF RoomDissolve
<1>7. ASSUME NEW u \in Uids, NEW right \in BOOLEAN, Apply(r, u, right) PROVE ViewsSound'
  <2>1. \A next \in {"commit", "save"} : Sound(Task("apply", u, u, "normal"), next)
    BY TaskIs
  <2>2. \/ Start(r, Task("apply", u, u, "normal"), "commit")
        \/ Start(r, Task("apply", u, u, "normal"), "save")
    BY <1>7 DEF Apply
  <2> QED
    BY <1>0, <1>7, <2>1, <2>2 DEF Apply
<1>8. ASSUME NEW a \in Uids, NEW u \in Uids, Accept(r, a, u) PROVE ViewsSound'
  <2>1. Sound(Task("accept", a, u, "normal"), "mark")
    BY TaskIs
  <2> QED
    BY <1>0, <1>8, <2>1 DEF Accept
<1>9. ASSUME NEW a \in Uids, NEW u \in Uids, Reject(r, a, u) PROVE ViewsSound'
  <2>1. Sound(Task("reject", a, u, "out"), "mark")
    BY TaskIs
  <2> QED
    BY <1>0, <1>9, <2>1 DEF Reject
<1>10. ASSUME NEW a \in Uids, NEW u \in Uids, RoomMemberKick(r, a, u) PROVE ViewsSound'
  <2>1. Sound(Task("kick", a, u, "out"), "commit")
    BY TaskIs
  <2> QED
    BY <1>0, <1>10, <2>1 DEF RoomMemberKick
<1>11. ASSUME NEW a \in Uids, NEW u \in Uids, Transfer(r, a, u) PROVE ViewsSound'
  <2>1. Sound(Task("transfer", a, u, "owner"), "commit")
    BY TaskIs
  <2> QED
    BY <1>0, <1>11, <2>1 DEF Transfer
<1>12. ASSUME NEW a \in Uids, NEW u \in Uids, NEW new \in {"normal", "admin"},
              RoleUpdate(r, a, u, new)
       PROVE  ViewsSound'
  <2>1. Sound(Task("role", a, u, new), "commit")
    BY TaskIs
  <2> QED
    BY <1>0, <1>12, <2>1 DEF RoleUpdate
<1> QED
  BY <1>1, <1>2, <1>3, <1>4, <1>5, <1>6, <1>7, <1>8, <1>9, <1>10, <1>11, <1>12 DEF Check

(* A commit that changes the members goes on with a refresh.               *)
LEMMA CommitsKeepViews ==
  ASSUME ViewsSound, NEW r \in Reqs,
         \/ CommitCreate(r) \/ CommitJoin(r) \/ CommitExit(r)
         \/ CommitRole(r) \/ CommitTransfer(r) \/ CommitDissolve(r)
  PROVE  ViewsSound'
<1> DEFINE t == task[r]
<1>1. /\ pc[r] = "commit" /\ Count(t) /\ Go(r, AfterCommit(t))
      /\ UNCHANGED <<cache, stale>>
  BY DEF CommitCreate, CommitJoin, CommitExit, CommitRole, CommitTransfer, CommitDissolve, Go
<1>2. Shape /\ t.on \in Uids /\ t.by \in Uids
  BY <1>1 DEF ViewsSound, Shape, Tasks
<1>3. /\ pc' \in [Reqs -> Stages] /\ task' \in [Reqs -> Tasks \cup {NoTask}]
      /\ \A q \in Reqs : pc'[q] # "idle" => task'[q] \in Tasks
      /\ \A q \in Reqs \ {r} : pc'[q] = pc[q] /\ task'[q] = task[q]
      /\ pc'[r] \in {"idle", "read"} /\ overtaken' \in Nat
  BY <1>1, <1>2, CommitMoves
<1>4. TasksSound'
  BY <1>3 DEF ViewsSound, TasksSound
<1>5. AfterCommit(t) = "read" => pc'[r] = "read"
  BY <1>1, <1>2 DEF Go, Shape
<1>6. ASSUME NEW u \in Uids, NEW as \in {"normal", "owner"}, Enter(u, as),
             UNCHANGED <<state, createUid>>, AfterCommit(t) = "read"
      PROVE  ViewsSound'
  <2>1. Shape'
    <3>1. role' \in [Uids -> Roles] /\ session' \subseteq Uids
      BY <1>2, <1>6 DEF Shape, Enter, Roles
    <3>2. count' \in Nat
      BY <1>2, <1>6 DEF Shape, Enter
    <3> QED
      BY <1>2, <1>3, <1>6, <3>1, <3>2 DEF Shape
  <2>2. session' = Members'
    BY <1>2, <1>6 DEF ViewsSound, MemberViewsAgree, Members, Shape, Enter
  <2>3. MemberViewsAgree'
    BY <1>5, <1>6, <2>2 DEF MemberViewsAgree
  <2> QED
    BY <1>4, <2>1, <2>3 DEF ViewsSound
<1>7. CASE CommitCreate(r)
  <2>1. AfterCommit(t) = "read"
    BY <1>7 DEF CommitCreate, AfterCommit
  <2> QED
    BY <1>6, <1>7, <2>1, ConstantsAssumption DEF CommitCreate
<1>8. CASE CommitJoin(r)
  <2>1. AfterCommit(t) = "read"
    BY <1>8 DEF CommitJoin, AfterCommit
  <2> QED
    BY <1>2, <1>6, <1>8, <2>1 DEF CommitJoin
<1>9. CASE CommitExit(r)
  <2>1. AfterCommit(t) = "read" /\ Exit(t.on) /\ UNCHANGED <<state, createUid>>
    BY <1>9 DEF CommitExit, AfterCommit
  <2>2. Shape'
    BY <1>2, <1>3, <2>1 DEF Shape, Exit, Roles
  <2>3. session' = Members'
    BY <1>2, <2>1 DEF ViewsSound, MemberViewsAgree, Members, Shape, Exit
  <2>4. MemberViewsAgree'
    BY <1>5, <2>1, <2>3 DEF MemberViewsAgree
  <2> QED
    BY <1>4, <2>2, <2>4 DEF ViewsSound
<1>10. ASSUME Shape', Members' = Members, UNCHANGED session
       PROVE  ViewsSound'
  BY <1>1, <1>2, <1>3, <1>4, <1>10, ViewsStay DEF ViewsSound
<1>11. CASE CommitRole(r)
  <2>1. /\ role' = [role EXCEPT ![t.on] = IF @ = "out" THEN @ ELSE t.new]
        /\ UNCHANGED <<state, createUid, count, session>>
    BY <1>11 DEF CommitRole
  <2>2. t.new \in {"normal", "admin"}
    BY <1>11 DEF CommitRole, ViewsSound, TasksSound
  <2>3. Shape' /\ Members' = Members
    BY <1>2, <1>3, <2>1, <2>2 DEF Shape, Roles, Members
  <2> QED
    BY <1>10, <2>1, <2>3
<1>12. CASE CommitTransfer(r)
  <2>1. HandOver(t) /\ UNCHANGED <<state, count, session>>
    BY <1>12 DEF CommitTransfer
  <2>2. Shape' /\ Members' = Members
    BY <1>2, <1>3, <2>1 DEF Shape, Roles, Members, HandOver
  <2> QED
    BY <1>10, <2>1, <2>2
<1>13. CASE CommitDissolve(r)
  <2>1. state' = "dissolved" /\ UNCHANGED <<createUid, count, role, session>>
    BY <1>13 DEF CommitDissolve
  <2>2. Shape' /\ Members' = Members
    BY <1>2, <1>3, <2>1 DEF Shape, Members
  <2> QED
    BY <1>10, <2>1, <2>2
<1> QED
  BY <1>7, <1>8, <1>9, <1>11, <1>12, <1>13

LEMMA RollbackKeepsViews ==
  ASSUME ViewsSound, NEW r \in Reqs, Rollback(r)
  PROVE  ViewsSound'
<1>1. /\ pc[r] \in {"commit", "mark"} /\ "idle" \in Stages /\ Shape
      /\ overtaken' = overtaken + IF task[r].op = "create" THEN 1 ELSE 0
      /\ pc' = [pc EXCEPT ![r] = "idle"] /\ task' = [task EXCEPT ![r] = NoTask]
      /\ UNCHANGED <<state, createUid, count, role, session, cache, stale>>
  BY DEF Rollback, dbVars, Stages, ViewsSound
<1>2. /\ pc' \in [Reqs -> Stages] /\ task' \in [Reqs -> Tasks \cup {NoTask}]
      /\ \A q \in Reqs : pc'[q] # "idle" => task'[q] \in Tasks
      /\ \A q \in Reqs \ {r} : pc'[q] = pc[q] /\ task'[q] = task[q]
      /\ pc'[r] = "idle"
  BY <1>1, Moves
<1>3. overtaken' \in Nat
  BY <1>1 DEF Shape
<1>4. Shape' /\ TasksSound' /\ Members' = Members
  BY <1>1, <1>2, <1>3 DEF ViewsSound, Shape, TasksSound, Members
<1>5. MemberViewsAgree'
  BY <1>1, <1>2, <1>4, ViewsStay DEF ViewsSound
<1> QED
  BY <1>4, <1>5 DEF ViewsSound

(* The steps between the commit and the end, the refresh among them: what  *)
(* it stores it has read before, and stale tells whether that still holds. *)
LEMMA WorkKeepsViews ==
  ASSUME ViewsSound, NEW r \in Reqs,
         \/ SaveRequest(r) \/ MarkRequest(r) \/ RefreshRead(r) \/ RefreshSet(r)
         \/ RefreshFails(r) \/ Notify(r)
  PROVE  ViewsSound'
<1> USE DEF Stages
<1>1. PICK next \in Stages :
        /\ pc[r] # "idle" /\ pc' = [pc EXCEPT ![r] = next]
        /\ task' = IF next = "idle" THEN [task EXCEPT ![r] = NoTask] ELSE task
        /\ next = "mark" => FALSE
        /\ next = "commit" => task[r].op = "accept"
  <2>1. AfterSet(task[r]) \in {"idle", "notify"}
    BY DEF AfterSet
  <2>2. CASE SaveRequest(r) \/ Notify(r)
    BY <2>2 DEF SaveRequest, Notify, Go
  <2>3. CASE MarkRequest(r)
    <3>1. CASE task[r].op = "accept"
      BY <2>3, <3>1 DEF MarkRequest, Go
    <3>2. CASE task[r].op # "accept"
      BY <2>3, <3>2 DEF MarkRequest, Go
    <3> QED
      BY <3>1, <3>2
  <2>4. CASE RefreshRead(r)
    BY <2>4 DEF RefreshRead
  <2>5. CASE RefreshSet(r) \/ RefreshFails(r)
    BY <2>1, <2>5 DEF RefreshSet, RefreshFails
  <2> QED
    BY <2>2, <2>3, <2>4, <2>5
<1>2. /\ pc' \in [Reqs -> Stages] /\ task' \in [Reqs -> Tasks \cup {NoTask}]
      /\ \A q \in Reqs : pc'[q] # "idle" => task'[q] \in Tasks
      /\ \A q \in Reqs \ {r} : pc'[q] = pc[q] /\ task'[q] = task[q]
      /\ pc'[r] = next /\ (next # "idle" => task'[r] = task[r])
  BY <1>1, Moves DEF ViewsSound
<1>3. /\ UNCHANGED <<state, createUid, count, role, session>>
      /\ overtaken' \in Nat
  BY DEF SaveRequest, MarkRequest, RefreshRead, RefreshSet, RefreshFails, Notify,
         dbVars, ViewsSound, Shape
<1>4. Shape' /\ Members' = Members
  BY <1>2, <1>3 DEF ViewsSound, Shape, Members
<1>5. TasksSound'
  BY <1>1, <1>2 DEF ViewsSound, TasksSound
<1>6. MemberViewsAgree'
  <2>1. CASE SaveRequest(r) \/ MarkRequest(r) \/ Notify(r)
    BY <1>2, <1>3, <1>4, <2>1, ViewsStay
       DEF SaveRequest, MarkRequest, Notify, Go, ViewsSound
  <2>2. CASE RefreshRead(r)
    <3>1. pc'[r] = "set" /\ UNCHANGED <<cache, stale>>
      BY <2>2 DEF RefreshRead, ViewsSound, Shape
    <3> QED
      BY <1>2, <1>3, <1>4, <3>1, ViewsStay DEF ViewsSound
  <2>3. CASE RefreshSet(r)
    <3>1. ~stale' => cache' = Members
      BY <2>3 DEF RefreshSet
    <3> QED
      BY <1>3, <1>4, <3>1 DEF ViewsSound, MemberViewsAgree
  <2>4. CASE RefreshFails(r)
    BY <1>3, <1>4, <2>4 DEF RefreshFails, ViewsSound, MemberViewsAgree
  <2> QED
    BY <2>1, <2>2, <2>3, <2>4
<1> QED
  BY <1>4, <1>5, <1>6 DEF ViewsSound

LEMMA ViewsInvariance == Spec => []ViewsSound
<1>1. Init => ViewsSound
  BY InitIsRule DEF Init, IInv, ViewsSound, MemberViewsAgree, Members
<1>2. ViewsSound /\ [Next]_vars => ViewsSound'
  <2> SUFFICES ASSUME ViewsSound, [Next]_vars PROVE ViewsSound'
    OBVIOUS
  <2>1. CASE UNCHANGED vars
    BY <2>1 DEF vars, dbVars, slotVars, ViewsSound, Shape, TasksSound, MemberViewsAgree, Members
  <2>2. CASE CacheLost
    BY <2>2 DEF CacheLost, dbVars, slotVars, ViewsSound, Shape, TasksSound,
                MemberViewsAgree, Members
  <2>3. ASSUME NEW r \in Reqs, Check(r) \/ Work(r) \/ Rollback(r) \/ RefreshFails(r)
        PROVE  ViewsSound'
    BY <2>3, ChecksKeepViews, CommitsKeepViews, RollbackKeepsViews, WorkKeepsViews DEF Work
  <2> QED
    BY <2>1, <2>2, <2>3 DEF Next
<1> QED
  BY <1>1, <1>2, PTL DEF Spec

(* The sessions and the cached list agree with the rows of room_user,      *)
(* whatever overlaps (UpsertActiveRoomUserTx with                          *)
(* UpsertActiveUserRoomSessionTx, SetRoomUserIdsCache).                    *)
THEOREM MemberViewsAgreeHolds == Spec => []MemberViewsAgree
<1>1. ViewsSound => MemberViewsAgree
  BY DEF ViewsSound
<1> QED
  BY ViewsInvariance, <1>1, PTL

-----------------------------------------------------------------------------
(* The types of everything else.                                           *)

(* What the views do not speak of: the settings, the join requests, the    *)
(* lists a refresh has read, and the counters.                             *)
Rest ==
  /\ approval \in BOOLEAN /\ req \in [Uids -> {"none", "pending", "accepted", "rejected"}]
  /\ cache = NoCache \/ cache \subseteq Uids
  /\ seen \in [Reqs -> SUBSET Uids] /\ stale \in BOOLEAN
  /\ failures \in 0 .. MaxFailures /\ requests \in 0 .. MaxRequests

(* A slot without a handler has no task.                                   *)
IdleHasNoTask == \A r \in Reqs : (task[r] = NoTask) <=> (pc[r] = "idle")

LEMMA TaskFollowsPc ==
  ASSUME Shape, IdleHasNoTask, NEW r \in Reqs, pc[r] # "idle", NEW next \in Stages,
         pc' = [pc EXCEPT ![r] = next],
         task' = IF next = "idle" THEN [task EXCEPT ![r] = NoTask] ELSE task
  PROVE  IdleHasNoTask'
<1>1. /\ \A q \in Reqs \ {r} : pc'[q] = pc[q] /\ task'[q] = task[q]
      /\ pc'[r] = next /\ (next # "idle" => task'[r] = task[r])
  BY Moves
<1>2. task[r] # NoTask /\ (next = "idle" => task'[r] = NoTask)
  BY DEF Shape, IdleHasNoTask
<1> QED
  BY <1>1, <1>2 DEF IdleHasNoTask

LEMMA StartsTyped ==
  ASSUME Shape, Rest, IdleHasNoTask, NEW r \in Reqs, Check(r)
  PROVE  Rest' /\ IdleHasNoTask'
<1>1. ASSUME NEW t \in Tasks, NEW next \in Stages \ {"idle"}, Start(r, t, next),
             UNCHANGED <<approval, req>>
      PROVE  Rest' /\ IdleHasNoTask'
  <2>1. Rest'
    BY <1>1, ConstantsAssumption DEF Rest, Start
  <2>2. /\ pc'[r] = next /\ task'[r] = t
        /\ \A q \in Reqs \ {r} : pc'[q] = pc[q] /\ task'[q] = task[q]
    BY <1>1 DEF Shape, Start
  <2>3. IdleHasNoTask'
    BY <2>2, NoTaskIsNoTask DEF IdleHasNoTask
  <2> QED
    BY <2>1, <2>3
<1>2. ASSUME NEW u \in Uids, JoinConfigUpdate(r, u) PROVE Rest' /\ IdleHasNoTask'
  BY <1>2, ConstantsAssumption DEF JoinConfigUpdate, slotVars, Rest, IdleHasNoTask
<1>3. \/ \E u \in Uids : JoinConfigUpdate(r, u)
      \/ /\ UNCHANGED <<approval, req>>
         /\ \E t \in Tasks, next \in Stages \ {"idle"} : Start(r, t, next)
  <2> USE TaskIs, ConstantsAssumption DEF Roles, Stages, dbVars
  <2>1. CASE CreateRow(r)
    BY <2>1 DEF CreateRow
  <2>2. CASE Fill(r)
    BY <2>2 DEF Fill
  <2>3. ASSUME NEW u \in Uids, Join(r, u) \/ JoinByInvite(r, u) \/ RoomLeave(r, u)
                               \/ RoomDissolve(r, u)
        PROVE  /\ UNCHANGED <<approval, req>>
               /\ \E t \in Tasks, next \in Stages \ {"idle"} : Start(r, t, next)
    BY <2>3 DEF Join, JoinByInvite, RoomLeave, RoomDissolve
  <2>4. ASSUME NEW u \in Uids, NEW right \in BOOLEAN, Apply(r, u, right)
        PROVE  /\ UNCHANGED <<approval, req>>
               /\ \E t \in Tasks, next \in Stages \ {"idle"} : Start(r, t, next)
    BY <2>4 DEF Apply
  <2>5. ASSUME NEW op \in {"accept", "reject", "kick", "transfer", "role"},
               NEW a \in Uids, NEW u \in Uids, NEW new \in Roles, NEW next \in Stages \ {"idle"},
               Start(r, Task(op, a, u, new), next), UNCHANGED <<dbVars, overtaken>>
        PROVE  /\ UNCHANGED <<approval, req>>
               /\ \E t \in Tasks, n \in Stages \ {"idle"} : Start(r, t, n)
    BY <2>5
  <2> HIDE TaskIs, ConstantsAssumption DEF Roles, Stages, dbVars
  <2> DEFINE Begins == /\ UNCHANGED <<approval, req>>
                       /\ \E t \in Tasks, next \in Stages \ {"idle"} : Start(r, t, next)
  <2>6. ASSUME NEW a \in Uids, NEW u \in Uids,
               \/ Accept(r, a, u) \/ Reject(r, a, u)
               \/ RoomMemberKick(r, a, u) \/ Transfer(r, a, u)
        PROVE  Begins
    <3>1. "out" \in Roles /\ "normal" \in Roles /\ "owner" \in Roles
          /\ "mark" \in Stages \ {"idle"} /\ "commit" \in Stages \ {"idle"}
      BY DEF Roles, Stages
    <3> HIDE DEF Begins
    <3>2. CASE Accept(r, a, u)
      BY <2>5, <3>1, <3>2 DEF Accept, Begins
    <3>3. CASE Reject(r, a, u)
      BY <2>5, <3>1, <3>3 DEF Reject, Begins
    <3>4. CASE RoomMemberKick(r, a, u)
      BY <2>5, <3>1, <3>4 DEF RoomMemberKick, Begins
    <3>5. CASE Transfer(r, a, u)
      BY <2>5, <3>1, <3>5 DEF Transfer, Begins
    <3> QED
      BY <2>6, <3>2, <3>3, <3>4, <3>5
  <2>7. ASSUME NEW a \in Uids, NEW u \in Uids, NEW new \in {"normal", "admin"},
               RoleUpdate(r, a, u, new)
        PROVE  Begins
    <3>1. new \in Roles /\ "commit" \in Stages \ {"idle"}
      BY DEF Roles, Stages
    <3> QED
      BY <2>5, <2>7, <3>1 DEF RoleUpdate
  <2> QED
    BY <2>1, <2>2, <2>3, <2>4, <2>6, <2>7 DEF Check
<1> QED
  BY <1>1, <1>2, <1>3

LEMMA WorkTyped ==
  ASSUME Shape, TasksSound, Rest, IdleHasNoTask, NEW r \in Reqs,
         Work(r) \/ Rollback(r) \/ RefreshFails(r)
  PROVE  Rest' /\ IdleHasNoTask'
<1>1. ASSUME NEW next \in Stages, pc[r] # "idle", pc' = [pc EXCEPT ![r] = next],
             task' = IF next = "idle" THEN [task EXCEPT ![r] = NoTask] ELSE task
      PROVE  IdleHasNoTask'
  BY <1>1, TaskFollowsPc
<1> USE DEF Rest, Go, dbVars, boundVars
<1>2. CASE \/ CommitCreate(r) \/ CommitJoin(r) \/ CommitExit(r) \/ CommitRole(r)
           \/ CommitTransfer(r) \/ CommitDissolve(r)
  <2>1. AfterCommit(task[r]) \in Stages
    BY DEF AfterCommit, Stages
  <2>2. /\ pc[r] = "commit" /\ Go(r, AfterCommit(task[r]))
        /\ UNCHANGED <<approval, req, stale>>
    BY <1>2 DEF CommitCreate, CommitJoin, CommitExit, CommitRole, CommitTransfer, CommitDissolve
  <2> QED
    BY <1>1, <2>1, <2>2
<1>3. "idle" \in Stages /\ "set" \in Stages /\ "commit" \in Stages /\ "notify" \in Stages
  BY DEF Stages
<1>4. CASE SaveRequest(r)
  BY <1>1, <1>3, <1>4 DEF SaveRequest
<1>5. CASE MarkRequest(r)
  <2> DEFINE next == IF task[r].op = "accept" THEN "commit" ELSE "idle"
  <2>1. pc[r] = "mark" /\ Go(r, next) /\ next \in Stages /\ UNCHANGED <<approval, stale>>
    BY <1>3, <1>5 DEF MarkRequest
  <2>2. req' \in [Uids -> {"none", "pending", "accepted", "rejected"}]
    BY <1>5 DEF MarkRequest
  <2> HIDE DEF next
  <2> QED
    BY <1>1, <2>1, <2>2
<1>6. CASE RefreshRead(r)
  <2>1. seen' \in [Reqs -> SUBSET Uids]
    BY <1>6 DEF RefreshRead, Members
  <2> QED
    BY <1>1, <1>3, <1>6, <2>1 DEF RefreshRead
<1>7. AfterSet(task[r]) \in Stages
  BY <1>3 DEF AfterSet
<1>8. CASE RefreshSet(r)
  <2>1. stale' \in BOOLEAN /\ cache' \subseteq Uids /\ seen' \in [Reqs -> SUBSET Uids]
    BY <1>8 DEF RefreshSet
  <2> QED
    BY <1>1, <1>7, <1>8, <2>1 DEF RefreshSet
<1>9. CASE RefreshFails(r)
  <2>1. failures' \in 0 .. MaxFailures /\ seen' \in [Reqs -> SUBSET Uids]
    BY <1>9, ConstantsAssumption DEF RefreshFails
  <2> QED
    BY <1>1, <1>7, <1>9, <2>1 DEF RefreshFails
<1>10. CASE Notify(r)
  BY <1>1, <1>3, <1>10 DEF Notify
<1>11. CASE Rollback(r)
  <2>1. failures' \in 0 .. MaxFailures
    BY <1>11, ConstantsAssumption DEF Rollback
  <2> QED
    BY <1>1, <1>3, <1>11, <2>1 DEF Rollback
<1> QED
  BY <1>2, <1>4, <1>5, <1>6, <1>8, <1>9, <1>10, <1>11 DEF Work

(* The room, its requests, the handlers' slots and the cache keep their    *)
(* types, and a slot has a task exactly while a handler runs in it, with   *)
(* owners who name themselves in a role update as well.                    *)
THEOREM TypeCorrect == Spec => []TypeOK
<1>1. Init => Rest /\ IdleHasNoTask
  <2>1. Init => IdleHasNoTask
    BY DEF Init, IdleHasNoTask
  <2>2. Init => req \in [Uids -> {"none", "pending", "accepted", "rejected"}]
    BY DEF Init
  <2>3. Init => seen \in [Reqs -> SUBSET Uids]
    BY DEF Init
  <2>4. Init => approval \in BOOLEAN /\ cache = NoCache /\ stale \in BOOLEAN
    BY DEF Init
  <2>5. Init => failures = 0 /\ requests = 0
    BY DEF Init
  <2>6. 0 \in 0 .. MaxFailures /\ 0 \in 0 .. MaxRequests
    BY ConstantsAssumption
  <2> QED
    BY <2>1, <2>2, <2>3, <2>4, <2>5, <2>6 DEF Rest
<1>2. ViewsSound /\ Rest /\ IdleHasNoTask /\ [Next]_vars => Rest' /\ IdleHasNoTask'
  <2> SUFFICES ASSUME Shape, TasksSound, Rest, IdleHasNoTask, [Next]_vars
               PROVE  Rest' /\ IdleHasNoTask'
    BY DEF ViewsSound
  <2>1. CASE UNCHANGED vars
    BY <2>1 DEF vars, dbVars, slotVars, boundVars, Rest, IdleHasNoTask
  <2>2. CASE CacheLost
    BY <2>2, ConstantsAssumption DEF CacheLost, dbVars, slotVars, Rest, IdleHasNoTask
  <2>3. ASSUME NEW r \in Reqs, Check(r) \/ Work(r) \/ Rollback(r) \/ RefreshFails(r)
        PROVE  Rest' /\ IdleHasNoTask'
    BY <2>3, StartsTyped, WorkTyped
  <2> QED
    BY <2>1, <2>2, <2>3 DEF Next
<1>3. ViewsSound /\ Rest /\ IdleHasNoTask => TypeOK
  BY DEF ViewsSound, Shape, Rest, IdleHasNoTask, TypeOK
<1> QED
  BY ViewsInvariance, <1>1, <1>2, <1>3, PTL DEF Spec
=============================================================================
