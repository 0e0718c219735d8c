------------------------------ MODULE RoomRules ------------------------------
(***************************************************************************)
(* What the room service promises: every request on the members of a group *)
(* room takes effect in one step, on the state it was checked against.     *)
(* RoomMembers, where a request checks first and writes later, is shown to *)
(* implement this module as long as no request was overtaken by another.   *)
(***************************************************************************)
EXTENDS Naturals, FiniteSets

CONSTANTS
  Uids,   \* users
  NoUid   \* no creator yet

VARIABLES
  state,    \* "none", "new" (row without members), "active" or "dissolved"
  owner,    \* room.create_uid
  role,     \* role of every user, "out" for those who are not members
  count,    \* room.member_count
  broken    \* a request took effect on a state it was not checked against

rvars == <<state, owner, role, count, broken>>

In == {u \in Uids : role[u] # "out"}

TypeOK ==
  /\ state \in {"none", "new", "active", "dissolved"}
  /\ owner \in Uids \cup {NoUid}
  /\ role \in [Uids -> {"out", "normal", "admin", "owner"}]
  /\ count \in Nat
  /\ broken \in BOOLEAN

Init ==
  /\ state = "none" /\ owner = NoUid
  /\ role = [u \in Uids |-> "out"]
  /\ count = 0 /\ broken = FALSE

Announce(u) ==      \* the room's row exists, its creator is not a member yet
  /\ state = "none" /\ state' = "new" /\ owner' = u
  /\ UNCHANGED <<role, count>>

Found ==
  /\ state = "new" /\ role[owner] = "out"
  /\ state' = "active"
  /\ role' = [role EXCEPT ![owner] = "owner"] /\ count' = count + 1
  /\ UNCHANGED owner

Admit(u) ==
  /\ state \in {"new", "active"} /\ role[u] = "out"
  /\ state = "new" => u # owner
  /\ role' = [role EXCEPT ![u] = "normal"] /\ count' = count + 1
  /\ UNCHANGED <<state, owner>>

Remove(u) ==        \* a kick or a leave; never the owner
  /\ state \in {"new", "active"} /\ role[u] \in {"normal", "admin"}
  /\ role' = [role EXCEPT ![u] = "out"] /\ count' = count - 1
  /\ UNCHANGED <<state, owner>>

Appoint(u, r) ==
  /\ state \in {"new", "active"} /\ role[u] \in {"normal", "admin"}
  /\ r \in {"normal", "admin"}
  /\ role' = [role EXCEPT ![u] = r]
  /\ UNCHANGED <<state, owner, count>>

HandOver(u) ==
  /\ state = "active" /\ role[u] \in {"normal", "admin"}
  /\ role' = [role EXCEPT ![owner] = "normal", ![u] = "owner"]
  /\ owner' = u
  /\ UNCHANGED <<state, count>>

Dissolve ==
  /\ state = "active" /\ state' = "dissolved"
  /\ UNCHANGED <<owner, role, count>>

Rule ==
  \/ Found \/ Dissolve
  \/ \E u \in Uids : Announce(u) \/ Admit(u) \/ Remove(u) \/ HandOver(u)
  \/ \E u \in Uids : \E r \in {"normal", "admin"} : Appoint(u, r)

\* From the first overtaken request on nothing is promised.
Break == broken' = TRUE /\ TypeOK'

Next == (~broken /\ broken' = FALSE /\ Rule) \/ Break

Spec == Init /\ [][Next]_rvars

(***************************************************************************)
(* What follows from the rules.                                            *)
(***************************************************************************)

\* An unbroken room with members has exactly one owner, its create_uid, and
\* member_count counts them (TransferRoomOwner, RoomLeave, RoomMemberKick).
OneOwner ==
  ~broken =>
    /\ state \in {"active", "dissolved"} => owner \in Uids /\ role[owner] = "owner"
    /\ state = "new" => owner \in Uids /\ role[owner] = "out"
    /\ \A u \in Uids : role[u] = "owner" => u = owner
    /\ state = "none" => In = {}

CountsMembers == ~broken => count = Cardinality(In)
=============================================================================
