---------------------------- MODULE UploadsProofs ----------------------------
(***************************************************************************)
(* Proofs about Uploads, for any number of chunks, requests and failures:  *)
(* IInv is an inductive invariant of Spec, and IntactUnlessOverlapped      *)
(* follows from it.                                                        *)
(*                                                                         *)
(* As long as no two requests have merged at the same time, the one that   *)
(* merges owns the temporary file: what it has read, part by part, is what *)
(* it has written there, and after the rename what the final file holds    *)
(* (MergeSound). No row goes back from "done", because a request that has  *)
(* inserted the row keeps all others from getting any further (RowSound).  *)
(***************************************************************************)
EXTENDS Uploads, FiniteSetTheorems, TLAPS

Busy(r) == pc[r] # "idle"

(* A request has a chunk; it is past the insertion of the row only if      *)
(* there is one, or if it has inserted it itself, in which case the others *)
(* wait for it.                                                            *)
RowSound(r) ==
  /\ Busy(r) => req[r].chunk \in Chunks
  /\ ~Busy(r) => ~req[r].creating
  /\ pc[r] \notin {"idle", "create"} => row # "none" \/ req[r].creating
  /\ req[r].creating =>
       row = "none" /\ \A q \in Slots \ {r} : ~req[q].creating

(* One file at a time has a name.                                          *)
NamesSound == temp = None \/ temp # final

(* The one request that merges, while none has overlapped another.         *)
MergeAlone(r) ==
  ~overlapped /\ pc[r] \in Merging =>
    \A q \in Slots : pc[q] \in Merging => q = r

MergeSound(r) ==
  /\ pc[r] \in {"idle", "create", "member", "lock", "write", "mark", "count",
                "merge"} => req[r].read = <<>> /\ req[r].fd = None
  /\ pc[r] = "copy" => req[r].fd # None
  /\ ~overlapped =>
       /\ pc[r] = "copy" =>
            /\ req[r].fd = temp
            /\ Len(req[r].read) <= N
            /\ \A c \in 1..Len(req[r].read) : content[temp][c] = req[r].read[c]
       /\ pc[r] = "rename" =>
            temp # None /\ \A c \in Chunks : content[temp][c] = "good"
       /\ pc[r] \in {"sweep", "save"} => Intact

(* The inductive invariant.                                                *)
IInv ==
  /\ TypeOK /\ NamesSound /\ IntactUnlessOverlapped
  /\ \A r \in Slots : RowSound(r) /\ MergeAlone(r) /\ MergeSound(r)

-----------------------------------------------------------------------------
LEMMA IdleIsRequest == Idle \in Request
BY DEF Idle, Request, Data

LEMMA OneMore ==
  ASSUME NEW S, IsFiniteSet(S), NEW x
  PROVE  /\ IsFiniteSet(S \cup {x}) /\ Cardinality(S \cup {x}) \in Nat
         /\ Cardinality(S \cup {x}) <= Cardinality(S) + 1
<1>1. IsFiniteSet(S \cup {x}) /\ Cardinality(S) \in Nat
  BY FS_AddElement, FS_CardinalityType
<1>2. Cardinality(S \cup {x}) = IF x \in S THEN Cardinality(S) ELSE Cardinality(S) + 1
  BY FS_AddElement
<1> QED
  BY <1>1, <1>2

(* No file under a name, and none that another request writes, is taken    *)
(* for a new one: there are more files than requests and names.            *)
LEMMA FreeInodeExists ==
  ASSUME TypeOK, NEW r \in Slots, req[r].fd = None
  PROVE  FreeInode \in Inodes /\ ~InUse(FreeInode)
<1> DEFINE S == Slots \ {r}
           F == [q \in S |-> req[q].fd]
           D == {req[q].fd : q \in S}
           U == D \cup {temp, final}
<1>1. IsFiniteSet(S) /\ Cardinality(Slots) \in Nat /\ Cardinality(S) = Cardinality(Slots) - 1
  BY ConstantsAssumption, FS_RemoveElement, FS_CardinalityType
<1>2. IsFiniteSet(D) /\ Cardinality(D) <= Cardinality(S)
  <2>1. F \in Surjection(S, D)
    BY DEF Surjection
  <2> QED
    BY <1>1, <2>1, FS_Surjection
<1>3. IsFiniteSet(U) /\ Cardinality(U) <= Cardinality(D) + 2
  <2>1. U = (D \cup {temp}) \cup {final}
    OBVIOUS
  <2> HIDE DEF D, U
  <2>2. /\ IsFiniteSet(D \cup {temp}) /\ Cardinality(D) \in Nat
        /\ Cardinality(D \cup {temp}) <= Cardinality(D) + 1
        /\ Cardinality(D \cup {temp}) \in Nat
    BY <1>2, OneMore, FS_CardinalityType
  <2>3. /\ IsFiniteSet((D \cup {temp}) \cup {final})
        /\ Cardinality((D \cup {temp}) \cup {final}) <= Cardinality(D \cup {temp}) + 1
        /\ Cardinality((D \cup {temp}) \cup {final}) \in Nat
    BY <2>2, OneMore
  <2> QED
    BY <2>1, <2>2, <2>3
<1>4. Cardinality(Inodes) = Cardinality(Slots) + 2 /\ IsFiniteSet(Inodes)
  BY <1>1, FS_Interval DEF Inodes
<1>5. \E i \in Inodes : i \notin U
  <2>1. CASE Inodes \subseteq U
    <3> HIDE DEF S, D, U
    <3>1. Cardinality(Inodes) <= Cardinality(U)
      BY <1>3, <2>1, FS_Subset
    <3>2. Cardinality(D) \in Nat /\ Cardinality(S) \in Nat /\ Cardinality(U) \in Nat
      BY <1>1, <1>2, <1>3, FS_CardinalityType
    <3> QED
      BY <1>1, <1>2, <1>3, <1>4, <3>1, <3>2
  <2> QED
    BY <2>1
<1>6. \A i \in Inodes : InUse(i) => i \in U
  <2>1. None \notin Inodes
    BY <1>1, ConstantsAssumption DEF Inodes
  <2> QED
    BY <2>1 DEF InUse
<1>7. \E i \in Inodes : ~InUse(i)
  BY <1>5, <1>6
<1> HIDE DEF S, F, D, U
<1> QED
  BY <1>7 DEF FreeInode

(* A request moves on and leaves the files and the row as they are.        *)
LEMMA RequestMoves ==
  ASSUME IInv, TypeOK', NEW r \in Slots,
         \A q \in Slots \ {r} : pc'[q] = pc[q] /\ req'[q] = req[q],
         UNCHANGED <<row, given, temp, final, content, overlapped>>,
         pc'[r] \in Merging => pc[r] \in Merging,
         RowSound(r)', MergeSound(r)'
  PROVE  IInv'
<1>1. NamesSound' /\ IntactUnlessOverlapped'
  BY DEF IInv, NamesSound, IntactUnlessOverlapped, Intact
<1>2. ASSUME NEW q \in Slots \ {r}
      PROVE  RowSound(q)' /\ MergeSound(q)'
  BY <1>2 DEF IInv, RowSound, MergeSound, Busy, Intact
<1>3. ASSUME NEW q \in Slots PROVE MergeAlone(q)'
  BY <1>3 DEF IInv, MergeAlone
<1> QED
  BY <1>1, <1>2, <1>3 DEF IInv

(* A request that answers and leaves the files and the row as they are.    *)
LEMMA AnswerKeeps ==
  ASSUME IInv, NEW r \in Slots, Answer(r),
         marked' \in [Keys -> SUBSET Chunks], parts' \in [Chunks -> Data],
         failures' \in 0..MaxFailures,
         UNCHANGED <<row, given, temp, final, content, overlapped>>
  PROVE  IInv'
<1>1. /\ pc' = [pc EXCEPT ![r] = "idle"] /\ req' = [req EXCEPT ![r] = Idle]
      /\ locks' \subseteq locks
  BY DEF Answer, Goto
<1>2. TypeOK'
  BY <1>1, IdleIsRequest DEF IInv, TypeOK, Steps
<1>3. /\ pc'[r] = "idle" /\ req'[r] = Idle
      /\ \A q \in Slots \ {r} : pc'[q] = pc[q] /\ req'[q] = req[q]
  BY <1>1 DEF IInv, TypeOK
<1>4. RowSound(r)' /\ MergeSound(r)' /\ pc'[r] \notin Merging
  BY <1>3 DEF RowSound, MergeSound, Busy, Idle, Merging
<1> QED
  BY <1>2, <1>3, <1>4, RequestMoves

LEMMA CleanupCacheType ==
  ASSUME TypeOK, NEW r \in Slots, CleanupCache(r)
  PROVE  marked' \in [Keys -> SUBSET Chunks]
BY DEF TypeOK, CleanupCache, Keys

LEMMA FailureIfType ==
  ASSUME TypeOK, NEW bad \in BOOLEAN, FailureIf(bad)
  PROVE  failures' \in 0..MaxFailures
BY ConstantsAssumption DEF TypeOK, FailureIf

-----------------------------------------------------------------------------
(* Admission.                                                              *)

LEMMA OpenKeeps ==
  ASSUME IInv, NEW r \in Slots, NEW c \in Chunks, NEW d \in {"good", "bad"}, Open(r, c, d)
  PROVE  IInv'
<1> DEFINE t == [Idle EXCEPT !.chunk = c, !.data = d]
<1>1. t \in Request /\ t.chunk = c /\ ~t.creating /\ t.read = <<>> /\ t.fd = None
  <2>1. t \in Request
    BY IdleIsRequest DEF Request, Data
  <2> QED
    BY <2>1 DEF Idle
<1> HIDE DEF t
<1>2. /\ req' = [req EXCEPT ![r] = t]
      /\ pc' = [pc EXCEPT ![r] = IF row = "none" THEN "create" ELSE "member"]
      /\ UNCHANGED <<dataVars, overlapped>>
  BY DEF Open, Goto, t
<1>3. failures' \in 0..MaxFailures
  BY FailureIfType DEF Open, IInv
<1>4. TypeOK'
  BY <1>1, <1>2, <1>3 DEF IInv, TypeOK, dataVars, redisVars, diskVars, Steps
<1>5. /\ pc'[r] = (IF row = "none" THEN "create" ELSE "member") /\ req'[r] = t
      /\ \A q \in Slots \ {r} : pc'[q] = pc[q] /\ req'[q] = req[q]
  BY <1>2 DEF IInv, TypeOK
<1>6. RowSound(r)' /\ MergeSound(r)' /\ pc'[r] \notin Merging
  BY <1>1, <1>2, <1>5 DEF RowSound, MergeSound, Busy, dataVars, Merging
<1> QED
  BY <1>2, <1>4, <1>5, <1>6, RequestMoves DEF dataVars, diskVars

LEMMA CreateRowKeeps ==
  ASSUME IInv, NEW r \in Slots, CreateRow(r)
  PROVE  IInv'
<1>1. CASE row # "none" /\ RollbackWithCleanup(r)
  BY <1>1, AnswerKeeps, CleanupCacheType DEF CreateRow, RollbackWithCleanup, CleanupRecords,
     diskVars, IInv, TypeOK
<1>2. CASE row = "none" /\ req' = [req EXCEPT ![r].creating = TRUE] /\ Goto(r, "member")
           /\ UNCHANGED <<row, given, redisVars>>
  <2>1. /\ pc' = [pc EXCEPT ![r] = "member"] /\ pc[r] = "create"
        /\ UNCHANGED <<row, given, redisVars, diskVars, overlapped, failures>>
    BY <1>2 DEF CreateRow, Goto
  <2>2. TypeOK'
    BY <1>2, <2>1 DEF IInv, TypeOK, redisVars, diskVars, Steps, Request
  <2>3. /\ pc'[r] = "member" /\ req'[r] = [req[r] EXCEPT !.creating = TRUE]
        /\ req[r] \in Request
        /\ \A q \in Slots \ {r} : pc'[q] = pc[q] /\ req'[q] = req[q]
    BY <1>2, <2>1 DEF IInv, TypeOK
  <2>4. /\ req'[r].chunk = req[r].chunk /\ req'[r].creating
        /\ req'[r].read = req[r].read /\ req'[r].fd = req[r].fd
    BY <2>3 DEF Request
  <2>5. RowSound(r)' /\ MergeSound(r)' /\ pc'[r] \notin Merging
    BY <1>2, <2>1, <2>3, <2>4 DEF CreateRow, RowPending, IInv, RowSound, MergeSound, Busy, Merging
  <2> QED
    BY <2>1, <2>2, <2>3, <2>5, RequestMoves DEF diskVars
<1> QED
  BY <1>1, <1>2 DEF CreateRow

(* A request goes on to another step of its first half.                    *)
LEMMA StepKeeps ==
  ASSUME IInv, TypeOK', NEW r \in Slots, pc[r] \in {"member", "lock", "write", "mark", "count"},
         NEW next \in {"lock", "write", "mark", "count", "merge"},
         pc' = [pc EXCEPT ![r] = next],
         \A q \in Slots \ {r} : req'[q] = req[q],
         req'[r].chunk = req[r].chunk, req'[r].creating = req[r].creating,
         req'[r].read = req[r].read, req'[r].fd = req[r].fd,
         UNCHANGED <<row, given, temp, final, content, overlapped>>
  PROVE  IInv'
<1>1. pc'[r] = next /\ \A q \in Slots \ {r} : pc'[q] = pc[q]
  BY DEF IInv, TypeOK
<1>2. RowSound(r)' /\ MergeSound(r)' /\ pc'[r] \notin Merging
  BY <1>1 DEF IInv, RowSound, MergeSound, Busy, Merging
<1> QED
  BY <1>1, <1>2, RequestMoves

LEMMA SkipMemberKeeps ==
  ASSUME IInv, NEW r \in Slots, SkipMember(r)
  PROVE  IInv'
<1>1. CASE Answer(r)
  BY <1>1, AnswerKeeps DEF SkipMember, diskVars, IInv, TypeOK
<1>2. CASE Goto(r, "lock") /\ UNCHANGED <<req, locks>>
  <2>1. TypeOK'
    BY <1>2 DEF SkipMember, Goto, diskVars, IInv, TypeOK, Steps
  <2> QED
    BY <1>2, <2>1, StepKeeps DEF SkipMember, Goto, diskVars
<1> QED
  BY <1>1, <1>2 DEF SkipMember

LEMMA TryLockChunkKeeps ==
  ASSUME IInv, NEW r \in Slots, TryLockChunk(r)
  PROVE  IInv'
<1>1. CASE Answer(r)
  BY <1>1, AnswerKeeps DEF TryLockChunk, diskVars, IInv, TypeOK
<1>2. CASE /\ locks' = locks \cup {req[r].chunk}
           /\ req' = [req EXCEPT ![r].locked = TRUE] /\ Goto(r, "write")
  <2>1. req[r].chunk \in Chunks /\ pc[r] = "lock"
    BY DEF TryLockChunk, IInv, RowSound, Busy
  <2>2. TypeOK'
    <3>1. req' \in [Slots -> Request]
      BY <1>2 DEF IInv, TypeOK, Request
    <3>2. locks' \in SUBSET Chunks /\ pc' \in [Slots -> Steps]
      BY <1>2, <2>1 DEF Goto, IInv, TypeOK, Steps
    <3> QED
      BY <3>1, <3>2 DEF TryLockChunk, diskVars, IInv, TypeOK
  <2>3. /\ req[r] \in Request /\ req'[r] = [req[r] EXCEPT !.locked = TRUE]
        /\ \A q \in Slots \ {r} : req'[q] = req[q]
    BY <1>2 DEF IInv, TypeOK
  <2>4. /\ req'[r].chunk = req[r].chunk /\ req'[r].creating = req[r].creating
        /\ req'[r].read = req[r].read /\ req'[r].fd = req[r].fd
    BY <2>3 DEF Request
  <2> QED
    BY <1>2, <2>1, <2>2, <2>3, <2>4, StepKeeps DEF TryLockChunk, Goto, diskVars
<1> QED
  BY <1>1, <1>2 DEF TryLockChunk

LEMMA WriteChunkKeeps ==
  ASSUME IInv, NEW r \in Slots, WriteChunk(r)
  PROVE  IInv'
<1>1. req[r].data \in Data
  BY DEF IInv, TypeOK, Request
<1>2. TypeOK'
  BY <1>1 DEF WriteChunk, Goto, redisVars, IInv, TypeOK, Steps
<1> QED
  BY <1>2, StepKeeps DEF WriteChunk, Goto

LEMMA CacheUploadedKeeps ==
  ASSUME IInv, NEW r \in Slots, CacheUploaded(r)
  PROVE  IInv'
<1>1. req[r].chunk \in Chunks
  BY DEF CacheUploaded, IInv, RowSound, Busy
<1>2. TypeOK'
  BY <1>1 DEF CacheUploaded, Goto, diskVars, IInv, TypeOK, Steps, Keys
<1> QED
  BY <1>2, StepKeeps DEF CacheUploaded, Goto, diskVars

LEMMA CountUploadedKeeps ==
  ASSUME IInv, NEW r \in Slots, CountUploaded(r)
  PROVE  IInv'
<1>1. CASE Goto(r, "merge") /\ UNCHANGED <<row, req, locks>>
  <2>1. TypeOK'
    BY <1>1 DEF CountUploaded, Goto, diskVars, IInv, TypeOK, Steps
  <2> QED
    BY <1>1, <2>1, StepKeeps DEF CountUploaded, Goto, diskVars
<1>2. CASE Answer(r) /\ row' = (IF req[r].creating THEN "uploading" ELSE row)
  <2>1. CASE ~req[r].creating
    BY <1>2, <2>1, AnswerKeeps DEF CountUploaded, diskVars, IInv, TypeOK
  <2>2. CASE req[r].creating
    <3>1. /\ pc' = [pc EXCEPT ![r] = "idle"] /\ req' = [req EXCEPT ![r] = Idle]
          /\ locks' \subseteq locks /\ row' = "uploading" /\ row = "none"
          /\ UNCHANGED <<given, marked, diskVars, overlapped, failures>>
      BY <1>2, <2>2 DEF Answer, Goto, CountUploaded, IInv, RowSound
    <3>2. TypeOK'
      BY <3>1, IdleIsRequest DEF IInv, TypeOK, Steps, diskVars
    <3>3. /\ pc'[r] = "idle" /\ req'[r] = Idle
          /\ \A q \in Slots \ {r} : pc'[q] = pc[q] /\ req'[q] = req[q] /\ ~req[q].creating
      BY <3>1, <2>2 DEF IInv, TypeOK, RowSound
    <3>4. NamesSound' /\ IntactUnlessOverlapped'
      BY <3>1 DEF IInv, NamesSound, IntactUnlessOverlapped, diskVars
    <3>5. RowSound(r)' /\ MergeSound(r)' /\ MergeAlone(r)'
      BY <3>3 DEF RowSound, MergeSound, MergeAlone, Busy, Idle, Merging
    <3>6. ASSUME NEW q \in Slots \ {r}
          PROVE  RowSound(q)' /\ MergeSound(q)' /\ MergeAlone(q)'
      <4>1. RowSound(q)'
        BY <3>1, <3>3 DEF IInv, RowSound, Busy
      <4>2. MergeSound(q)'
        BY <3>1, <3>3 DEF IInv, MergeSound, Intact, diskVars
      <4>3. MergeAlone(q)'
        BY <3>1, <3>3 DEF IInv, MergeAlone, Merging, diskVars
      <4> QED
        BY <4>1, <4>2, <4>3
    <3> QED
      BY <3>2, <3>4, <3>5, <3>6 DEF IInv
  <2> QED
    BY <2>1, <2>2
<1> QED
  BY <1>1, <1>2 DEF CountUploaded

-----------------------------------------------------------------------------
(* Merging.                                                                *)

(* The row does not care about a request that goes on.                     *)
LEMMA RowStays ==
  ASSUME IInv, NEW r \in Slots, UNCHANGED row,
         pc[r] \notin {"idle", "create"}, pc'[r] \notin {"idle", "create"},
         req'[r].chunk = req[r].chunk, req'[r].creating = req[r].creating,
         \A q \in Slots \ {r} : pc'[q] = pc[q] /\ req'[q] = req[q]
  PROVE  \A q \in Slots : RowSound(q)'
<1>1. RowSound(r)'
  BY DEF IInv, RowSound, Busy
<1>2. ASSUME NEW q \in Slots \ {r} PROVE RowSound(q)'
  BY DEF IInv, RowSound, Busy
<1> QED
  BY <1>1, <1>2

LEMMA CreateTempKeeps ==
  ASSUME IInv, NEW r \in Slots, CreateTemp(r)
  PROVE  IInv'
<1> DEFINE i == IF temp = None THEN FreeInode ELSE temp
<1>1. /\ pc[r] = "merge" /\ temp' = i /\ content' = [content EXCEPT ![i] = Empty]
      /\ req' = [req EXCEPT ![r].fd = i] /\ pc' = [pc EXCEPT ![r] = "copy"]
      /\ overlapped' = (overlapped \/ \E q \in Slots \ {r} : pc[q] \in Merging)
      /\ UNCHANGED <<row, given, redisVars, parts, final, failures>>
  BY DEF CreateTemp, Goto
<1>2. req[r].fd = None /\ req[r].read = <<>>
  BY <1>1 DEF IInv, MergeSound
<1>3. i \in Inodes /\ i # final /\ i # None
  <2>1. FreeInode \in Inodes /\ ~InUse(FreeInode)
    BY <1>2, FreeInodeExists DEF IInv
  <2>2. None \notin Inodes
    BY ConstantsAssumption DEF Inodes
  <2> QED
    BY <2>1, <2>2 DEF IInv, TypeOK, NamesSound, InUse
<1> HIDE DEF i
<1>4. TypeOK'
  <2>1. req' \in [Slots -> Request]
    BY <1>1, <1>3 DEF IInv, TypeOK, Request
  <2>3. Empty \in [Chunks -> Data]
    BY DEF Empty, Data
  <2>2. overlapped' \in BOOLEAN /\ pc' \in [Slots -> Steps]
    BY <1>1 DEF IInv, TypeOK, Steps
  <2> QED
    BY <1>1, <1>3, <2>1, <2>2, <2>3 DEF IInv, TypeOK, redisVars
<1>5. /\ pc'[r] = "copy" /\ req'[r] = [req[r] EXCEPT !.fd = i] /\ req[r] \in Request
      /\ \A q \in Slots \ {r} : pc'[q] = pc[q] /\ req'[q] = req[q]
  BY <1>1 DEF IInv, TypeOK
<1>6. /\ req'[r].fd = i /\ req'[r].read = <<>> /\ req'[r].chunk = req[r].chunk
      /\ req'[r].creating = req[r].creating
  BY <1>2, <1>5 DEF Request
<1>7. NamesSound' /\ IntactUnlessOverlapped'
  <2>1. final # None => content'[final] = content[final]
    BY <1>1, <1>3 DEF IInv, TypeOK
  <2> QED
    BY <1>1, <1>3, <2>1 DEF IInv, NamesSound, IntactUnlessOverlapped, Intact
<1>8. \A q \in Slots : RowSound(q)'
  BY <1>1, <1>5, <1>6, RowStays
<1>9. ~overlapped' => ~overlapped /\ \A q \in Slots \ {r} : pc'[q] \notin Merging
  BY <1>1, <1>5
<1>10. \A q \in Slots : MergeAlone(q)'
  BY <1>9 DEF MergeAlone
<1>11. MergeSound(r)'
  <2>1. Len(<<>>) = 0 /\ 0 <= N /\ 1..0 = {}
    BY ConstantsAssumption
  <2> QED
    BY <1>1, <1>3, <1>5, <1>6, <2>1 DEF MergeSound
<1>12. ASSUME NEW q \in Slots \ {r} PROVE MergeSound(q)'
  BY <1>5, <1>9 DEF IInv, MergeSound, Merging
<1> QED
  BY <1>4, <1>7, <1>8, <1>10, <1>11, <1>12 DEF IInv

LEMMA CopyPartKeeps ==
  ASSUME IInv, NEW r \in Slots, CopyPart(r)
  PROVE  IInv'
<1> DEFINE c == NextPart(r)
<1>1. req[r] \in Request /\ req[r].read \in Seq(Data) /\ c \in Nat \ {0}
  BY DEF IInv, TypeOK, Request, NextPart
<1>2. pc[r] = "copy" /\ c \in Chunks /\ UNCHANGED <<temp, final, overlapped>>
  BY <1>1, ConstantsAssumption DEF CopyPart, Chunks
<1>3. CASE parts[c] = "none"
  <2>1. RollbackWithCleanup(r) /\ UNCHANGED content
    BY <1>3 DEF CopyPart
  <2> QED
    BY <2>1, AnswerKeeps, CleanupCacheType DEF CopyPart, RollbackWithCleanup, CleanupRecords,
       IInv, TypeOK
<1>4. CASE /\ content' = [content EXCEPT ![req[r].fd][c] = parts[c]]
           /\ req' = [req EXCEPT ![r].read = Append(@, parts[c])]
           /\ UNCHANGED <<row, given, redisVars, pc>>
  <2> DEFINE fd == req[r].fd
  <2>1. fd \in Inodes /\ parts[c] \in Data
    BY <1>1, <1>2 DEF IInv, TypeOK, MergeSound, Request
  <2>2. Append(req[r].read, parts[c]) \in Seq(Data)
    BY <1>1, <2>1
  <2>3. TypeOK'
    <3>1. content' \in [Inodes -> [Chunks -> Data]]
      BY <1>2, <1>4, <2>1 DEF IInv, TypeOK
    <3>2. req' \in [Slots -> Request]
      BY <1>4, <2>2 DEF IInv, TypeOK, Request
    <3> QED
      BY <1>2, <1>4, <3>1, <3>2 DEF CopyPart, IInv, TypeOK, redisVars
  <2>4. /\ req'[r] = [req[r] EXCEPT !.read = Append(@, parts[c])]
        /\ \A q \in Slots \ {r} : pc'[q] = pc[q] /\ req'[q] = req[q]
        /\ pc'[r] = "copy"
    BY <1>2, <1>4 DEF IInv, TypeOK
  <2>5. /\ req'[r].fd = fd /\ req'[r].read = Append(req[r].read, parts[c])
        /\ req'[r].chunk = req[r].chunk /\ req'[r].creating = req[r].creating
    BY <1>1, <2>4 DEF Request
  <2>6. /\ Len(req'[r].read) = c /\ req'[r].read[c] = parts[c]
        /\ \A d \in 1..c - 1 : req'[r].read[d] = req[r].read[d]
    BY <1>1, <2>1, <2>5 DEF NextPart
  <2>7. /\ content'[fd][c] = parts[c]
        /\ \A d \in Chunks \ {c} : content'[fd][d] = content[fd][d]
        /\ \A j \in Inodes \ {fd} : content'[j] = content[j]
    BY <1>2, <1>4, <2>1 DEF IInv, TypeOK
  <2>8. NamesSound' /\ IntactUnlessOverlapped'
    <3>1. ~overlapped => fd = temp /\ fd # final
      BY <1>2, <2>1 DEF IInv, MergeSound, NamesSound
    <3> HIDE DEF c, fd
    <3>2. ~overlapped /\ final # None => content'[final] = content[final]
      BY <2>7, <3>1 DEF IInv, TypeOK
    <3> QED
      BY <1>2, <1>4, <3>2 DEF IInv, NamesSound, IntactUnlessOverlapped, Intact
  <2>9. \A q \in Slots : RowSound(q)'
    BY <1>2, <1>4, <2>4, <2>5, RowStays
  <2>10. \A q \in Slots : MergeAlone(q)'
    BY <1>2, <1>4 DEF IInv, MergeAlone
  <2>11. MergeSound(r)'
    <3>1. ASSUME ~overlapped'
          PROVE  /\ req'[r].fd = temp' /\ Len(req'[r].read) <= N
                 /\ \A d \in 1..Len(req'[r].read) : content'[temp'][d] = req'[r].read[d]
      <4>1. /\ fd = temp
            /\ \A d \in 1..Len(req[r].read) : content[temp][d] = req[r].read[d]
        BY <1>2, <3>1 DEF IInv, MergeSound
      <4>2. c - 1 = Len(req[r].read) /\ 1..c \subseteq Chunks
            /\ \A d \in 1..c : d = c \/ d \in 1..c - 1
        BY <1>1, <1>2, ConstantsAssumption DEF NextPart, Chunks
      <4>3. c <= N
        BY <1>2 DEF Chunks
      <4> HIDE DEF c, fd
      <4> QED
        BY <1>2, <2>5, <2>6, <2>7, <4>1, <4>2, <4>3
    <3>2. req'[r].fd # None
      BY <1>2, <2>5 DEF IInv, MergeSound
    <3> QED
      BY <2>4, <3>1, <3>2 DEF MergeSound
  <2>12. ASSUME NEW q \in Slots \ {r} PROVE MergeSound(q)'
    <3>1. ~overlapped => pc[q] \notin Merging
      BY <1>2 DEF IInv, MergeAlone, Merging
    <3> QED
      BY <1>2, <2>4, <3>1 DEF IInv, MergeSound, Merging
  <2> QED
    BY <2>3, <2>8, <2>9, <2>10, <2>11, <2>12 DEF IInv
<1> QED
  BY <1>3, <1>4 DEF CopyPart

LEMMA VerifyHashKeeps ==
  ASSUME IInv, NEW r \in Slots, VerifyHash(r)
  PROVE  IInv'
<1>1. pc[r] = "copy" /\ NextPart(r) > N /\ UNCHANGED <<overlapped, failures>>
  BY DEF VerifyHash
<1>2. CASE /\ \A c \in Chunks : req[r].read[c] = "good"
           /\ Goto(r, "rename")
           /\ UNCHANGED <<row, given, redisVars, diskVars, req>>
  <2>1. TypeOK'
    BY <1>1, <1>2 DEF Goto, IInv, TypeOK, Steps, redisVars, diskVars
  <2>2. pc'[r] = "rename" /\ \A q \in Slots \ {r} : pc'[q] = pc[q]
    BY <1>2 DEF Goto, IInv, TypeOK
  <2>3. RowSound(r)'
    BY <1>1, <1>2, <2>1, <2>2 DEF IInv, RowSound, Busy
  <2>4. MergeSound(r)'
    <3>1. Chunks \subseteq 1..Len(req[r].read) /\ None \notin Inodes
      BY <1>1, ConstantsAssumption DEF IInv, TypeOK, Request, NextPart, Chunks, Inodes
    <3> QED
      BY <1>1, <1>2, <2>2, <3>1 DEF IInv, MergeSound, diskVars
  <2> QED
    BY <1>1, <1>2, <2>1, <2>2, <2>3, <2>4, RequestMoves DEF Merging, diskVars
<1>3. CASE temp' = None /\ parts' = Empty /\ RollbackWithCleanup(r) /\ UNCHANGED <<final, content>>
  <2>1. /\ pc' = [pc EXCEPT ![r] = "idle"] /\ req' = [req EXCEPT ![r] = Idle]
        /\ locks' \subseteq locks /\ UNCHANGED <<row, given>>
    BY <1>3 DEF RollbackWithCleanup, CleanupRecords, Answer, Goto
  <2>2. Empty \in [Chunks -> Data] /\ marked' \in [Keys -> SUBSET Chunks]
    BY <1>3, CleanupCacheType DEF Empty, Data, RollbackWithCleanup, IInv
  <2>3. TypeOK'
    BY <1>1, <1>3, <2>1, <2>2, IdleIsRequest DEF IInv, TypeOK, Steps
  <2>4. /\ pc'[r] = "idle" /\ req'[r] = Idle
        /\ \A q \in Slots \ {r} : pc'[q] = pc[q] /\ req'[q] = req[q]
    BY <2>1 DEF IInv, TypeOK
  <2>5. NamesSound' /\ IntactUnlessOverlapped'
    BY <1>1, <1>3, <2>1 DEF IInv, NamesSound, IntactUnlessOverlapped, Intact
  <2>6. RowSound(r)' /\ MergeSound(r)'
    BY <2>4 DEF RowSound, MergeSound, Busy, Idle
  <2>7. \A q \in Slots : MergeAlone(q)'
    BY <1>1, <2>4 DEF IInv, MergeAlone, Merging
  <2>8. ASSUME NEW q \in Slots \ {r} PROVE RowSound(q)' /\ MergeSound(q)'
    <3>1. ~overlapped => pc[q] \notin Merging
      BY <1>1 DEF IInv, MergeAlone, Merging
    <3> QED
      BY <1>1, <2>1, <2>4, <3>1 DEF IInv, RowSound, Busy, MergeSound, Merging
  <2> QED
    BY <2>3, <2>5, <2>6, <2>7, <2>8 DEF IInv
<1> QED
  BY <1>2, <1>3 DEF VerifyHash

LEMMA RenameToFinalKeeps ==
  ASSUME IInv, NEW r \in Slots, RenameToFinal(r)
  PROVE  IInv'
<1>1. pc[r] = "rename" /\ UNCHANGED <<parts, content, overlapped, failures>>
  BY DEF RenameToFinal
<1>2. CASE temp = None /\ RollbackWithCleanup(r) /\ UNCHANGED <<temp, final>>
  BY <1>1, <1>2, AnswerKeeps, CleanupCacheType DEF RollbackWithCleanup, CleanupRecords,
     IInv, TypeOK
<1>3. CASE /\ temp # None /\ final' = temp /\ temp' = None
           /\ Goto(r, "sweep") /\ UNCHANGED <<row, given, redisVars, req>>
  <2>1. TypeOK'
    BY <1>1, <1>3 DEF Goto, IInv, TypeOK, Steps, redisVars
  <2>2. pc'[r] = "sweep" /\ \A q \in Slots \ {r} : pc'[q] = pc[q]
    BY <1>3 DEF Goto, IInv, TypeOK
  <2>3. ~overlapped => Intact'
    BY <1>1, <1>3 DEF IInv, MergeSound, Intact
  <2>4. NamesSound' /\ IntactUnlessOverlapped'
    BY <1>1, <1>3, <2>3 DEF IInv, NamesSound, IntactUnlessOverlapped
  <2>5. \A q \in Slots : RowSound(q)'
    BY <1>1, <1>3, <2>2, RowStays
  <2>6. \A q \in Slots : MergeAlone(q)'
    BY <1>1, <2>2 DEF IInv, MergeAlone, Merging
  <2>7. MergeSound(r)'
    BY <1>1, <2>2, <2>3 DEF MergeSound
  <2>8. ASSUME NEW q \in Slots \ {r} PROVE MergeSound(q)'
    <3>1. ~overlapped => pc[q] \notin Merging
      BY <1>1 DEF IInv, MergeAlone, Merging
    <3> QED
      BY <1>1, <1>3, <2>2, <3>1 DEF IInv, MergeSound, Merging
  <2> QED
    BY <2>1, <2>4, <2>5, <2>6, <2>7, <2>8 DEF IInv
<1> QED
  BY <1>2, <1>3 DEF RenameToFinal

LEMMA SweepPartsKeeps ==
  ASSUME IInv, NEW r \in Slots, SweepParts(r)
  PROVE  IInv'
<1>1. /\ pc[r] = "sweep" /\ parts' = Empty /\ pc' = [pc EXCEPT ![r] = "save"]
      /\ UNCHANGED <<row, given, redisVars, temp, final, content, req, overlapped, failures>>
  BY DEF SweepParts, Goto
<1>2. Empty \in [Chunks -> Data]
  BY DEF Empty, Data
<1>3. TypeOK'
  BY <1>1, <1>2 DEF IInv, TypeOK, Steps, redisVars
<1>4. pc'[r] = "save" /\ \A q \in Slots \ {r} : pc'[q] = pc[q]
  BY <1>1 DEF IInv, TypeOK
<1>5. RowSound(r)' /\ MergeSound(r)'
  BY <1>1, <1>4 DEF IInv, RowSound, MergeSound, Busy, Intact
<1> QED
  BY <1>1, <1>3, <1>4, <1>5, RequestMoves DEF Merging

(* The row is "done": the request that saves it has verified the file.     *)
LEMMA SaveFileKeeps ==
  ASSUME IInv, NEW r \in Slots, SaveFile(r)
  PROVE  IInv'
<1>1. /\ pc[r] = "save" /\ row' = "done" /\ Give /\ pc' = [pc EXCEPT ![r] = "clean"]
      /\ req' = [req EXCEPT ![r].creating = FALSE]
      /\ UNCHANGED <<redisVars, diskVars, overlapped, failures>>
  BY DEF SaveFile, Goto
<1>2. TypeOK'
  <2>1. req' \in [Slots -> Request] /\ pc' \in [Slots -> Steps]
    BY <1>1 DEF IInv, TypeOK, Request, Steps
  <2>2. given' \in 0..GivenBound
    BY <1>1 DEF Give, GivenBound, IInv, TypeOK
  <2> QED
    BY <1>1, <2>1, <2>2 DEF IInv, TypeOK, redisVars, diskVars
<1>3. /\ pc'[r] = "clean" /\ req'[r] = [req[r] EXCEPT !.creating = FALSE] /\ req[r] \in Request
      /\ \A q \in Slots \ {r} : pc'[q] = pc[q] /\ req'[q] = req[q]
  BY <1>1 DEF IInv, TypeOK
<1>4. ~req'[r].creating /\ req'[r].chunk = req[r].chunk
  BY <1>3 DEF Request
<1>5. NamesSound' /\ IntactUnlessOverlapped'
  BY <1>1 DEF IInv, NamesSound, IntactUnlessOverlapped, MergeSound, Intact, diskVars
<1>6. RowSound(r)' /\ MergeSound(r)'
  BY <1>1, <1>3, <1>4 DEF IInv, RowSound, MergeSound, Busy
<1>7. \A q \in Slots : MergeAlone(q)'
  BY <1>1, <1>3 DEF IInv, MergeAlone, Merging
<1>8. ASSUME NEW q \in Slots \ {r} PROVE RowSound(q)' /\ MergeSound(q)'
  <2>1. ~req[q].creating
    BY <1>1 DEF IInv, RowSound
  <2>2. RowSound(q)'
    BY <1>1, <1>3, <2>1 DEF IInv, RowSound, Busy
  <2>3. MergeSound(q)'
    BY <1>1, <1>3 DEF IInv, MergeSound, Intact, diskVars
  <2> QED
    BY <2>2, <2>3
<1> QED
  BY <1>2, <1>5, <1>6, <1>7, <1>8 DEF IInv

LEMMA CleanUpKeeps ==
  ASSUME IInv, NEW r \in Slots, CleanUp(r)
  PROVE  IInv'
BY AnswerKeeps, CleanupCacheType DEF CleanUp, diskVars, IInv, TypeOK

-----------------------------------------------------------------------------
(* Failures, and what no request does.                                     *)

LEMMA RunLateKeeps ==
  ASSUME IInv, NEW r \in Slots, RunLate(r)
  PROVE  IInv'
<1>1. /\ req' = [req EXCEPT ![r].late = TRUE] /\ Busy(r)
      /\ UNCHANGED <<dataVars, pc, overlapped>>
  BY DEF RunLate, Busy
<1>2. failures' \in 0..MaxFailures
  BY FailureIfType DEF RunLate, IInv
<1>3. TypeOK'
  <2>1. req' \in [Slots -> Request]
    BY <1>1 DEF IInv, TypeOK, Request
  <2> QED
    BY <1>1, <1>2, <2>1 DEF IInv, TypeOK, dataVars, redisVars, diskVars
<1>4. /\ req[r] \in Request /\ req'[r] = [req[r] EXCEPT !.late = TRUE]
      /\ \A q \in Slots \ {r} : pc'[q] = pc[q] /\ req'[q] = req[q]
  BY <1>1 DEF IInv, TypeOK
<1>5. /\ req'[r].chunk = req[r].chunk /\ req'[r].creating = req[r].creating
      /\ req'[r].read = req[r].read /\ req'[r].fd = req[r].fd
  BY <1>4 DEF Request
<1>6. RowSound(r)' /\ MergeSound(r)'
  <2>1. RowSound(r)'
    BY <1>1, <1>4, <1>5 DEF IInv, RowSound, Busy, dataVars
  <2>2. MergeSound(r)'
    BY <1>1, <1>5 DEF IInv, MergeSound, Intact, dataVars, diskVars
  <2> QED
    BY <2>1, <2>2
<1> QED
  BY <1>1, <1>3, <1>4, <1>6, RequestMoves DEF dataVars, diskVars

LEMMA FailStepKeeps ==
  ASSUME IInv, NEW r \in Slots, FailStep(r)
  PROVE  IInv'
<1>1. failures' \in 0..MaxFailures
  BY FailureIfType DEF FailStep, IInv
<1> QED
  BY <1>1, AnswerKeeps, CleanupCacheType DEF FailStep, RollbackWithCleanup, CleanupRecords,
     diskVars, IInv, TypeOK

LEMMA CrashKeeps ==
  ASSUME IInv, Crash
  PROVE  IInv'
<1>1. /\ pc' = [r \in Slots |-> "idle"] /\ req' = [r \in Slots |-> Idle]
      /\ UNCHANGED <<dataVars, overlapped>>
  BY DEF Crash
<1>2. TypeOK'
  BY <1>1, FailureIfType, IdleIsRequest DEF Crash, IInv, TypeOK, Steps, dataVars, redisVars, diskVars
<1>3. NamesSound' /\ IntactUnlessOverlapped'
  BY <1>1 DEF IInv, NamesSound, IntactUnlessOverlapped, Intact, dataVars, diskVars
<1>4. ASSUME NEW r \in Slots
      PROVE  RowSound(r)' /\ MergeAlone(r)' /\ MergeSound(r)'
  BY <1>1 DEF RowSound, MergeAlone, MergeSound, Busy, Idle, Merging
<1> QED
  BY <1>2, <1>3, <1>4 DEF IInv

(* No request moves and no file is touched.                                *)
LEMMA OtherKeeps ==
  ASSUME IInv, TypeOK', UNCHANGED <<temp, final, content, pc, req, overlapped>>,
         \/ UNCHANGED <<row, given>>
         \/ row = "none" /\ row' = "uploading" /\ given' = given /\ \A r \in Slots : ~req[r].creating
         \/ row = "done" /\ row' = "done"
  PROVE  IInv'
<1>1. NamesSound' /\ IntactUnlessOverlapped'
  BY DEF IInv, NamesSound, IntactUnlessOverlapped, Intact
<1>2. ASSUME NEW r \in Slots
      PROVE  RowSound(r)' /\ MergeAlone(r)' /\ MergeSound(r)'
  BY DEF IInv, RowSound, MergeAlone, MergeSound, Busy, Intact
<1> QED
  BY <1>1, <1>2 DEF IInv

LEMMA ChunkUploadKeeps ==
  ASSUME IInv, NEW r \in Slots, ChunkUpload(r)
  PROVE  IInv'
BY CreateRowKeeps, SkipMemberKeeps, TryLockChunkKeeps, WriteChunkKeeps, CacheUploadedKeeps,
   CountUploadedKeeps, CreateTempKeeps, CopyPartKeeps, VerifyHashKeeps, RenameToFinalKeeps,
   SweepPartsKeeps, SaveFileKeeps, CleanUpKeeps DEF ChunkUpload

LEMMA SharedKeeps ==
  ASSUME IInv,
         \/ UploadPrecheck \/ AnswerCompleted \/ OpenMismatched \/ ExpireMarks
         \/ \E c \in Chunks : ExpireLock(c)
  PROVE  IInv'
<1>1. CASE UploadPrecheck
  <2>1. TypeOK'
    BY <1>1 DEF UploadPrecheck, IInv, TypeOK, redisVars, diskVars
  <2> QED
    BY <1>1, <2>1, OtherKeeps DEF UploadPrecheck, diskVars
<1>2. CASE AnswerCompleted
  <2>1. TypeOK'
    BY <1>2 DEF AnswerCompleted, Give, GivenBound, IInv, TypeOK, redisVars, diskVars
  <2> QED
    BY <1>2, <2>1, OtherKeeps DEF AnswerCompleted, diskVars
<1>3. CASE OpenMismatched
  <2>1. failures' \in 0..MaxFailures
    BY <1>3, FailureIfType DEF OpenMismatched, IInv
  <2>2. TypeOK'
    BY <1>3, <2>1 DEF OpenMismatched, IInv, TypeOK, diskVars, Keys
  <2> QED
    BY <1>3, <2>2, OtherKeeps DEF OpenMismatched, diskVars
<1>4. CASE ExpireMarks
  <2>1. failures' \in 0..MaxFailures
    BY <1>4, FailureIfType DEF ExpireMarks, IInv
  <2>2. TypeOK'
    BY <1>4, <2>1 DEF ExpireMarks, IInv, TypeOK, diskVars, Keys
  <2> QED
    BY <1>4, <2>2, OtherKeeps DEF ExpireMarks, diskVars
<1>5. ASSUME NEW c \in Chunks, ExpireLock(c) PROVE IInv'
  <2>1. failures' \in 0..MaxFailures
    BY <1>5, FailureIfType DEF ExpireLock, IInv
  <2>2. TypeOK'
    BY <1>5, <2>1 DEF ExpireLock, IInv, TypeOK, diskVars
  <2> QED
    BY <1>5, <2>2, OtherKeeps DEF ExpireLock, diskVars
<1> QED
  BY <1>1, <1>2, <1>3, <1>4, <1>5

-----------------------------------------------------------------------------
LEMMA InitEstablishes == Init => IInv
<1> SUFFICES ASSUME Init PROVE IInv
  OBVIOUS
<1>1. TypeOK
  <2>1. Empty \in [Chunks -> Data] /\ 0 \in 0..GivenBound /\ 0 \in 0..MaxFailures
    BY ConstantsAssumption DEF Empty, Data, GivenBound
  <2>2. pc \in [Slots -> Steps] /\ req \in [Slots -> Request]
    BY IdleIsRequest DEF Init, Steps
  <2>3. content \in [Inodes -> [Chunks -> Data]] /\ marked \in [Keys -> SUBSET Chunks]
    BY <2>1 DEF Init
  <2> QED
    BY <2>1, <2>2, <2>3 DEF Init, TypeOK
<1>2. NamesSound /\ IntactUnlessOverlapped
  BY DEF Init, NamesSound, IntactUnlessOverlapped
<1>3. ASSUME NEW r \in Slots PROVE RowSound(r) /\ MergeAlone(r) /\ MergeSound(r)
  BY DEF Init, RowSound, MergeAlone, MergeSound, Busy, Idle, Merging
<1> QED
  BY <1>1, <1>2, <1>3 DEF IInv

LEMMA NextKeeps == IInv /\ [Next]_vars => IInv'
<1> SUFFICES ASSUME IInv, [Next]_vars PROVE IInv'
  OBVIOUS
<1>1. CASE \E r \in Slots : ChunkUpload(r) \/ RunLate(r) \/ FailStep(r)
  BY <1>1, ChunkUploadKeeps, RunLateKeeps, FailStepKeeps
<1>2. CASE \E r \in Slots, c \in Chunks, d \in {"good", "bad"} : Open(r, c, d)
  BY <1>2, OpenKeeps
<1>3. CASE Crash
  BY <1>3, CrashKeeps
<1>4. CASE \/ UploadPrecheck \/ AnswerCompleted \/ OpenMismatched \/ ExpireMarks
           \/ \E c \in Chunks : ExpireLock(c)
  BY <1>4, SharedKeeps
<1>5. CASE UNCHANGED vars
  <2>1. TypeOK'
    BY <1>5 DEF IInv, TypeOK, vars, dataVars, redisVars, diskVars
  <2> QED
    BY <1>5, <2>1, OtherKeeps DEF vars, dataVars, diskVars
<1> QED
  BY <1>1, <1>2, <1>3, <1>4, <1>5 DEF Next, Fault

LEMMA Invariance == Spec => []IInv
BY InitEstablishes, NextKeeps, PTL DEF Spec

(* The variables of an upload hold values of their types: the parts of a   *)
(* file are written, marked and locked under chunk numbers only, and there *)
(* is always a free file for os.Create.                                    *)
THEOREM TypeCorrect == Spec => []TypeOK
<1>1. IInv => TypeOK
  BY DEF IInv
<1> QED
  BY <1>1, Invariance, PTL

(* ChunkUpload, for any number of chunks and of requests, failures and     *)
(* crashes at any point: a row that is "done" names the file whose hash    *)
(* was verified unless two merges overlapped, and no uf_id that was given  *)
(* is taken back.                                                          *)
THEOREM CompletedIsVerified == Spec => []IntactUnlessOverlapped
<1>1. IInv => IntactUnlessOverlapped
  BY DEF IInv
<1> QED
  BY <1>1, Invariance, PTL
=============================================================================
