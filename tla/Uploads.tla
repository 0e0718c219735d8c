------------------------------ MODULE Uploads ------------------------------
(***************************************************************************)
(* Uploading one file in chunks (oss/handler/file/upload.go). All uploads  *)
(* with the same content hash are one file: users that send the same file  *)
(* share its upload_file row, its directory of parts, the Redis set of the *)
(* chunks that have arrived and the temporary file they are merged into.   *)
(*                                                                         *)
(* A request takes the lock of its own chunk only. Whoever finds the set   *)
(* full merges, so that two requests may merge at the same time. Redis is  *)
(* not part of the request's transaction, and every Redis call of a        *)
(* request shares one deadline of five seconds from its start.             *)
(***************************************************************************)
EXTENDS Naturals, FiniteSets, Sequences

CONSTANTS
  N,          \* chunks of the file
  Slots,      \* requests that run at the same time
  None,
  MaxFailures \* bound: late requests, I/O errors, bad data, crashes, early expiry

ASSUME ConstantsAssumption ==
  /\ {N, MaxFailures} \subseteq Nat /\ N > 0
  /\ IsFiniteSet(Slots) /\ None \notin Nat

VARIABLES
  row,       \* the upload_file row: "none", "uploading" (1) or "done" (2)
  given,     \* user files (uf_id) of the file, counted up to GivenBound
  marked,    \* marked[k]: the Redis set of chunks under the key of k
  locks,     \* chunks whose Redis lock exists
  parts,     \* parts[c]: what the part file of chunk c holds
  temp,      \* the file the temporary name refers to, None without one
  final,     \* the file under the final name
  content,   \* content[i]: what file i holds, chunk by chunk
  pc, req,   \* the request in a slot
  overlapped,\* history: two requests have merged at the same time
  failures

diskVars == <<parts, temp, final, content>>
redisVars == <<marked, locks>>
dataVars == <<row, given, redisVars, diskVars>>
vars == <<dataVars, pc, req, overlapped, failures>>

Chunks == 1..N
Inodes == 1..Cardinality(Slots) + 2 \* files on disk: enough for all in use
Data == {"none", "good", "bad"}
Empty == [c \in Chunks |-> "none"]
Idle == [chunk |-> None, data |-> "none", late |-> FALSE, creating |-> FALSE,
         locked |-> FALSE, fd |-> None, read |-> <<>>]
Request == [chunk : Chunks \cup {None}, data : Data, late : BOOLEAN,
            creating : BOOLEAN, locked : BOOLEAN, fd : Inodes \cup {None},
            read : Seq(Data)]
Steps == {"idle", "create", "member", "lock", "write", "mark", "count",
          "merge", "copy", "rename", "sweep", "save", "clean"}
Merging == {"copy", "rename", "sweep", "save"}
Marked == Merging \cup {"count", "merge", "clean"}

GivenBound == 2 \* bound: user files told apart

\* Redis keys: requests mark a chunk under the file's hash, the precheck
\* looks under its id.
Keys == {"hash", "fid"}

Init ==
  /\ row = "none" /\ given = 0
  /\ marked = [k \in Keys |-> {}] /\ locks = {}
  /\ parts = Empty /\ temp = None /\ final = None
  /\ content = [i \in Inodes |-> Empty]
  /\ pc = [r \in Slots |-> "idle"] /\ req = [r \in Slots |-> Idle]
  /\ overlapped = FALSE /\ failures = 0

-----------------------------------------------------------------------------
\* A step that is a failure when bad holds.
FailureIf(bad) == /\ bad => failures < MaxFailures
                  /\ failures' = IF bad THEN failures + 1 ELSE failures

Goto(r, step) == pc' = [pc EXCEPT ![r] = step]

\* The request is answered; its chunk lock is released unless Redis is late.
Answer(r) ==
  /\ Goto(r, "idle") /\ req' = [req EXCEPT ![r] = Idle]
  /\ locks' = IF req[r].locked /\ ~req[r].late
              THEN locks \ {req[r].chunk} ELSE locks

\* cleanupUploadCache: every chunk of the file is forgotten in Redis.
CleanupCache(r) ==
  marked' = IF req[r].late THEN marked ELSE [marked EXCEPT !["hash"] = {}]

\* rollbackWithCleanup. The records it deletes are looked up by the hash but
\* named by the id, so that none is found.
CleanupRecords == UNCHANGED <<row, given>>
RollbackWithCleanup(r) == CleanupRecords /\ CleanupCache(r) /\ Answer(r)

\* A user_upload_file row: the user gets a uf_id of the file.
Give == given' = IF given < GivenBound THEN given + 1 ELSE given

\* Another request holds the insertion of the row in its open transaction.
RowPending(r) == \E q \in Slots \ {r} : req[q].creating

-----------------------------------------------------------------------------
(* UploadPrecheck.                                                         *)

\* A file nobody has started gets its row.
UploadPrecheck ==
  /\ row = "none" /\ \A r \in Slots : ~req[r].creating
  /\ row' = "uploading"
  /\ UNCHANGED <<given, redisVars, diskVars, pc, req, overlapped, failures>>

\* A file that is complete is given to this user too, by the precheck and by
\* ChunkUpload alike.
AnswerCompleted ==
  /\ row = "done" /\ Give
  /\ UNCHANGED <<row, redisVars, diskVars, pc, req, overlapped, failures>>

-----------------------------------------------------------------------------
(* ChunkUpload, first half: admission.                                     *)

\* Bad data is a failure of the client; the server notices when it merges.
Open(r, c, d) ==
  /\ pc[r] = "idle" /\ row # "done"
  /\ req' = [req EXCEPT ![r] = [Idle EXCEPT !.chunk = c, !.data = d]]
  /\ Goto(r, IF row = "none" THEN "create" ELSE "member")
  /\ FailureIf(d = "bad")
  /\ UNCHANGED <<dataVars, overlapped>>

\* The client has cut the file into other chunks than the first one did.
OpenMismatched ==
  /\ row = "uploading"
  /\ marked' = [marked EXCEPT !["hash"] = {}] /\ FailureIf(TRUE)
  /\ UNCHANGED <<row, given, locks, diskVars, pc, req, overlapped>>

\* The hash is unique: the insertion waits for another one to be decided.
CreateRow(r) ==
  /\ pc[r] = "create" /\ ~RowPending(r)
  /\ \/ /\ row = "none"
        /\ req' = [req EXCEPT ![r].creating = TRUE] /\ Goto(r, "member")
        /\ UNCHANGED <<row, given, redisVars>>
     \/ row # "none" /\ RollbackWithCleanup(r)
  /\ UNCHANGED <<diskVars, overlapped, failures>>

\* A chunk that has arrived is skipped; a Redis error reads as "it has not".
SkipMember(r) ==
  /\ pc[r] = "member"
  /\ \/ /\ ~req[r].late /\ req[r].chunk \in marked["hash"]
        /\ Answer(r)
     \/ /\ req[r].late \/ req[r].chunk \notin marked["hash"]
        /\ Goto(r, "lock") /\ UNCHANGED <<req, locks>>
  /\ UNCHANGED <<row, given, marked, diskVars, overlapped, failures>>

\* tryLockChunk. Without the lock the client is told that a transfer runs.
TryLockChunk(r) ==
  /\ pc[r] = "lock"
  /\ \/ /\ ~req[r].late /\ req[r].chunk \notin locks
        /\ locks' = locks \cup {req[r].chunk}
        /\ req' = [req EXCEPT ![r].locked = TRUE] /\ Goto(r, "write")
     \/ /\ req[r].late \/ req[r].chunk \in locks
        /\ Answer(r)
  /\ UNCHANGED <<row, given, marked, diskVars, overlapped, failures>>

WriteChunk(r) ==
  /\ pc[r] = "write"
  /\ parts' = [parts EXCEPT ![req[r].chunk] = req[r].data]
  /\ Goto(r, "mark")
  /\ UNCHANGED <<row, given, redisVars, temp, final, content, req, overlapped,
                 failures>>

\* cacheUploaded
CacheUploaded(r) ==
  /\ pc[r] = "mark"
  /\ marked' = IF req[r].late THEN marked
               ELSE [marked EXCEPT !["hash"] = @ \cup {req[r].chunk}]
  /\ Goto(r, "count")
  /\ UNCHANGED <<row, given, locks, diskVars, req, overlapped, failures>>

\* Faulty: one chunk too few is counted.
UploadedBeyond(r) == IF req[r].late THEN 0 ELSE Cardinality(marked["hash"]) - 1

\* The set is counted; a Redis error counts nothing. Whoever counts all the
\* chunks merges; the others commit, a row they have inserted included.
UploadedCount(r) == IF req[r].late THEN 0 ELSE Cardinality(marked["hash"])
CountUploaded(r) ==
  /\ pc[r] = "count"
  /\ \/ /\ UploadedCount(r) < N
        /\ row' = IF req[r].creating THEN "uploading" ELSE row
        /\ Answer(r)
     \/ /\ UploadedCount(r) >= N
        /\ Goto(r, "merge") /\ UNCHANGED <<row, req, locks>>
  /\ UNCHANGED <<given, marked, diskVars, overlapped, failures>>

-----------------------------------------------------------------------------
(* ChunkUpload, second half: merging the parts.                            *)

InUse(i) == i \in {temp, final} \/ \E r \in Slots : req[r].fd = i

FreeInode == CHOOSE i \in Inodes : ~InUse(i)

\* os.Create: a new file, or the one under the temporary name cut to nothing.
CreateTemp(r) ==
  /\ pc[r] = "merge"
  /\ LET i == IF temp = None THEN FreeInode ELSE temp IN
       /\ temp' = i /\ content' = [content EXCEPT ![i] = Empty]
       /\ req' = [req EXCEPT ![r].fd = i]
  /\ overlapped' = (overlapped \/ \E q \in Slots \ {r} : pc[q] \in Merging)
  /\ Goto(r, "copy")
  /\ UNCHANGED <<row, given, redisVars, parts, final, failures>>

\* The next part goes to the file and into the hash.
NextPart(r) == Len(req[r].read) + 1
CopyPart(r) ==
  LET c == NextPart(r) IN
    /\ pc[r] = "copy" /\ c <= N
    /\ \/ /\ parts[c] # "none"
          /\ content' = [content EXCEPT ![req[r].fd][c] = parts[c]]
          /\ req' = [req EXCEPT ![r].read = Append(@, parts[c])]
          /\ UNCHANGED <<row, given, redisVars, pc>>
       \/ parts[c] = "none" /\ RollbackWithCleanup(r) /\ UNCHANGED content
    /\ UNCHANGED <<parts, temp, final, overlapped, failures>>

\* Faulty: the row that failed is committed.
VerifyAndKeep(r) ==
  /\ pc[r] = "copy" /\ NextPart(r) > N
  /\ IF \A c \in Chunks : req[r].read[c] = "good"
     THEN Goto(r, "rename") /\ UNCHANGED <<row, redisVars, diskVars, req>>
     ELSE /\ row' = "failed" /\ temp' = None /\ parts' = Empty
          /\ CleanupCache(r) /\ Answer(r) /\ UNCHANGED <<final, content>>
  /\ UNCHANGED <<given, overlapped, failures>>

\* Faulty: the hash is not compared.
VerifyNothing(r) ==
  /\ pc[r] = "copy" /\ NextPart(r) > N /\ Goto(r, "rename")
  /\ UNCHANGED <<row, given, redisVars, diskVars, req, overlapped, failures>>

\* The hash of what was read is compared. On a mismatch the temporary name
\* and all the parts are removed; that the row failed (10) is rolled back.
VerifyHash(r) ==
  /\ pc[r] = "copy" /\ NextPart(r) > N
  /\ \/ /\ \A c \in Chunks : req[r].read[c] = "good"
        /\ Goto(r, "rename")
        /\ UNCHANGED <<row, given, redisVars, diskVars, req>>
     \/ /\ \E c \in Chunks : req[r].read[c] # "good"
        /\ temp' = None /\ parts' = Empty
        /\ RollbackWithCleanup(r) /\ UNCHANGED <<final, content>>
  /\ UNCHANGED <<overlapped, failures>>

\* os.Rename moves whatever the temporary name refers to.
RenameToFinal(r) ==
  /\ pc[r] = "rename"
  /\ \/ /\ temp # None
        /\ final' = temp /\ temp' = None
        /\ Goto(r, "sweep") /\ UNCHANGED <<row, given, redisVars, req>>
     \/ temp = None /\ RollbackWithCleanup(r) /\ UNCHANGED <<temp, final>>
  /\ UNCHANGED <<parts, content, overlapped, failures>>

SweepParts(r) ==
  /\ pc[r] = "sweep"
  /\ parts' = Empty /\ Goto(r, "save")
  /\ UNCHANGED <<row, given, redisVars, temp, final, content, req, overlapped,
                 failures>>

\* The row and the user's file are committed together.
SaveFile(r) ==
  /\ pc[r] = "save"
  /\ row' = "done" /\ Give
  /\ req' = [req EXCEPT ![r].creating = FALSE] /\ Goto(r, "clean")
  /\ UNCHANGED <<redisVars, diskVars, overlapped, failures>>

CleanUp(r) ==
  /\ pc[r] = "clean"
  /\ CleanupCache(r) /\ Answer(r)
  /\ UNCHANGED <<row, given, diskVars, overlapped, failures>>

-----------------------------------------------------------------------------
(* Failures.                                                               *)

\* The request outlives its Redis deadline: reading a body or merging is slow.
RunLate(r) ==
  /\ pc[r] # "idle" /\ ~req[r].late
  /\ req' = [req EXCEPT ![r].late = TRUE] /\ FailureIf(TRUE)
  /\ UNCHANGED <<dataVars, pc, overlapped>>

\* An error of the disk or of the database, the commit included.
FailStep(r) ==
  /\ pc[r] \in {"write", "merge", "copy", "rename", "save"}
  /\ RollbackWithCleanup(r) /\ FailureIf(TRUE)
  /\ UNCHANGED <<diskVars, overlapped>>

\* The OSS process dies: transactions are rolled back, the rest stays.
Crash ==
  /\ \E r \in Slots : pc[r] # "idle"
  /\ pc' = [r \in Slots |-> "idle"] /\ req' = [r \in Slots |-> Idle]
  /\ FailureIf(TRUE)
  /\ UNCHANGED <<dataVars, overlapped>>

\* A chunk lock expires five minutes after it was taken.
ExpireLock(c) ==
  /\ c \in locks /\ locks' = locks \ {c}
  /\ FailureIf(\E r \in Slots : req[r].locked /\ req[r].chunk = c)
  /\ UNCHANGED <<row, given, marked, diskVars, pc, req, overlapped>>

\* The set expires a day after the last chunk was marked, when the request
\* that did it is long gone. Clients that are still uploading come back
\* sooner: the expiry of a set that is not full counts as a failure.
ExpireMarks ==
  /\ marked["hash"] # {} /\ \A r \in Slots : pc[r] \notin Marked
  /\ marked' = [marked EXCEPT !["hash"] = {}]
  /\ FailureIf(marked["hash"] # Chunks)
  /\ UNCHANGED <<row, given, locks, diskVars, pc, req, overlapped>>

-----------------------------------------------------------------------------
ChunkUpload(r) ==
  \/ CreateRow(r) \/ SkipMember(r) \/ TryLockChunk(r) \/ WriteChunk(r)
  \/ CacheUploaded(r) \/ CountUploaded(r) \/ CreateTemp(r) \/ CopyPart(r)
  \/ VerifyHash(r) \/ RenameToFinal(r) \/ SweepParts(r) \/ SaveFile(r)
  \/ CleanUp(r)

Fault ==
  \/ OpenMismatched \/ Crash
  \/ \E r \in Slots : RunLate(r) \/ FailStep(r)
  \/ \E r \in Slots, c \in Chunks : Open(r, c, "bad")

Next ==
  \/ UploadPrecheck \/ AnswerCompleted
  \/ \E r \in Slots : ChunkUpload(r)
  \/ \E r \in Slots, c \in Chunks : Open(r, c, "good")
  \/ Fault
  \/ \E c \in Chunks : ExpireLock(c)
  \/ ExpireMarks

\* Handlers run on, the client sends every chunk again and again until the
\* file is complete, and keys expire in the end.
Fairness ==
  /\ \A r \in Slots : WF_vars(ChunkUpload(r))
  /\ \A c \in Chunks : SF_vars(\E r \in Slots : Open(r, c, "good"))
  /\ WF_vars(\E c \in Chunks : ExpireLock(c))
  /\ WF_vars(ExpireMarks)

Spec == Init /\ [][Next]_vars
FairSpec == Spec /\ Fairness

-----------------------------------------------------------------------------
TypeOK ==
  /\ row \in {"none", "uploading", "done"} /\ given \in 0..GivenBound
  /\ marked \in [Keys -> SUBSET Chunks] /\ locks \in SUBSET Chunks
  /\ parts \in [Chunks -> Data]
  /\ temp \in Inodes \cup {None} /\ final \in Inodes \cup {None}
  /\ content \in [Inodes -> [Chunks -> Data]]
  /\ pc \in [Slots -> Steps] /\ req \in [Slots -> Request]
  /\ overlapped \in BOOLEAN /\ failures \in 0..MaxFailures

Intact == final # None /\ \A c \in Chunks : content[final][c] = "good"

\* The file under the final name of a row that is done is the one whose hash
\* was verified (upload.go: what is hashed is what was read, the file itself
\* is not), unless two requests have merged at the same time. A uf_id a user
\* has been given names such a row: no request that fails later takes it back.
IntactUnlessOverlapped ==
  /\ row = "done" /\ ~overlapped => Intact
  /\ given > 0 => row = "done"

\* A client that sends every chunk again and again gets the file complete,
\* whatever a request that failed, was late or crashed has left behind.
UploadCompletes == <>[](row = "done")
=============================================================================
