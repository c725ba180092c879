------------------------------- MODULE Upload -------------------------------
(***************************************************************************)
(* The upload protocol on top of the tree: presign, the browser's PUT to   *)
(* object storage, and complete (UploadService, BlobRepository and what    *)
(* StorageService asks of the store).  The tree's own requests run beside  *)
(* it; they take no lock, and complete takes the room's advisory lock.     *)
(*                                                                         *)
(* complete is one uploader's sequence of steps: read the blob, HEAD the   *)
(* object, then a transaction that locks the room, checks the quota and    *)
(* flips the blob, resolves the parent, and inserts the file.  What the    *)
(* transaction writes is seen by others when it commits, so the flip and   *)
(* the insert take effect in the last step together.  Any number of calls  *)
(* may name the same blob: a client that lost an answer asks again.        *)
(***************************************************************************)
EXTENDS NodeTree

CONSTANTS
  Uploader,      \* complete requests in flight
  Quota,         \* DATA_ROOM_QUOTA_BYTES
  Attempts,      \* AUTO_SUFFIX_ATTEMPTS
  MaxBatch,      \* the most files one presign may ask for
  UploadName,    \* the names clients upload under
  Suffixed,      \* Suffixed[name][i]: suffixedName, up to lower()
  NoUploader,    \* nobody holds the advisory lock
  RePut          \* a client may PUT again to a URL it has used

ASSUME QuotaAssumption == Quota \in Nat
ASSUME AttemptsAssumption == Attempts \in Nat \ {0}
ASSUME SuffixedAssumption ==
  /\ UploadName \subseteq Name
  /\ Suffixed \in [UploadName -> [1..Attempts - 1 -> Name]]
ASSUME FitsStart == \A start \in StartRows :
  /\ Weight(start, Live(start)).size <= Quota
  /\ \A n \in DOMAIN start : start[n].type = "FILE" <=> start[n].blob # NoBlob
  /\ \A n \in DOMAIN start : start[n].type = "FILE" => start[n].size > 0
  /\ \A n, m \in DOMAIN start :
       start[n].blob # NoBlob /\ start[n].blob = start[m].blob => n = m
ASSUME BlobAssumption == NoBlob \notin Blob
ASSUME LockAssumption == NoUploader \notin Uploader

VARIABLES
  blobs,     \* blob id -> its row in the blobs table
  objects,   \* blob id -> what storage holds under its key
  lock,      \* who holds the room's advisory lock
  up         \* what each uploader holds between two steps

uploadVars == <<blobs, objects, lock, up>>

allVars == <<rows, room, req, blobs, objects, lock, up>>

(* A blob that has no row yet, or a row of the blobs table. *)
NoRow == [status |-> "NONE", size |-> 0]
BlobRow == {NoRow} \cup [status : {"PENDING", "READY"}, size : 0..MaxFileSize]

(* An object a client can PUT: the presigned URL enforces neither limit, so *)
(* it may be empty or one byte too long.                                   *)
Missing == [state |-> "missing", size |-> 0]
Removed == [state |-> "removed", size |-> 0]
Object == [state : {"stored"}, size : 0..MaxFileSize + 1]

Ready == [phase |-> "idle"]

Completing ==
  [phase : {"head", "discard", "begin", "parent", "insert"}, blob : Blob,
   parent : Node \cup {Root}, name : UploadName, size : 0..MaxFileSize,
   attempt : 0..Attempts - 1, path : Seq(Node)]

UploadTypeOK ==
  /\ blobs \in [Blob -> BlobRow]
  /\ objects \in [Blob -> Object \cup {Missing, Removed}]
  /\ lock \in Uploader \cup {NoUploader}
  /\ up \in [Uploader -> Completing \cup {Ready}]

FilesOn(c) == {n \in DOMAIN rows : rows[n].blob = c}

UploadInit ==
  /\ Init
  /\ blobs = [c \in Blob |->
                IF FilesOn(c) = {} THEN NoRow
                ELSE [status |-> "READY",
                      size |-> rows[CHOOSE n \in FilesOn(c) : TRUE].size]]
  /\ objects = [c \in Blob |->
                  IF FilesOn(c) = {} THEN Missing
                  ELSE [state |-> "stored", size |-> blobs[c].size]]
  /\ lock = NoUploader
  /\ up = [u \in Uploader |-> Ready]

Holding(u, r) == up' = [up EXCEPT ![u] = r]

Done(u) == Holding(u, Ready)

-----------------------------------------------------------------------------
(* presign: the whole batch is refused, or every file of it gets a blob.   *)
(* The check is advisory: it compares what the clients claim.  The parent  *)
(* and the room are read before the blobs are written, which is one step   *)
(* here: a PENDING blob names no parent and counts in no room, so it might *)
(* as well have been written when they were read.                          *)

Claimed(batch, claim) ==
  Cardinality({c \in batch \X (1..MaxFileSize) : c[2] <= claim[c[1]]})

Presign(batch, parent, claim) ==
  /\ batch # {} /\ Cardinality(batch) <= MaxBatch
  /\ \A c \in batch : blobs[c] = NoRow
  /\ IsLocation(rows, parent)
  /\ room.size + Claimed(batch, claim) <= Quota
  /\ blobs' = [c \in Blob |->
                 IF c \in batch THEN [status |-> "PENDING", size |-> claim[c]]
                 ELSE blobs[c]]
  /\ UNCHANGED <<rows, room, req, objects, lock, up>>

(* The browser PUTs to storage and not to the API.  The web client sends   *)
(* each file once; the URL would let it send again.                        *)
Put(c, object) ==
  /\ blobs[c] # NoRow
  /\ RePut \/ objects[c] = Missing
  /\ objects' = [objects EXCEPT ![c] = object]
  /\ UNCHANGED <<rows, room, req, blobs, lock, up>>

-----------------------------------------------------------------------------
(* complete *)

(* A READY blob is answered from the tree and the request ends here. *)
CompleteRead(u, c, parent, name) ==
  /\ up[u] = Ready
  /\ blobs[c].status = "PENDING"
  /\ Holding(u, [phase |-> "head", blob |-> c, parent |-> parent, name |-> name,
                 size |-> 0, attempt |-> 0, path |-> <<>>])
  /\ UNCHANGED <<rows, room, req, blobs, objects, lock>>

(* describeViolation: the two limits, on what storage says.  An object of  *)
(* another content type is left out: it is refused as an empty one is.     *)
Acceptable(object) == object.size \in 1..MaxFileSize

(* The size complete goes on with is storage's. *)
CompleteHead(u) ==
  /\ up[u].phase = "head"
  /\ LET object == objects[up[u].blob]
     IN  /\ object.state = "stored" /\ Acceptable(object)
         /\ Holding(u, [up[u] EXCEPT !.phase = "begin", !.size = object.size])
  /\ UNCHANGED <<rows, room, req, blobs, objects, lock>>

(* Nothing there is a 422; something unacceptable is deleted first. *)
CompleteHeadRefused(u) ==
  /\ up[u].phase = "head"
  /\ LET object == objects[up[u].blob]
     IN  \/ object.state # "stored" /\ Done(u)
         \/ /\ object.state = "stored" /\ ~Acceptable(object)
            /\ Holding(u, [up[u] EXCEPT !.phase = "discard"])
  /\ UNCHANGED <<rows, room, req, blobs, objects, lock>>

CompleteDiscard(u) ==
  /\ up[u].phase = "discard"
  /\ objects' = [objects EXCEPT ![up[u].blob] = Removed]
  /\ Done(u)
  /\ UNCHANGED <<rows, room, req, blobs, lock>>

Fits(u) == room.size + up[u].size <= Quota

(* A flip without AND status = 'PENDING'. *)
FlippableAlways(c) == blobs[c] # NoRow

(* markReadyIfPending finds the row, and holds it until the commit. *)
Flippable(c) == blobs[c].status = "PENDING"

(* pg_advisory_xact_lock left out: the transactions overlap. *)
NoLock == TRUE

LockFree == lock = NoUploader

CompleteBegin(u) ==
  /\ up[u].phase = "begin"
  /\ LockFree
  /\ Fits(u)
  /\ Flippable(up[u].blob)
  /\ lock' = u
  /\ Holding(u, [up[u] EXCEPT !.phase = "parent"])
  /\ UNCHANGED <<rows, room, req, blobs, objects>>

(* Over quota: 422.  Completed by another call: answered from the tree. *)
CompleteBeginRefused(u) ==
  /\ up[u].phase = "begin"
  /\ LockFree
  /\ ~(Fits(u) /\ Flippable(up[u].blob))
  /\ Done(u)
  /\ UNCHANGED <<rows, room, req, blobs, objects, lock>>

(* The lock stays with a transaction that has failed. *)
LockKept(u) == lock

(* pg_advisory_xact_lock is released by commit and by rollback alike. *)
LockAfter(u) == IF lock = u THEN NoUploader ELSE lock

CompleteParent(u) ==
  /\ up[u].phase = "parent"
  /\ IsLocation(rows, up[u].parent)
  /\ Holding(u, [up[u] EXCEPT !.phase = "insert",
                              !.path = LocationPath(rows, up[u].parent)])
  /\ UNCHANGED <<rows, room, req, blobs, objects, lock>>

(* The parent was deleted while the bytes were on their way: 410. *)
CompleteParentGone(u) ==
  /\ up[u].phase = "parent"
  /\ ~IsLocation(rows, up[u].parent)
  /\ lock' = LockAfter(u)
  /\ Done(u)
  /\ UNCHANGED <<rows, room, req, blobs, objects>>

FileName(r) == IF r.attempt = 0 THEN r.name ELSE Suffixed[r.name][r.attempt]

(* The delta with the file itself left out. *)
FileDeltaOfBytes(r) == [size |-> r.size, files |-> 0, folders |-> 0]

FileDelta(r) == [size |-> r.size, files |-> 1, folders |-> 0]

(* A flip that leaves the size the client claimed. *)
FlipAsClaimed(r) == [blobs EXCEPT ![r.blob].status = "READY"]

Flip(r) == [blobs EXCEPT ![r.blob] = [status |-> "READY", size |-> r.size]]

CompleteInsert(u) ==
  /\ up[u].phase = "insert"
  /\ LET r == up[u]
     IN  /\ \E n \in Node \ DOMAIN rows :
              LET row == NewRow("FILE", r.parent, FileName(r),
                                Append(r.path, n), r.size, r.blob)
              IN  /\ ~NameTaken(rows, n, r.parent, FileName(r))
                  /\ InsertCharged(n, row, r.path, FileDelta(r))
         /\ blobs' = Flip(r)
  /\ lock' = LockAfter(u)
  /\ Done(u)
  /\ UNCHANGED <<req, objects>>

(* One attempt too many. *)
MayRetryAgain(r) == r.attempt < Attempts

MayRetry(r) == r.attempt + 1 < Attempts

(* 23505: the transaction is rolled back, flip and all, and run again from *)
(* the top under the next name, until the attempts are used up.            *)
CompleteCollides(u) ==
  /\ up[u].phase = "insert"
  /\ LET r == up[u]
     IN  /\ \E n \in Node \ DOMAIN rows : NameTaken(rows, n, r.parent, FileName(r))
         /\ IF MayRetry(r)
            THEN Holding(u, [r EXCEPT !.phase = "begin", !.attempt = @ + 1,
                                      !.path = <<>>])
            ELSE Done(u)
  /\ lock' = LockAfter(u)
  /\ UNCHANGED <<rows, room, req, blobs, objects>>

(* The request dies, at any point, and its transaction with it. *)
UploadFail(u) ==
  /\ up[u] # Ready
  /\ lock' = LockAfter(u)
  /\ Done(u)
  /\ UNCHANGED <<rows, room, req, blobs, objects>>

(* What a complete that is under way does next, left alone. *)
Proceed(u) ==
  \/ CompleteHead(u)
  \/ CompleteHeadRefused(u)
  \/ CompleteDiscard(u)
  \/ CompleteParent(u)
  \/ CompleteParentGone(u)
  \/ CompleteInsert(u)
  \/ CompleteCollides(u)

(* What it does once it has the lock. *)
TakeLock(u) == CompleteBegin(u) \/ CompleteBeginRefused(u)

CompleteStep(u) ==
  \/ \E c \in Blob, parent \in Node \cup {Root}, name \in UploadName :
       CompleteRead(u, c, parent, name)
  \/ TakeLock(u)
  \/ Proceed(u)
  \/ UploadFail(u)

UploadNext ==
  \/ Next /\ UNCHANGED uploadVars
  \/ \E batch \in SUBSET Blob, parent \in Node \cup {Root} :
       \E claim \in [batch -> 1..MaxFileSize] : Presign(batch, parent, claim)
  \/ \E c \in Blob, object \in Object : Put(c, object)
  \/ \E u \in Uploader : CompleteStep(u)

UploadSpec == UploadInit /\ [][UploadNext]_allVars

(* Statements end, and Postgres hands the advisory lock to its waiters in  *)
(* the order they came: a waiter that sees the lock free again and again   *)
(* gets it.  Nothing is assumed of UploadFail, of the clients or of the    *)
(* tree's requests.                                                        *)
UploadFairness ==
  \A u \in Uploader :
    WF_allVars(Proceed(u)) /\ SF_allVars(TakeLock(u))

FairUploadSpec == UploadSpec /\ UploadFairness

-----------------------------------------------------------------------------
(* Properties *)

(* The room never holds more than its quota, whatever uploads run side by  *)
(* side: the reason for the advisory lock ("two concurrent completes that  *)
(* each read 190 MB used", node.repository.ts, lockDataRoom).              *)
WithinQuota == Weight(rows, Live(rows)).size <= Quota

(* A blob is READY exactly when a file was inserted for it, and no blob    *)
(* has two: complete commits the flip and the insert together, once,       *)
(* however often it is called ("two nodes on one blob", blob.repository).  *)
OneFilePerReadyBlob ==
  \A c \in Blob :
    Cardinality(FilesOn(c)) = IF blobs[c].status = "READY" THEN 1 ELSE 0

(* Behind every file, live or deleted, storage holds the object it was     *)
(* inserted for, with the size that was charged to the room.               *)
StoredBehindEveryFile ==
  \A n \in DOMAIN rows : rows[n].type = "FILE" =>
    /\ objects[rows[n].blob].state = "stored"
    /\ objects[rows[n].blob].size = rows[n].size
    /\ blobs[rows[n].blob].size = rows[n].size

(* A complete that gets as far as the lock is answered, however many other *)
(* uploads it queues behind, collides with or fails beside.                *)
EveryCompleteEnds ==
  \A u \in Uploader : up[u].phase # "idle" ~> up[u].phase = "idle"
=============================================================================
