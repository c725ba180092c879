---------------------------- MODULE UploadProofs ----------------------------
(***************************************************************************)
(* The quota, and one file per blob, for any number of uploaders, blobs    *)
(* and tree requests, any quota and any number of attempts.                *)
(*                                                                         *)
(* The tree's own requests take no lock.  They cannot fill the room: a     *)
(* folder weighs nothing, a delete gives space back, and a move charges    *)
(* the room what it takes off.  So what a complete has read under the      *)
(* lock, that its file fits, holds until it inserts the file.              *)
(***************************************************************************)
EXTENDS Upload, NodeTreeProofs

InTransaction(u) == up[u].phase \in {"parent", "insert"}

(* At most one complete is past the lock. *)
LockHeld == \A u \in Uploader : InTransaction(u) => lock = u

QuotaKept ==
  /\ room.size <= Quota
  /\ \A u \in Uploader : InTransaction(u) => room.size + up[u].size <= Quota

(* The blob that a transaction found PENDING stays so: only a transaction  *)
(* flips it.                                                               *)
PendingHeld ==
  \A u \in Uploader : InTransaction(u) => blobs[up[u].blob].status = "PENDING"

FileRows == \A n \in DOMAIN rows : rows[n].type = "FILE" <=> rows[n].blob # NoBlob

ReadyHasFile ==
  /\ \A n, m \in DOMAIN rows : rows[n].blob # NoBlob /\ rows[n].blob = rows[m].blob => n = m
  /\ \A c \in Blob : blobs[c].status = "READY" <=> \E n \in DOMAIN rows : rows[n].blob = c

UploadInv ==
  IInv /\ UploadTypeOK /\ LockHeld /\ QuotaKept /\ PendingHeld /\ FileRows /\ ReadyHasFile

-----------------------------------------------------------------------------
(* The inductive invariant, step by step *)

(* The phase of an uploader says what it holds. *)
LEMMA CompletingKind ==
  ASSUME UploadTypeOK, NEW u \in Uploader, up[u].phase # "idle"
  PROVE  up[u] \in Completing
BY DEF UploadTypeOK, Ready

(* The name a file is inserted under is one of the names. *)
LEMMA FileNameType ==
  ASSUME NEW r \in Completing
  PROVE  FileName(r) \in Name
<1>1. r.name \in UploadName /\ r.attempt \in 0..Attempts - 1
  BY DEF Completing
<1>2. CASE r.attempt = 0
  BY <1>1, <1>2, SuffixedAssumption DEF FileName
<1>3. CASE r.attempt # 0
  <2>1. Suffixed[r.name] \in [1..Attempts - 1 -> Name]
    BY <1>1, SuffixedAssumption
  <2>2. r.attempt \in 1..Attempts - 1
    BY <1>1, <1>3, AttemptsAssumption
  <2> QED
    BY <1>3, <2>1, <2>2 DEF FileName
<1> QED
  BY <1>2, <1>3

(* A step of one call that writes neither the tree nor the blobs keeps the *)
(* invariant, if it is past the lock only when it may be.                  *)
LEMMA CallKeeps ==
  ASSUME UploadInv, UNCHANGED <<rows, room, req, blobs>>,
         objects' \in [Blob -> Object \cup {Missing, Removed}],
         NEW u \in Uploader, NEW r \in Completing \cup {Ready}, Holding(u, r),
         lock' \in Uploader \cup {NoUploader},
         \A v \in Uploader \ {u} : InTransaction(v) => lock' = v,
         r.phase \in {"parent", "insert"} =>
           /\ lock' = u /\ room.size + r.size <= Quota
           /\ blobs[r.blob].status = "PENDING"
  PROVE  UploadInv'
<1>1. up' = [up EXCEPT ![u] = r] /\ up \in [Uploader -> Completing \cup {Ready}]
  BY DEF Holding, UploadInv, UploadTypeOK
<1>2. up' \in [Uploader -> Completing \cup {Ready}]
  BY <1>1
<1>3. up'[u] = r /\ \A v \in Uploader \ {u} : up'[v] = up[v]
  BY <1>1
<1>4. UploadTypeOK'
  BY <1>2 DEF UploadInv, UploadTypeOK
<1>5. IInv'
  BY StutterKeeps DEF UploadInv, vars
<1>6. LockHeld'
  BY <1>3 DEF UploadInv, LockHeld, InTransaction
<1>7. QuotaKept'
  BY <1>3 DEF UploadInv, QuotaKept, InTransaction
<1>8. PendingHeld'
  BY <1>3 DEF UploadInv, PendingHeld, InTransaction
<1>9. FileRows' /\ ReadyHasFile'
  BY DEF UploadInv, FileRows, ReadyHasFile
<1> QED
  BY <1>4, <1>5, <1>6, <1>7, <1>8, <1>9 DEF UploadInv

(* A call that ends, with or without the lock, keeps the invariant. *)
LEMMA EndKeeps ==
  ASSUME UploadInv, UNCHANGED <<rows, room, req, blobs>>,
         objects' \in [Blob -> Object \cup {Missing, Removed}],
         NEW u \in Uploader, NEW r \in Completing \cup {Ready}, Holding(u, r),
         r.phase \notin {"parent", "insert"},
         lock' = lock \/ lock' = LockAfter(u)
  PROVE  UploadInv'
<1>1. lock' \in Uploader \cup {NoUploader}
  BY DEF UploadInv, UploadTypeOK, LockAfter
<1>2. \A v \in Uploader \ {u} : InTransaction(v) => lock' = v
  BY DEF UploadInv, LockHeld, LockAfter
<1> QED
  BY <1>1, <1>2, CallKeeps

(* What the insert of a file leaves in the table. *)
LEMMA InsertedFile ==
  ASSUME IsTable(rows), NEW r \in Completing, NEW n \in Node \ DOMAIN rows,
         InsertCharged(n, NewRow("FILE", r.parent, FileName(r), Append(r.path, n), r.size, r.blob),
                       r.path, FileDelta(r))
  PROVE  /\ DOMAIN rows' = DOMAIN rows \cup {n}
         /\ rows'[n].type = "FILE" /\ rows'[n].blob = r.blob /\ rows'[n].size = r.size
         /\ \A m \in DOMAIN rows : /\ rows'[m].type = rows[m].type
                                  /\ rows'[m].blob = rows[m].blob
                                  /\ rows'[m].size = rows[m].size
<1> DEFINE row == NewRow("FILE", r.parent, FileName(r), Append(r.path, n), r.size, r.blob)
           t == Insert(rows, n, row)
<1>1. row \in Row /\ row.type = "FILE" /\ row.blob = r.blob /\ row.size = r.size
  <2>1. /\ r.blob \in Blob /\ r.parent \in Node \cup {Root} /\ r.size \in 0..MaxFileSize
        /\ Append(r.path, n) \in Seq(Node) /\ FileName(r) \in Name
    BY FileNameType DEF Completing
  <2> QED
    BY <2>1 DEF NewRow, Row
<1> HIDE DEF row
<1>2. IsTable(t) /\ DOMAIN t = DOMAIN rows \cup {n}
  BY <1>1, InsertTable
<1>3. t[n] = row /\ \A m \in DOMAIN rows : t[m] = rows[m]
  BY DEF Insert
<1>4. rows' = Charge(t, AncestorIds(r.path), FileDelta(r))
  BY DEF InsertCharged, row
<1> HIDE DEF t
<1>5. SameFiles(t, rows') /\ DOMAIN rows' = DOMAIN t
  BY <1>2, <1>4, ChargeSameFiles
<1> QED
  BY <1>1, <1>2, <1>3, <1>5 DEF SameFiles

(* The insert: the one step that makes a file and flips its blob. *)
LEMMA InsertKeeps ==
  ASSUME UploadInv, NEW u \in Uploader, CompleteInsert(u)
  PROVE  UploadInv'
<1> DEFINE r == up[u]
<1>1. /\ IsTable(rows) /\ room \in Delta /\ RoomTotals /\ UploadTypeOK
      /\ req \in [Worker -> Request]
  BY DEF UploadInv, IInv, TypeOK
<1>2. r \in Completing /\ r.phase = "insert" /\ InTransaction(u)
  BY <1>1, CompletingKind DEF CompleteInsert, InTransaction
<1>3. /\ r.blob \in Blob /\ r.parent \in Node \cup {Root} /\ r.size \in 0..MaxFileSize
      /\ r.path \in Seq(Node) /\ FileName(r) \in Name
  BY <1>2, FileNameType DEF Completing
<1>4. PICK n \in Node \ DOMAIN rows :
        InsertCharged(n, NewRow("FILE", r.parent, FileName(r), Append(r.path, n), r.size, r.blob),
                      r.path, FileDelta(r))
  BY DEF CompleteInsert
<1> DEFINE row == NewRow("FILE", r.parent, FileName(r), Append(r.path, n), r.size, r.blob)
           d == FileDelta(r)
<1>5. row \in Row /\ ~row.deleted /\ row.type = "FILE" /\ row.blob = r.blob
      /\ row.size = r.size
  <2>1. Append(r.path, n) \in Seq(Node)
    BY <1>3
  <2> QED
    BY <1>3, <2>1 DEF NewRow, Row
<1>6. d \in Delta /\ d = RowDelta(row) /\ d.size = r.size
  BY <1>3, SizeAssumption DEF FileDelta, Delta, RowDelta, NewRow
<1>7. InsertCharged(n, row, r.path, d) /\ n \in Node /\ n \notin DOMAIN rows
  BY <1>4
<1> HIDE DEF row, d
<1>8. IsTable(rows') /\ room' \in Delta /\ RoomTotals'
  BY <1>1, <1>5, <1>6, <1>7, InsertChargedKeeps
<1>9. IInv'
  BY <1>1, <1>8 DEF CompleteInsert, IInv, TypeOK
<1>10. /\ blobs' = [blobs EXCEPT ![r.blob] = [status |-> "READY", size |-> r.size]]
       /\ up' = [up EXCEPT ![u] = Ready] /\ lock' = LockAfter(u) /\ objects' = objects
  BY DEF CompleteInsert, Flip, Done, Holding
<1>11. UploadTypeOK'
  <2>1. [status |-> "READY", size |-> r.size] \in BlobRow
    BY <1>3 DEF BlobRow
  <2>2. lock' \in Uploader \cup {NoUploader}
    BY <1>1, <1>10 DEF UploadTypeOK, LockAfter
  <2> QED
    BY <1>1, <1>10, <2>1, <2>2 DEF UploadTypeOK
<1>12. lock = u /\ room.size + r.size <= Quota /\ blobs[r.blob].status = "PENDING"
  BY <1>2 DEF UploadInv, LockHeld, QuotaKept, PendingHeld
<1>13. \A v \in Uploader : up'[v] = Ready \/ (v # u /\ up'[v] = up[v])
  BY <1>1, <1>10 DEF UploadTypeOK
<1>14. \A v \in Uploader : ~InTransaction(v)'
  BY <1>12, <1>13 DEF UploadInv, LockHeld, InTransaction, Ready
<1>15. LockHeld' /\ PendingHeld'
  BY <1>14 DEF LockHeld, PendingHeld
<1>16. QuotaKept'
  <2>1. room' = ChargeRoom(room, d)
    BY <1>7 DEF InsertCharged
  <2>2. room'.size <= Quota
    BY <1>6, <1>12, <2>1 DEF ChargeRoom
  <2> QED
    BY <1>14, <2>2 DEF QuotaKept
<1>17. /\ DOMAIN rows' = DOMAIN rows \cup {n}
       /\ rows'[n].type = "FILE" /\ rows'[n].blob = r.blob /\ rows'[n].size = r.size
       /\ \A m \in DOMAIN rows : /\ rows'[m].type = rows[m].type
                                /\ rows'[m].blob = rows[m].blob
                                /\ rows'[m].size = rows[m].size
  BY <1>1, <1>2, <1>4, InsertedFile
<1>18. \A m \in DOMAIN rows : rows[m].blob # r.blob
  BY <1>3, <1>12 DEF UploadInv, ReadyHasFile
<1>19. FileRows'
  BY <1>3, <1>17, BlobAssumption DEF UploadInv, FileRows
<1>20. ReadyHasFile'
  <2>1. \A c \in Blob : blobs'[c].status = "READY" <=> (c = r.blob \/ blobs[c].status = "READY")
    BY <1>1, <1>3, <1>10 DEF UploadTypeOK
  <2>2. \A c \in Blob :
          (\E m \in DOMAIN rows' : rows'[m].blob = c)
            <=> (c = r.blob \/ \E m \in DOMAIN rows : rows[m].blob = c)
    BY <1>17
  <2>3. \A m, k \in DOMAIN rows' :
          rows'[m].blob # NoBlob /\ rows'[m].blob = rows'[k].blob => m = k
    BY <1>17, <1>18 DEF UploadInv, ReadyHasFile
  <2> QED
    BY <2>1, <2>2, <2>3 DEF UploadInv, ReadyHasFile
<1> QED
  BY <1>9, <1>11, <1>15, <1>16, <1>19, <1>20 DEF UploadInv

(* No step of a complete breaks the inductive invariant. *)
LEMMA CompleteKeeps ==
  ASSUME UploadInv, NEW u \in Uploader, CompleteStep(u)
  PROVE  UploadInv'
<1>1. /\ UploadTypeOK /\ LockHeld /\ IsTable(rows)
      /\ objects \in [Blob -> Object \cup {Missing, Removed}]
      /\ Ready \in Completing \cup {Ready} /\ Ready.phase = "idle"
  BY DEF UploadInv, UploadTypeOK, IInv, TypeOK, Ready
<1>2. ASSUME NEW c \in Blob, NEW parent \in Node \cup {Root}, NEW name \in UploadName,
             CompleteRead(u, c, parent, name)
      PROVE  UploadInv'
  <2> DEFINE r == [phase |-> "head", blob |-> c, parent |-> parent, name |-> name,
                   size |-> 0, attempt |-> 0, path |-> <<>>]
  <2>1. 0 \in 0..MaxFileSize /\ 0 \in 0..Attempts - 1 /\ <<>> \in Seq(Node)
    BY SizeAssumption, AttemptsAssumption
  <2>2. r \in Completing /\ r.phase = "head"
    BY <2>1 DEF Completing
  <2>3. Holding(u, r) /\ UNCHANGED <<rows, room, req, blobs, objects, lock>>
    BY <1>2 DEF CompleteRead
  <2> HIDE DEF r
  <2> QED
    BY <1>1, <2>2, <2>3, EndKeeps
<1>3. CASE CompleteHead(u)
  <2> DEFINE r == [up[u] EXCEPT !.phase = "begin", !.size = objects[up[u].blob].size]
  <2>1. up[u] \in Completing
    BY <1>1, <1>3, CompletingKind DEF CompleteHead
  <2>2. objects[up[u].blob].size \in 0..MaxFileSize
    BY <1>3, SizeAssumption DEF CompleteHead, Acceptable
  <2>3. r \in Completing /\ r.phase = "begin"
    BY <2>1, <2>2 DEF Completing
  <2>4. Holding(u, r) /\ UNCHANGED <<rows, room, req, blobs, objects, lock>>
    BY <1>3 DEF CompleteHead
  <2> HIDE DEF r
  <2> QED
    BY <1>1, <2>3, <2>4, EndKeeps
<1>4. CASE CompleteHeadRefused(u)
  <2> DEFINE r == [up[u] EXCEPT !.phase = "discard"]
  <2>1. up[u] \in Completing
    BY <1>1, <1>4, CompletingKind DEF CompleteHeadRefused
  <2>2. r \in Completing /\ r.phase = "discard"
    BY <2>1 DEF Completing
  <2>3. /\ Holding(u, r) \/ Holding(u, Ready)
        /\ UNCHANGED <<rows, room, req, blobs, objects, lock>>
    BY <1>4 DEF CompleteHeadRefused, Done
  <2> HIDE DEF r
  <2> QED
    BY <1>1, <2>2, <2>3, EndKeeps
<1>5. CASE CompleteDiscard(u)
  <2>1. objects' \in [Blob -> Object \cup {Missing, Removed}]
    BY <1>1, <1>5 DEF CompleteDiscard
  <2> QED
    BY <1>1, <1>5, <2>1, EndKeeps DEF CompleteDiscard, Done
<1>6. CASE CompleteBegin(u)
  <2> DEFINE r == [up[u] EXCEPT !.phase = "parent"]
  <2>1. up[u] \in Completing
    BY <1>1, <1>6, CompletingKind DEF CompleteBegin
  <2>2. /\ r \in Completing /\ r.phase = "parent" /\ r.size = up[u].size
        /\ r.blob = up[u].blob
    BY <2>1 DEF Completing
  <2>3. /\ Holding(u, r) /\ UNCHANGED <<rows, room, req, blobs, objects>>
        /\ lock = NoUploader /\ lock' = u
        /\ room.size + r.size <= Quota /\ blobs[r.blob].status = "PENDING"
    BY <1>6, <2>2 DEF CompleteBegin, LockFree, Fits, Flippable
  <2>4. \A v \in Uploader \ {u} : ~InTransaction(v)
    BY <1>1, <2>3, LockAssumption DEF LockHeld
  <2> HIDE DEF r
  <2> QED
    BY <1>1, <2>2, <2>3, <2>4, CallKeeps
<1>7. CASE CompleteBeginRefused(u)
  BY <1>1, <1>7, EndKeeps DEF CompleteBeginRefused, Done
<1>8. CASE CompleteParent(u)
  <2> DEFINE path == LocationPath(rows, up[u].parent)
             r == [up[u] EXCEPT !.phase = "insert", !.path = path]
  <2>1. up[u] \in Completing /\ InTransaction(u)
    BY <1>1, <1>8, CompletingKind DEF CompleteParent, InTransaction
  <2>2. path \in Seq(Node)
    BY <1>1, <1>8, LocationPathType DEF CompleteParent
  <2>3. Holding(u, r) /\ UNCHANGED <<rows, room, req, blobs, objects, lock>>
    BY <1>8 DEF CompleteParent
  <2> HIDE DEF path
  <2>4. /\ r \in Completing /\ r.size = up[u].size /\ r.blob = up[u].blob
    BY <2>1, <2>2 DEF Completing
  <2> HIDE DEF r
  <2>5. /\ lock' = u /\ room.size + r.size <= Quota /\ blobs[r.blob].status = "PENDING"
        /\ \A v \in Uploader \ {u} : InTransaction(v) => lock' = v
    BY <2>1, <2>3, <2>4 DEF UploadInv, LockHeld, QuotaKept, PendingHeld
  <2>6. lock' \in Uploader \cup {NoUploader}
    BY <2>5
  <2> QED
    BY <1>1, <2>3, <2>4, <2>5, <2>6, CallKeeps
<1>9. CASE CompleteParentGone(u)
  BY <1>1, <1>9, EndKeeps DEF CompleteParentGone, Done
<1>10. CASE CompleteInsert(u)
  BY <1>10, InsertKeeps
<1>11. CASE CompleteCollides(u)
  <2> DEFINE r == [up[u] EXCEPT !.phase = "begin", !.attempt = @ + 1, !.path = <<>>]
  <2>1. up[u] \in Completing
    BY <1>1, <1>11, CompletingKind DEF CompleteCollides
  <2>2. ASSUME MayRetry(up[u])
        PROVE  r \in Completing /\ r.phase = "begin"
    <3>1. up[u].attempt + 1 \in 0..Attempts - 1
      BY <2>1, <2>2, AttemptsAssumption DEF Completing, MayRetry
    <3>2. <<>> \in Seq(Node)
      OBVIOUS
    <3> QED
      BY <2>1, <3>1, <3>2 DEF Completing
  <2>3. /\ IF MayRetry(up[u]) THEN Holding(u, r) ELSE Holding(u, Ready)
        /\ UNCHANGED <<rows, room, req, blobs, objects>> /\ lock' = LockAfter(u)
    BY <1>11 DEF CompleteCollides, Done
  <2> HIDE DEF r
  <2> QED
    BY <1>1, <2>2, <2>3, EndKeeps
<1>12. CASE UploadFail(u)
  BY <1>1, <1>12, EndKeeps DEF UploadFail, Done
<1> QED
  BY <1>2, <1>3, <1>4, <1>5, <1>6, <1>7, <1>8, <1>9, <1>10, <1>11, <1>12
  DEF CompleteStep, TakeLock, Proceed

(* No request of the tree breaks it. *)
LEMMA TreeKeeps ==
  ASSUME UploadInv, NEW w \in Worker, TreeStep(w), UNCHANGED uploadVars
  PROVE  UploadInv'
<1>1. IInv' /\ SameFiles(rows, rows') /\ room'.size <= room.size
  BY TreeStepKeeps, TreeStepSpares DEF UploadInv
<1>2. room'.size \in Int /\ room.size \in Int
  BY <1>1 DEF UploadInv, IInv, TypeOK, Delta
<1>3. UploadTypeOK' /\ LockHeld' /\ PendingHeld'
  BY DEF UploadInv, uploadVars, UploadTypeOK, LockHeld, PendingHeld, InTransaction
<1>4. QuotaKept'
  <2>1. \A u \in Uploader : InTransaction(u) => up[u].size \in Int
    BY CompletingKind, SizeAssumption DEF UploadInv, InTransaction, Completing
  <2> QED
    BY <1>1, <1>2, <2>1, QuotaAssumption
    DEF UploadInv, QuotaKept, uploadVars, InTransaction
<1>5. FileRows'
  BY <1>1 DEF UploadInv, FileRows, SameFiles
<1>6. ReadyHasFile'
  <2>1. blobs' = blobs
    BY DEF uploadVars
  <2>2. \A n \in DOMAIN rows' :
          rows'[n].blob # NoBlob => n \in DOMAIN rows /\ rows'[n].blob = rows[n].blob
    BY <1>1 DEF SameFiles
  <2>3. \A n \in DOMAIN rows : n \in DOMAIN rows' /\ rows'[n].blob = rows[n].blob
    BY <1>1 DEF SameFiles
  <2>4. \A c \in Blob :
          (\E n \in DOMAIN rows' : rows'[n].blob = c) <=> (\E n \in DOMAIN rows : rows[n].blob = c)
    BY <2>2, <2>3, BlobAssumption
  <2> QED
    BY <2>1, <2>2, <2>4 DEF UploadInv, ReadyHasFile
<1> QED
  BY <1>1, <1>3, <1>4, <1>5, <1>6 DEF UploadInv

(* Presigned blobs are new: none of them is a file's. *)
LEMMA PresignKeeps ==
  ASSUME UploadInv, NEW batch \in SUBSET Blob, NEW parent,
         NEW claim \in [batch -> 1..MaxFileSize], Presign(batch, parent, claim)
  PROVE  UploadInv'
<1>1. UNCHANGED <<rows, room, req, objects, lock, up>>
  BY DEF Presign
<1>2. /\ blobs' \in [Blob -> BlobRow]
      /\ \A c \in Blob : IF c \in batch
                         THEN blobs[c].status = "NONE" /\ blobs'[c].status = "PENDING"
                         ELSE blobs'[c] = blobs[c]
  <2>1. blobs' = [c \in Blob |->
                   IF c \in batch THEN [status |-> "PENDING", size |-> claim[c]]
                   ELSE blobs[c]]
    BY DEF Presign
  <2>2. \A c \in batch : [status |-> "PENDING", size |-> claim[c]] \in BlobRow
    BY SizeAssumption DEF BlobRow
  <2>3. \A c \in batch : blobs[c].status = "NONE"
    BY DEF Presign, NoRow
  <2>4. blobs \in [Blob -> BlobRow]
    BY DEF UploadInv, UploadTypeOK
  <2> QED
    BY <2>1, <2>2, <2>3, <2>4
<1>3. UploadTypeOK' /\ LockHeld' /\ QuotaKept' /\ FileRows'
  BY <1>1, <1>2
  DEF UploadInv, UploadTypeOK, LockHeld, QuotaKept, InTransaction, FileRows
<1>4. IInv'
  BY <1>1, StutterKeeps DEF UploadInv, vars
<1>5. PendingHeld'
  <2>1. \A u \in Uploader : InTransaction(u) => up[u].blob \in Blob
    BY CompletingKind DEF UploadInv, InTransaction, Completing
  <2> QED
    BY <1>1, <1>2, <2>1 DEF UploadInv, PendingHeld, InTransaction
<1>6. ReadyHasFile'
  <2>1. \A c \in Blob : blobs'[c].status = "READY" <=> blobs[c].status = "READY"
    BY <1>2
  <2> QED
    BY <1>1, <2>1 DEF UploadInv, ReadyHasFile
<1> QED
  BY <1>3, <1>4, <1>5, <1>6 DEF UploadInv

(* Storage is none of what the invariant is about. *)
LEMMA PutKeeps ==
  ASSUME UploadInv, NEW c \in Blob, NEW object \in Object, Put(c, object)
  PROVE  UploadInv'
<1>1. /\ UNCHANGED <<rows, room, req, blobs, lock, up>>
      /\ objects' = [objects EXCEPT ![c] = object]
  BY DEF Put
<1>2. IInv'
  BY <1>1, StutterKeeps DEF UploadInv, vars
<1>3. UploadTypeOK'
  BY <1>1 DEF UploadInv, UploadTypeOK
<1> QED
  BY <1>1, <1>2, <1>3
  DEF UploadInv, LockHeld, QuotaKept, PendingHeld, InTransaction, FileRows, ReadyHasFile

(* The rooms that uploads start in. *)
LEMMA UploadInitSound ==
  ASSUME UploadInit
  PROVE  UploadInv
<1>1. IInv
  BY InitKeeps DEF UploadInit
<1>2. /\ IsTable(rows) /\ RoomTotals
      /\ room.size <= Quota
      /\ \A n \in DOMAIN rows : rows[n].type = "FILE" <=> rows[n].blob # NoBlob
      /\ \A n, m \in DOMAIN rows : rows[n].blob # NoBlob /\ rows[n].blob = rows[m].blob => n = m
  BY <1>1, FitsStart DEF UploadInit, Init, IInv, TypeOK
<1>3. \A u \in Uploader : up[u] = Ready
  BY DEF UploadInit
<1>4. LockHeld /\ QuotaKept /\ PendingHeld
  BY <1>2, <1>3 DEF LockHeld, QuotaKept, PendingHeld, InTransaction, Ready
<1>5. \A c \in Blob : blobs[c] \in BlobRow /\ (blobs[c].status = "READY" <=> FilesOn(c) # {})
  <2> SUFFICES ASSUME NEW c \in Blob
               PROVE  blobs[c] \in BlobRow /\ (blobs[c].status = "READY" <=> FilesOn(c) # {})
    OBVIOUS
  <2>1. blobs[c] = IF FilesOn(c) = {} THEN NoRow
                   ELSE [status |-> "READY",
                         size |-> rows[CHOOSE n \in FilesOn(c) : TRUE].size]
    BY DEF UploadInit
  <2>2. CASE FilesOn(c) = {}
    BY <2>1, <2>2 DEF NoRow, BlobRow
  <2>3. CASE FilesOn(c) # {}
    <3>1. (CHOOSE n \in FilesOn(c) : TRUE) \in DOMAIN rows
      BY <2>3 DEF FilesOn
    <3>2. rows[CHOOSE n \in FilesOn(c) : TRUE].size \in 0..MaxFileSize
      BY <1>2, <3>1 DEF IsTable, Row
    <3> QED
      BY <2>1, <2>3, <3>2 DEF BlobRow
  <2> QED
    BY <2>2, <2>3
<1>6. \A c \in Blob : objects[c] \in Object \cup {Missing, Removed}
  <2> SUFFICES ASSUME NEW c \in Blob
               PROVE  objects[c] \in Object \cup {Missing, Removed}
    OBVIOUS
  <2>1. objects[c] = IF FilesOn(c) = {} THEN Missing
                     ELSE [state |-> "stored", size |-> blobs[c].size]
    BY DEF UploadInit
  <2>2. blobs[c].size \in 0..MaxFileSize + 1
    BY <1>5, SizeAssumption DEF BlobRow, NoRow
  <2> QED
    BY <2>1, <2>2 DEF Object
<1>7. UploadTypeOK
  <2>1. blobs \in [Blob -> BlobRow]
    BY <1>5 DEF UploadInit
  <2>2. objects \in [Blob -> Object \cup {Missing, Removed}]
    BY <1>6 DEF UploadInit
  <2> QED
    BY <2>1, <2>2 DEF UploadInit, UploadTypeOK
<1>8. FileRows /\ ReadyHasFile
  BY <1>2, <1>5 DEF FileRows, ReadyHasFile, FilesOn
<1> QED
  BY <1>1, <1>4, <1>7, <1>8 DEF UploadInv

(* No step breaks it. *)
LEMMA UploadNextSound ==
  ASSUME UploadInv, [UploadNext]_allVars
  PROVE  UploadInv'
<1>1. CASE Next /\ UNCHANGED uploadVars
  BY <1>1, TreeKeeps DEF Next
<1>2. CASE UNCHANGED allVars
  <2>1. IInv'
    BY <1>2, StutterKeeps DEF UploadInv, allVars, vars
  <2> QED
    BY <1>2, <2>1
    DEF UploadInv, allVars, UploadTypeOK, LockHeld, QuotaKept, PendingHeld, InTransaction,
        FileRows, ReadyHasFile
<1> QED
  BY <1>1, <1>2, PresignKeeps, PutKeeps, CompleteKeeps DEF UploadNext

(* So it holds throughout. *)
LEMMA UploadInvAlways == UploadSpec => []UploadInv
<1>1. UploadInit => UploadInv
  BY UploadInitSound
<1>2. UploadInv /\ [UploadNext]_allVars => UploadInv'
  BY UploadNextSound
<1> QED
  BY <1>1, <1>2, PTL DEF UploadSpec

-----------------------------------------------------------------------------
(* Theorems *)

(* Every blob row, stored object and call under way has its type: a retry  *)
(* never runs past the attempts, a file past the limit is never carried    *)
(* to the transaction (completeUpload).                                    *)
THEOREM UploadTypeCorrect == UploadSpec => []UploadTypeOK
<1>1. UploadInv => UploadTypeOK
  BY DEF UploadInv
<1> QED
  BY <1>1, UploadInvAlways, PTL

(* The room's counters stay whole-room totals with uploads among the       *)
(* requests: complete charges what it inserts.                             *)
THEOREM RoomTotalsWithUploads == UploadSpec => []RoomTotals
<1>1. UploadInv => RoomTotals
  BY DEF UploadInv, IInv
<1> QED
  BY <1>1, UploadInvAlways, PTL

(* The live files never exceed the quota, however many uploads complete    *)
(* side by side and whatever the tree's requests do in between: the reason *)
(* for lockDataRoom.                                                       *)
THEOREM WithinQuotaAlways == UploadSpec => []WithinQuota
<1>1. UploadInv => WithinQuota
  BY DEF UploadInv, IInv, RoomTotals, QuotaKept, WithinQuota
<1> QED
  BY <1>1, UploadInvAlways, PTL

(* A blob is READY exactly when one file is on it, however often complete  *)
(* is called for it and wherever a call fails (markReadyIfPending).        *)
THEOREM OneFilePerReadyBlobAlways == UploadSpec => []OneFilePerReadyBlob
<1>1. UploadInv => OneFilePerReadyBlob
  <2> SUFFICES ASSUME UploadInv, NEW c \in Blob
               PROVE  Cardinality(FilesOn(c)) = IF blobs[c].status = "READY" THEN 1 ELSE 0
    BY DEF OneFilePerReadyBlob
  <2>1. CASE blobs[c].status = "READY"
    <3>1. PICK n \in DOMAIN rows : rows[n].blob = c
      BY <2>1 DEF UploadInv, ReadyHasFile
    <3>2. FilesOn(c) = {n}
      BY <3>1, BlobAssumption DEF UploadInv, ReadyHasFile, FilesOn
    <3> QED
      BY <2>1, <3>2, FS_Singleton
  <2>2. CASE blobs[c].status # "READY"
    <3>1. FilesOn(c) = {}
      BY <2>2 DEF UploadInv, ReadyHasFile, FilesOn
    <3> QED
      BY <2>2, <3>1, FS_EmptySet
  <2> QED
    BY <2>1, <2>2
<1> QED
  BY <1>1, UploadInvAlways, PTL

-----------------------------------------------------------------------------
(* Storage, when no client PUTs twice to one URL *)

(* Storage holds an acceptable object of this size. *)
Backed(c, size) ==
  objects[c].state = "stored" /\ objects[c].size = size /\ Acceptable(objects[c])

(* An object a call is about to discard is there and cannot be accepted: no *)
(* other call has gone on with it.                                         *)
StoredInv ==
  /\ \A n \in DOMAIN rows : rows[n].type = "FILE" =>
       Backed(rows[n].blob, rows[n].size) /\ blobs[rows[n].blob].size = rows[n].size
  /\ \A u \in Uploader :
       /\ up[u].phase \in {"begin", "parent", "insert"} => Backed(up[u].blob, up[u].size)
       /\ up[u].phase = "discard" =>
            objects[up[u].blob].state # "missing" /\ ~Acceptable(objects[up[u].blob])

(* A step of one call that writes neither the tree nor storage. *)
LEMMA CallKeepsStored ==
  ASSUME UploadInv, StoredInv, UNCHANGED <<rows, blobs, objects>>,
         NEW u \in Uploader, NEW r, Holding(u, r),
         r.phase \in {"begin", "parent", "insert"} => Backed(r.blob, r.size),
         r.phase = "discard" =>
           objects[r.blob].state # "missing" /\ ~Acceptable(objects[r.blob])
  PROVE  StoredInv'
<1>1. \A v \in Uploader : up'[v] = IF v = u THEN r ELSE up[v]
  BY DEF Holding, UploadInv, UploadTypeOK
<1> QED
  BY <1>1 DEF StoredInv, Backed, Acceptable

(* No step of a complete takes an object from under a file. *)
LEMMA CompleteKeepsStored ==
  ASSUME UploadInv, StoredInv, NEW u \in Uploader, CompleteStep(u)
  PROVE  StoredInv'
<1>1. /\ UploadTypeOK /\ IsTable(rows) /\ ReadyHasFile /\ FileRows /\ PendingHeld
      /\ Ready.phase = "idle"
  BY DEF UploadInv, IInv, TypeOK, Ready
<1>2. ASSUME NEW c \in Blob, NEW parent \in Node \cup {Root}, NEW name \in UploadName,
             CompleteRead(u, c, parent, name)
      PROVE  StoredInv'
  BY <1>2, CallKeepsStored DEF CompleteRead
<1>3. CASE CompleteHead(u)
  <2> DEFINE r == [up[u] EXCEPT !.phase = "begin", !.size = objects[up[u].blob].size]
  <2>1. up[u] \in Completing
    BY <1>1, <1>3, CompletingKind DEF CompleteHead
  <2>2. r.phase = "begin" /\ Backed(r.blob, r.size)
    BY <1>3, <2>1 DEF Completing, CompleteHead, Backed
  <2>3. Holding(u, r) /\ UNCHANGED <<rows, blobs, objects>>
    BY <1>3 DEF CompleteHead
  <2> HIDE DEF r
  <2> QED
    BY <2>2, <2>3, CallKeepsStored
<1>4. CASE CompleteHeadRefused(u)
  <2> DEFINE r == [up[u] EXCEPT !.phase = "discard"]
  <2>1. up[u] \in Completing
    BY <1>1, <1>4, CompletingKind DEF CompleteHeadRefused
  <2>2. r.phase = "discard" /\ r.blob = up[u].blob
    BY <2>1 DEF Completing
  <2>3. /\ \/ Holding(u, Ready)
           \/ /\ Holding(u, r) /\ objects[r.blob].state # "missing"
              /\ ~Acceptable(objects[r.blob])
        /\ UNCHANGED <<rows, blobs, objects>>
    BY <1>4, <2>2 DEF CompleteHeadRefused, Done
  <2> HIDE DEF r
  <2> QED
    BY <1>1, <2>2, <2>3, CallKeepsStored
<1>5. CASE CompleteDiscard(u)
  <2> DEFINE c == up[u].blob
  <2>1. up[u] \in Completing /\ c \in Blob /\ ~Acceptable(objects[c])
    BY <1>1, <1>5, CompletingKind DEF CompleteDiscard, Completing, StoredInv
  <2>2. /\ UNCHANGED <<rows, blobs>>
        /\ objects'[c] = Removed
        /\ \A b \in Blob \ {c} : objects'[b] = objects[b]
        /\ \A v \in Uploader : up'[v] = IF v = u THEN Ready ELSE up[v]
    BY <1>1, <1>5, <2>1 DEF CompleteDiscard, Done, Holding, UploadTypeOK
  <2>3. \A n \in DOMAIN rows : rows[n].type = "FILE" => rows[n].blob \in Blob \ {c}
    BY <1>1, <2>1 DEF IsTable, Row, FileRows, StoredInv, Backed
  <2>4. \A v \in Uploader : up[v].phase # "idle" => up[v].blob \in Blob
    BY <1>1, CompletingKind DEF Completing
  <2>5. ~Acceptable(Removed) /\ Removed.state # "missing"
    BY DEF Acceptable, Removed
  <2>6. \A n \in DOMAIN rows' : rows'[n].type = "FILE" =>
          Backed(rows[n].blob, rows[n].size)' /\ blobs'[rows'[n].blob].size = rows'[n].size
    BY <2>2, <2>3 DEF StoredInv, Backed, Acceptable
  <2>7. ASSUME NEW v \in Uploader, up'[v].phase \in {"begin", "parent", "insert"}
        PROVE  Backed(up[v].blob, up[v].size)'
    BY <1>1, <2>1, <2>2, <2>4, <2>7 DEF StoredInv, Backed, Acceptable
  <2>8. ASSUME NEW v \in Uploader, up'[v].phase = "discard"
        PROVE  objects'[up'[v].blob].state # "missing" /\ ~Acceptable(objects'[up'[v].blob])
    BY <1>1, <2>2, <2>4, <2>5, <2>8 DEF StoredInv
  <2> QED
    BY <2>2, <2>6, <2>7, <2>8 DEF StoredInv, Backed, Acceptable
<1>6. CASE CompleteBegin(u)
  <2> DEFINE r == [up[u] EXCEPT !.phase = "parent"]
  <2>1. up[u] \in Completing
    BY <1>1, <1>6, CompletingKind DEF CompleteBegin
  <2>2. r.phase = "parent" /\ Backed(r.blob, r.size)
    BY <1>6, <2>1 DEF Completing, CompleteBegin, StoredInv
  <2>3. Holding(u, r) /\ UNCHANGED <<rows, blobs, objects>>
    BY <1>6 DEF CompleteBegin
  <2> HIDE DEF r
  <2> QED
    BY <2>2, <2>3, CallKeepsStored
<1>7. CASE CompleteBeginRefused(u)
  BY <1>1, <1>7, CallKeepsStored DEF CompleteBeginRefused, Done
<1>8. CASE CompleteParent(u)
  <2> DEFINE r == [up[u] EXCEPT !.phase = "insert",
                                !.path = LocationPath(rows, up[u].parent)]
  <2>1. up[u] \in Completing
    BY <1>1, <1>8, CompletingKind DEF CompleteParent
  <2>2. r.phase = "insert" /\ Backed(r.blob, r.size)
    BY <1>8, <2>1 DEF Completing, CompleteParent, StoredInv
  <2>3. Holding(u, r) /\ UNCHANGED <<rows, blobs, objects>>
    BY <1>8 DEF CompleteParent
  <2> HIDE DEF r
  <2> QED
    BY <2>2, <2>3, CallKeepsStored
<1>9. CASE CompleteParentGone(u)
  BY <1>1, <1>9, CallKeepsStored DEF CompleteParentGone, Done
<1>10. CASE CompleteInsert(u)
  <2> DEFINE r == up[u]
  <2>1. /\ r \in Completing /\ r.blob \in Blob /\ r.phase = "insert"
        /\ Backed(r.blob, r.size) /\ blobs[r.blob].status = "PENDING"
    BY <1>1, <1>10, CompletingKind
    DEF CompleteInsert, Completing, StoredInv, PendingHeld, InTransaction
  <2>2. PICK n \in Node \ DOMAIN rows :
          InsertCharged(n, NewRow("FILE", r.parent, FileName(r), Append(r.path, n), r.size, r.blob),
                        r.path, FileDelta(r))
    BY <1>10 DEF CompleteInsert
  <2>3. /\ objects' = objects
        /\ blobs'[r.blob].size = r.size
        /\ \A b \in Blob \ {r.blob} : blobs'[b] = blobs[b]
        /\ \A v \in Uploader : up'[v] = IF v = u THEN Ready ELSE up[v]
    BY <1>1, <1>10, <2>1 DEF CompleteInsert, Flip, Done, Holding, UploadTypeOK
  <2>4. /\ DOMAIN rows' = DOMAIN rows \cup {n}
        /\ rows'[n].blob = r.blob /\ rows'[n].size = r.size
        /\ \A m \in DOMAIN rows : /\ rows'[m].type = rows[m].type
                                 /\ rows'[m].blob = rows[m].blob
                                 /\ rows'[m].size = rows[m].size
    BY <1>1, <2>1, <2>2, InsertedFile
  <2>5. \A m \in DOMAIN rows : rows[m].type = "FILE" => rows[m].blob \in Blob \ {r.blob}
    BY <1>1, <2>1 DEF IsTable, Row, FileRows, ReadyHasFile
  <2>6. \A m \in DOMAIN rows' : rows'[m].type = "FILE" =>
          Backed(rows'[m].blob, rows'[m].size) /\ blobs'[rows'[m].blob].size = rows'[m].size
    BY <2>1, <2>3, <2>4, <2>5 DEF StoredInv
  <2> QED
    BY <1>1, <2>3, <2>6 DEF StoredInv, Backed, Acceptable
<1>11. CASE CompleteCollides(u)
  <2> DEFINE r == [up[u] EXCEPT !.phase = "begin", !.attempt = @ + 1, !.path = <<>>]
  <2>1. up[u] \in Completing
    BY <1>1, <1>11, CompletingKind DEF CompleteCollides
  <2>2. r.phase = "begin" /\ Backed(r.blob, r.size)
    BY <1>11, <2>1 DEF Completing, CompleteCollides, StoredInv
  <2>3. /\ Holding(u, r) \/ Holding(u, Ready)
        /\ UNCHANGED <<rows, blobs, objects>>
    BY <1>11 DEF CompleteCollides, Done
  <2> HIDE DEF r
  <2> QED
    BY <1>1, <2>2, <2>3, CallKeepsStored
<1>12. CASE UploadFail(u)
  BY <1>1, <1>12, CallKeepsStored DEF UploadFail, Done
<1> QED
  BY <1>2, <1>3, <1>4, <1>5, <1>6, <1>7, <1>8, <1>9, <1>10, <1>11, <1>12
  DEF CompleteStep, TakeLock, Proceed

(* The tree's requests leave every file on its object. *)
LEMMA TreeKeepsStored ==
  ASSUME UploadInv, StoredInv, NEW w \in Worker, TreeStep(w), UNCHANGED uploadVars
  PROVE  StoredInv'
<1>1. SameFiles(rows, rows')
  BY TreeStepSpares DEF UploadInv
<1>2. UNCHANGED <<blobs, objects, up>>
  BY DEF uploadVars
<1> QED
  BY <1>1, <1>2 DEF StoredInv, SameFiles, Backed, Acceptable

(* Storage starts with the files of the room, none of them empty. *)
LEMMA UploadInitStored ==
  ASSUME UploadInit
  PROVE  StoredInv
<1>1. UploadInv /\ IsTable(rows)
  BY UploadInitSound DEF UploadInv, IInv, TypeOK
<1>2. ASSUME NEW n \in DOMAIN rows, rows[n].type = "FILE"
      PROVE  Backed(rows[n].blob, rows[n].size) /\ blobs[rows[n].blob].size = rows[n].size
  <2> DEFINE c == rows[n].blob
  <2>1. c # NoBlob /\ c \in Blob /\ rows[n].size \in 0..MaxFileSize
    BY <1>1, <1>2 DEF UploadInv, FileRows, IsTable, Row
  <2>2. FilesOn(c) = {n}
    BY <1>1, <2>1 DEF UploadInv, ReadyHasFile, FilesOn
  <2>3. blobs[c] = [status |-> "READY", size |-> rows[n].size]
    BY <2>1, <2>2 DEF UploadInit
  <2>4. objects[c] = [state |-> "stored", size |-> rows[n].size]
    BY <2>1, <2>2, <2>3 DEF UploadInit
  <2>5. rows[n].size > 0
    BY <1>2, FitsStart DEF UploadInit, Init
  <2> QED
    BY <2>1, <2>3, <2>4, <2>5, SizeAssumption DEF Backed, Acceptable
<1> QED
  BY <1>2 DEF StoredInv, UploadInit, Ready

(* Behind every file, live or deleted, storage holds the bytes the room    *)
(* was charged for, if no client PUTs twice to one URL: a complete deletes *)
(* only an object that none can accept (completeUpload, storage.delete).   *)
THEOREM StoredBehindEveryFileAlways ==
  ASSUME ~RePut
  PROVE  UploadSpec => []StoredBehindEveryFile
<1>1. UploadInit => StoredInv
  BY UploadInitStored
<1>2. UploadInv /\ StoredInv /\ [UploadNext]_allVars => StoredInv'
  <2> SUFFICES ASSUME UploadInv, StoredInv, [UploadNext]_allVars
               PROVE  StoredInv'
    OBVIOUS
  <2>1. ASSUME NEW batch \in SUBSET Blob, NEW parent,
               NEW claim \in [batch -> 1..MaxFileSize], Presign(batch, parent, claim)
        PROVE  StoredInv'
    <3>1. \A n \in DOMAIN rows : rows[n].type = "FILE" =>
            rows[n].blob \in Blob /\ blobs[rows[n].blob].status = "READY"
      BY DEF UploadInv, IInv, TypeOK, IsTable, Row, FileRows, ReadyHasFile
    <3>2. \A n \in DOMAIN rows : rows[n].type = "FILE" =>
            blobs'[rows[n].blob] = blobs[rows[n].blob]
      BY <2>1, <3>1 DEF Presign, NoRow
    <3>3. UNCHANGED <<rows, objects, up>>
      BY <2>1 DEF Presign
    <3> QED
      BY <3>2, <3>3 DEF StoredInv, Backed, Acceptable
  <2>2. ASSUME NEW c \in Blob, NEW object \in Object, Put(c, object)
        PROVE  StoredInv'
    <3>1. objects[c].state = "missing"
      BY <2>2 DEF Put, Missing
    <3>2. UNCHANGED <<rows, blobs, up>> /\ objects' = [objects EXCEPT ![c] = object]
      BY <2>2 DEF Put
    <3>3. \A b \in Blob : objects[b].state # "missing" => objects'[b] = objects[b]
      BY <3>1, <3>2 DEF UploadInv, UploadTypeOK
    <3>4. \A v \in Uploader : up[v].phase # "idle" => up[v].blob \in Blob
      BY CompletingKind DEF UploadInv, Completing
    <3>5. \A n \in DOMAIN rows : rows[n].type = "FILE" => rows[n].blob \in Blob
      BY DEF UploadInv, IInv, TypeOK, IsTable, Row, FileRows
    <3> QED
      BY <3>2, <3>3, <3>4, <3>5 DEF StoredInv, Backed, Acceptable
  <2>3. CASE UNCHANGED allVars
    BY <2>3 DEF allVars, StoredInv, Backed, Acceptable
  <2> QED
    BY <2>1, <2>2, <2>3, TreeKeepsStored, CompleteKeepsStored DEF UploadNext, Next
<1>3. StoredInv => StoredBehindEveryFile
  BY DEF StoredInv, Backed, StoredBehindEveryFile
<1> QED
  BY <1>1, <1>2, <1>3, UploadInvAlways, PTL DEF UploadSpec
=============================================================================
