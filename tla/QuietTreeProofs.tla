-------------------------- MODULE QuietTreeProofs --------------------------
(***************************************************************************)
(* The tree when it is spared overlapping moves, in the two ways that can  *)
(* be had: nothing is moved, or one thing is asked at a time.              *)
(*                                                                         *)
(* Nothing is moved: creates, renames and deletes, however they            *)
(* interleave, leave every path in agreement with parent_id, the counters  *)
(* of every folder right, and no delete misses the node it was asked for.  *)
(* The argument is that what a request has read of a place stays true: a   *)
(* row keeps its parent and its path for ever, and what is deleted stays   *)
(* deleted.                                                                *)
(*                                                                         *)
(* One at a time: every operation, moves included, in any order and from   *)
(* any sound table.  What a request has read is then still so when it      *)
(* writes, a move carries a whole subtree and what the subtree weighs, and *)
(* NodeTree implements RoomTree.                                           *)
(*                                                                         *)
(* All of it fails when moves overlap with other requests, as the runs of  *)
(* NodeTree show.                                                          *)
(***************************************************************************)
EXTENDS NodeTreeProofs

-----------------------------------------------------------------------------
(* Nothing is moved *)

(* Every row of t is where it was in u, and if deleted, deleted. *)
StaysPut(t, u) ==
  /\ DOMAIN t \subseteq DOMAIN u
  /\ \A n \in DOMAIN t : /\ u[n].parent = t[n].parent /\ u[n].path = t[n].path
                         /\ t[n].deleted => u[n].deleted

NoneMoving == \A w \in Worker : req[w].step \notin {"resolving", "moving", "relocating"}

(* What a create and a delete have read of the table. *)
ReadsStand ==
  \A w \in Worker :
    /\ req[w].step = "creating" =>
         /\ req[w].parent \in DOMAIN rows \cup {Root}
         /\ req[w].path = LocationPath(rows, req[w].parent)
    /\ req[w].step \in {"deleting", "stamping"} =>
         req[w].node \in DOMAIN rows /\ req[w].path = rows[req[w].node].path
    /\ req[w].step = "stamping" =>
         rows[req[w].node].deleted \/ req[w].node \in req[w].picked

PathsInv ==
  /\ \A n \in Live(rows) : rows[n].parent \in DOMAIN rows \cup {Root}
  /\ PathsFollowParents

NoMoveInv == IInv /\ NoneMoving /\ ReadsStand /\ PathsInv

-----------------------------------------------------------------------------
(* The statements, as functions on tables *)

(* Places are kept by one statement after another. *)
LEMMA StaysPutTransitive ==
  ASSUME NEW t, NEW u, NEW v, StaysPut(t, u), StaysPut(u, v)
  PROVE  StaysPut(t, v)
BY DEF StaysPut

(* Charging counters moves nothing, and deletes nothing. *)
LEMMA ChargeStaysPut ==
  ASSUME NEW t, IsTable(t), NEW ids, NEW d
  PROVE  /\ StaysPut(t, Charge(t, ids, d)) /\ DOMAIN Charge(t, ids, d) = DOMAIN t
         /\ \A n \in DOMAIN t : Charge(t, ids, d)[n].deleted = t[n].deleted
<1> DEFINE u == Charge(t, ids, d)
<1>1. DOMAIN u = DOMAIN t
  BY DEF Charge
<1>2. ASSUME NEW n \in DOMAIN t
      PROVE  u[n].parent = t[n].parent /\ u[n].path = t[n].path /\ u[n].deleted = t[n].deleted
  <2>1. t[n] \in Row
    BY DEF IsTable
  <2>2. u[n] = IF n \in ids
               THEN [t[n] EXCEPT !.totalSize = @ + d.size, !.fileCount = @ + d.files,
                                 !.folderCount = @ + d.folders]
               ELSE t[n]
    BY DEF Charge
  <2> QED
    BY <2>1, <2>2 DEF Row
<1> QED
  BY <1>1, <1>2 DEF StaysPut

(* A stamp moves nothing. *)
LEMMA StampStaysPut ==
  ASSUME NEW t, IsTable(t), NEW S
  PROVE  /\ StaysPut(t, Stamp(t, S)) /\ DOMAIN Stamp(t, S) = DOMAIN t
         /\ \A n \in DOMAIN t : Stamp(t, S)[n].deleted <=> (n \in S \/ t[n].deleted)
<1> DEFINE u == Stamp(t, S)
<1>1. DOMAIN u = DOMAIN t
  BY DEF Stamp
<1>2. ASSUME NEW n \in DOMAIN t
      PROVE  /\ u[n].parent = t[n].parent /\ u[n].path = t[n].path
             /\ u[n].deleted <=> (n \in S \/ t[n].deleted)
  <2>1. t[n] \in Row
    BY DEF IsTable
  <2>2. u[n] = IF n \in S THEN [t[n] EXCEPT !.deleted = TRUE] ELSE t[n]
    BY DEF Stamp
  <2> QED
    BY <2>1, <2>2 DEF Row
<1> QED
  BY <1>1, <1>2 DEF StaysPut

-----------------------------------------------------------------------------
(* The steps *)

(* The folder a create inserts, and where everything else is then. *)
LEMMA CreateCommitFacts ==
  ASSUME NoMoveInv, NEW w \in Worker, CreateCommit(w)
  PROVE  /\ StaysPut(rows, rows')
         /\ \A m \in DOMAIN rows : rows'[m].deleted = rows[m].deleted
         /\ \E n \in Node \ DOMAIN rows :
              /\ DOMAIN rows' = DOMAIN rows \cup {n}
              /\ rows'[n].parent = req[w].parent
              /\ rows'[n].path = Append(req[w].path, n)
<1>1. IsTable(rows) /\ req[w] \in CreateReq
  BY RequestKind DEF NoMoveInv, IInv, TypeOK, CreateCommit
<1>2. PICK n \in Node \ DOMAIN rows :
        InsertCharged(n, FolderRow(req[w], n), req[w].path, FolderDelta)
  BY DEF CreateCommit
<1> DEFINE row == FolderRow(req[w], n)
           t == Insert(rows, n, row)
<1>3. /\ row \in Row /\ row.parent = req[w].parent /\ row.path = Append(req[w].path, n)
  <2>1. /\ req[w].parent \in Node \cup {Root} /\ req[w].name \in Name
        /\ Append(req[w].path, n) \in Seq(Node) /\ 0 \in 0..MaxFileSize
    BY <1>1, SizeAssumption DEF CreateReq
  <2> QED
    BY <2>1 DEF FolderRow, NewRow, Row
<1> HIDE DEF row
<1>4. IsTable(t) /\ DOMAIN t = DOMAIN rows \cup {n}
  BY <1>1, <1>3, InsertTable
<1>5. t[n] = row /\ \A m \in DOMAIN rows : t[m] = rows[m]
  BY DEF Insert
<1>6. rows' = Charge(t, AncestorIds(req[w].path), FolderDelta)
  BY <1>2 DEF InsertCharged, row
<1> HIDE DEF t
<1>7. /\ StaysPut(t, rows') /\ DOMAIN rows' = DOMAIN t
      /\ \A m \in DOMAIN t : rows'[m].deleted = t[m].deleted
  BY <1>4, <1>6, ChargeStaysPut
<1> QED
  BY <1>2, <1>3, <1>4, <1>5, <1>7 DEF StaysPut

(* A rename moves nothing. *)
LEMMA RenameCommitFacts ==
  ASSUME IsTable(rows), NEW w \in Worker, RenameCommit(w)
  PROVE  /\ StaysPut(rows, rows') /\ DOMAIN rows' = DOMAIN rows
         /\ \A m \in DOMAIN rows : rows'[m].deleted = rows[m].deleted
<1>1. rows' = [rows EXCEPT ![req[w].node].name = req[w].name]
  BY DEF RenameCommit
<1>2. DOMAIN rows' = DOMAIN rows
  BY <1>1 DEF IsTable
<1>3. ASSUME NEW m \in DOMAIN rows
      PROVE  /\ rows'[m].parent = rows[m].parent /\ rows'[m].path = rows[m].path
             /\ rows'[m].deleted = rows[m].deleted
  BY <1>1 DEF IsTable, Row
<1> QED
  BY <1>2, <1>3 DEF StaysPut

(* A delete moves nothing, and stamps what it picked and still matched. *)
LEMMA DeleteCommitFacts ==
  ASSUME IsTable(rows), NEW w \in Worker, DeleteCommit(w)
  PROVE  /\ StaysPut(rows, rows') /\ DOMAIN rows' = DOMAIN rows
         /\ \A m \in DOMAIN rows :
              rows'[m].deleted <=> (m \in StillMatched(req[w]) \/ rows[m].deleted)
<1> DEFINE stamped == StillMatched(req[w])
           d == Negate(Weight(rows, stamped))
           t == Stamp(rows, stamped)
<1>1. rows' = Charge(t, StrictAncestorIds(req[w].path), d)
  BY DEF DeleteCommit
<1>2. stamped \in SUBSET DOMAIN rows
  BY DEF StillMatched, Matched, Live
<1>3. /\ IsTable(t) /\ StaysPut(rows, t) /\ DOMAIN t = DOMAIN rows
      /\ \A n \in DOMAIN rows : t[n].deleted <=> (n \in stamped \/ rows[n].deleted)
  BY <1>2, StampTable, StampStaysPut
<1> HIDE DEF t, d, stamped
<1>4. /\ StaysPut(t, rows') /\ DOMAIN rows' = DOMAIN t
      /\ \A n \in DOMAIN t : rows'[n].deleted = t[n].deleted
  BY <1>1, <1>3, ChargeStaysPut
<1> QED
  BY <1>3, <1>4, StaysPutTransitive DEF stamped

(* No step of a room without moves takes a row from its place. *)
LEMMA NoMoveStaysPut ==
  ASSUME "move" \notin Ops, NoMoveInv, NEW w \in Worker, TreeStep(w)
  PROVE  StaysPut(rows, rows') /\ NoneMoving'
<1>1. IsTable(rows) /\ req \in [Worker -> Request] /\ NoneMoving
  BY DEF NoMoveInv, IInv, TypeOK
<1>2. ~Move(w)
  BY <1>1 DEF Move, MoveResolve, MoveResolveDest, MovePick, MoveCommit, Begin, NoneMoving
<1>3. StaysPut(rows, rows')
  <2>1. CASE UNCHANGED rows
    BY <2>1 DEF StaysPut
  <2> QED
    BY <1>1, <1>2, <2>1, CreateCommitFacts, RenameCommitFacts, DeleteCommitFacts
    DEF TreeStep, Create, Rename, Delete, CreateResolve, RenameResolve, DeleteResolve,
        DeletePick, Fail
<1> DEFINE Steps == {"idle", "creating", "renaming", "deleting", "stamping"}
           Stays == \E r : req' = [req EXCEPT ![w] = r] /\ r.step \in Steps
<1>4. Stays
  <2>1. ASSUME NEW p \in Node \cup {Root}, NEW name \in Name, CreateResolve(w, p, name)
        PROVE  Stays
    <3> DEFINE r == [step |-> "creating", parent |-> p,
                     path |-> LocationPath(rows, p), name |-> name]
    <3>1. r.step \in Steps
      OBVIOUS
    <3>2. req' = [req EXCEPT ![w] = r]
      BY <2>1 DEF CreateResolve, Hold
    <3> HIDE DEF r
    <3> QED
      BY <3>1, <3>2
  <2>2. ASSUME NEW n \in Node, NEW name \in Name, RenameResolve(w, n, name)
        PROVE  Stays
    <3> DEFINE r == [step |-> "renaming", node |-> n, name |-> name]
    <3>1. r.step \in Steps
      OBVIOUS
    <3>2. req' = [req EXCEPT ![w] = r]
      BY <2>2 DEF RenameResolve, Hold
    <3> HIDE DEF r
    <3> QED
      BY <3>1, <3>2
  <2>3. ASSUME NEW n \in Node, DeleteResolve(w, n)
        PROVE  Stays
    <3> DEFINE r == [step |-> "deleting", node |-> n, path |-> rows[n].path,
                     picked |-> {}]
    <3>1. r.step \in Steps
      OBVIOUS
    <3>2. req' = [req EXCEPT ![w] = r]
      BY <2>3 DEF DeleteResolve, Hold
    <3> HIDE DEF r
    <3> QED
      BY <3>1, <3>2
  <2>4. ASSUME DeletePick(w)
        PROVE  Stays
    <3> DEFINE r == [req[w] EXCEPT !.step = "stamping",
                                   !.picked = Matched(rows, req[w].path)]
    <3>1. r.step \in Steps
      BY <1>1, <2>4, RequestKind DEF DeletePick, DeleteReq
    <3>2. req' = [req EXCEPT ![w] = r]
      BY <2>4 DEF DeletePick, Hold
    <3> HIDE DEF r
    <3> QED
      BY <3>1, <3>2
  <2>5. ASSUME Answer(w)
        PROVE  Stays
    <3> DEFINE r == Idle
    <3>1. r.step \in Steps
      BY DEF Idle
    <3>2. req' = [req EXCEPT ![w] = r]
      BY <2>5 DEF Answer, Hold
    <3> HIDE DEF r
    <3> QED
      BY <3>1, <3>2
  <2> HIDE DEF Stays
  <2> QED
    BY <1>2, <2>1, <2>2, <2>3, <2>4, <2>5
    DEF TreeStep, Create, Rename, Delete, CreateCommit, RenameCommit, DeleteCommit, Fail
<1>5. NoneMoving'
  BY <1>1, <1>4 DEF NoneMoving
<1> QED
  BY <1>3, <1>5

(* Paths and parents still agree, if those of what is new do. *)
LEMMA PathsStand ==
  ASSUME PathsInv, StaysPut(rows, rows'),
         \A n \in DOMAIN rows' \ DOMAIN rows :
           /\ rows'[n].parent \in DOMAIN rows \cup {Root}
           /\ rows'[n].path = Append(LocationPath(rows, rows'[n].parent), n)
  PROVE  PathsInv'
<1>1. ASSUME NEW n \in DOMAIN rows', ~rows'[n].deleted
      PROVE  /\ rows'[n].parent \in DOMAIN rows \cup {Root}
             /\ rows'[n].path = Append(LocationPath(rows, rows'[n].parent), n)
  BY <1>1 DEF PathsInv, PathsFollowParents, PathFollowsParent, StaysPut, Live
<1>2. ASSUME NEW p \in DOMAIN rows \cup {Root}
      PROVE  p \in DOMAIN rows' \cup {Root} /\ LocationPath(rows', p) = LocationPath(rows, p)
  BY DEF LocationPath, StaysPut
<1>3. \A n \in Live(rows') : rows'[n].parent \in DOMAIN rows' \cup {Root}
  BY <1>1, <1>2 DEF Live
<1>4. \A n \in Live(rows') : PathFollowsParent(rows', n)
  BY <1>1, <1>2 DEF Live, PathFollowsParent
<1> QED
  BY <1>3, <1>4 DEF PathsInv, PathsFollowParents

(* What one request holds of the table. *)
Stands(r, table) ==
  /\ r.step = "creating" =>
       r.parent \in DOMAIN table \cup {Root} /\ r.path = LocationPath(table, r.parent)
  /\ r.step \in {"deleting", "stamping"} =>
       r.node \in DOMAIN table /\ r.path = table[r.node].path
  /\ r.step = "stamping" => table[r.node].deleted \/ r.node \in r.picked

(* It stands as long as every row stays where it is. *)
LEMMA StandsStill ==
  ASSUME NEW r, NEW t, NEW u, Stands(r, t), StaysPut(t, u)
  PROVE  Stands(r, u)
BY DEF Stands, StaysPut, LocationPath

(* A node's own path is in the range of its delete. *)
LEMMA OwnPath ==
  ASSUME NEW path \in Seq(Node)
  PROVE  Within(path, path)
BY DEF Within, IsPrefix

(* What a worker takes up stands when it does. *)
LEMMA TakenUpStands ==
  ASSUME "move" \notin Ops, NoMoveInv, NEW w \in Worker, TreeStep(w)
  PROVE  Stands(req'[w], rows')
<1>1. /\ IsTable(rows) /\ req \in [Worker -> Request] /\ req[w] \in Request
      /\ Stands(req[w], rows) /\ req[w].step \notin {"resolving", "moving", "relocating"}
  BY DEF NoMoveInv, IInv, TypeOK, ReadsStand, Stands, NoneMoving
<1>2. ASSUME NEW p \in Node \cup {Root}, NEW name \in Name, CreateResolve(w, p, name)
      PROVE  Stands(req'[w], rows')
  <2> DEFINE r == [step |-> "creating", parent |-> p,
                   path |-> LocationPath(rows, p), name |-> name]
  <2>1. req'[w] = r /\ rows' = rows /\ p \in DOMAIN rows \cup {Root}
    BY <1>1, <1>2 DEF CreateResolve, Hold, IsLocation, Live
  <2>2. r.step = "creating" /\ r.parent = p /\ r.path = LocationPath(rows, p)
    OBVIOUS
  <2> HIDE DEF r
  <2> QED
    BY <2>1, <2>2 DEF Stands
<1>3. ASSUME NEW n \in Node, NEW name \in Name, RenameResolve(w, n, name)
      PROVE  Stands(req'[w], rows')
  <2>1. req'[w].step = "renaming"
    BY <1>1, <1>3 DEF RenameResolve, Hold
  <2> QED
    BY <2>1 DEF Stands
<1>4. ASSUME NEW n \in Node, DeleteResolve(w, n)
      PROVE  Stands(req'[w], rows')
  <2> DEFINE r == [step |-> "deleting", node |-> n, path |-> rows[n].path, picked |-> {}]
  <2>1. req'[w] = r /\ rows' = rows /\ n \in DOMAIN rows
    BY <1>1, <1>4 DEF DeleteResolve, Hold, Live
  <2>2. r.step = "deleting" /\ r.node = n /\ r.path = rows[n].path
    OBVIOUS
  <2> HIDE DEF r
  <2> QED
    BY <2>1, <2>2 DEF Stands
<1>5. CASE DeletePick(w)
  <2> DEFINE n == req[w].node
             picked == Matched(rows, req[w].path)
             r == [req[w] EXCEPT !.step = "stamping", !.picked = picked]
  <2>1. req[w] \in DeleteReq /\ req[w].step = "deleting"
    BY <1>1, <1>5, RequestKind DEF DeletePick
  <2>2. req'[w] = r /\ rows' = rows
    BY <1>1, <1>5 DEF DeletePick, Hold
  <2>3. n \in DOMAIN rows /\ req[w].path = rows[n].path /\ rows[n].path \in Seq(Node)
    BY <1>1, <2>1 DEF Stands, IsTable, Row
  <2>4. rows[n].deleted \/ n \in picked
    BY <2>3, OwnPath DEF Matched, Live
  <2> HIDE DEF picked
  <2>5. r.step = "stamping" /\ r.node = n /\ r.path = req[w].path /\ r.picked = picked
    BY <2>1 DEF DeleteReq
  <2> HIDE DEF r, n
  <2> QED
    BY <2>2, <2>3, <2>4, <2>5 DEF Stands, n
<1>6. CASE Answer(w)
  <2>1. req'[w].step = "idle"
    BY <1>1, <1>6 DEF Answer, Hold, Idle
  <2> QED
    BY <2>1 DEF Stands
<1>7. ~Move(w)
  BY <1>1 DEF Move, MoveResolve, MoveResolveDest, MovePick, MoveCommit, Begin
<1> QED
  BY <1>2, <1>3, <1>4, <1>5, <1>6, <1>7
  DEF TreeStep, Create, Rename, Delete, CreateCommit, RenameCommit, DeleteCommit, Fail

(* No request of a room without moves breaks the invariant. *)
LEMMA NoMoveKeeps ==
  ASSUME "move" \notin Ops, NoMoveInv, NEW w \in Worker, TreeStep(w)
  PROVE  NoMoveInv'
<1>1. IInv' /\ StaysPut(rows, rows') /\ NoneMoving'
  BY TreeStepKeeps, NoMoveStaysPut DEF NoMoveInv
<1>2. \A v \in Worker : Stands(req[v], rows)
  BY DEF NoMoveInv, ReadsStand, Stands
<1>3. \A v \in Worker \ {w} : req'[v] = req[v]
  BY DEF NoMoveInv, IInv, TypeOK, TreeStep, Create, Rename, Delete, Move, CreateResolve,
         CreateCommit, RenameResolve, RenameCommit, DeleteResolve, DeletePick, DeleteCommit,
         MoveResolve, MoveResolveDest, MovePick, MoveCommit, Fail, Answer, Hold
<1>4. \A v \in Worker : Stands(req'[v], rows')
  BY <1>1, <1>2, <1>3, StandsStill, TakenUpStands
<1>5. ReadsStand'
  BY <1>4 DEF ReadsStand, Stands
<1>6. PathsInv'
  <2>1. CASE CreateCommit(w)
    <3>1. PICK n \in Node \ DOMAIN rows :
            /\ DOMAIN rows' = DOMAIN rows \cup {n}
            /\ rows'[n].parent = req[w].parent
            /\ rows'[n].path = Append(req[w].path, n)
      BY <2>1, CreateCommitFacts
    <3>2. /\ req[w].parent \in DOMAIN rows \cup {Root}
          /\ req[w].path = LocationPath(rows, req[w].parent)
      BY <1>2, <2>1 DEF Stands, CreateCommit
    <3> QED
      BY <1>1, <3>1, <3>2, PathsStand DEF NoMoveInv
  <2>2. CASE DOMAIN rows' = DOMAIN rows
    BY <1>1, <2>2, PathsStand DEF NoMoveInv
  <2>3. ~Move(w) /\ IsTable(rows)
    BY DEF NoMoveInv, IInv, TypeOK, NoneMoving, Move, MoveResolve, MoveResolveDest, MovePick,
           MoveCommit, Begin
  <2> QED
    BY <2>1, <2>2, <2>3, RenameCommitFacts, DeleteCommitFacts
    DEF TreeStep, Create, Rename, Delete, CreateResolve, RenameResolve, DeleteResolve,
        DeletePick, Fail
<1> QED
  BY <1>1, <1>5, <1>6 DEF NoMoveInv

(* A room starts with paths that are right and no requests. *)
LEMMA NoMoveInit ==
  ASSUME Init
  PROVE  NoMoveInv
<1>1. IInv
  BY InitKeeps
<1>2. NoneMoving /\ ReadsStand
  BY DEF Init, NoneMoving, ReadsStand, Idle
<1>3. ASSUME NEW n \in Live(rows)
      PROVE  /\ rows[n].parent \in DOMAIN rows \cup {Root}
             /\ PathFollowsParent(rows, n)
  BY SoundStart DEF Init, Sound, IsLocation, Live
<1> QED
  BY <1>1, <1>2, <1>3 DEF NoMoveInv, PathsInv, PathsFollowParents

(* A step that touches none of the tree's variables keeps the invariant. *)
LEMMA NoMoveStutter ==
  ASSUME NoMoveInv, UNCHANGED vars
  PROVE  NoMoveInv'
<1>1. IInv'
  BY StutterKeeps DEF NoMoveInv
<1> QED
  BY <1>1 DEF NoMoveInv, NoneMoving, ReadsStand, PathsInv, PathsFollowParents, vars

(* So it holds throughout. *)
LEMMA NoMoveInvAlways ==
  ASSUME "move" \notin Ops
  PROVE  Spec => []NoMoveInv
<1>1. Init => NoMoveInv
  BY NoMoveInit
<1>2. NoMoveInv /\ [Next]_vars => NoMoveInv'
  BY NoMoveKeeps, NoMoveStutter DEF Next
<1> QED
  BY <1>1, <1>2, PTL DEF Spec

-----------------------------------------------------------------------------
(* What the commits do to places and counters *)

(* The folder that a create inserts, as a row. *)
LEMMA CreateInserts ==
  ASSUME IInv, NEW w \in Worker, CreateCommit(w),
         req[w].path = LocationPath(rows, req[w].parent)
  PROVE  /\ req[w].parent \in Node \cup {Root} /\ req[w].name \in Name
         /\ \E n \in Node \ DOMAIN rows, row \in Row :
              /\ ~NameTaken(rows, n, req[w].parent, req[w].name)
              /\ row.parent = req[w].parent /\ row.name = req[w].name
              /\ row.path = Append(LocationPath(rows, row.parent), n)
              /\ row.type = "FOLDER" /\ row.size = 0 /\ row.deleted = FALSE
              /\ row.totalSize = 0 /\ row.fileCount = 0 /\ row.folderCount = 0
              /\ rows' = Inserted(rows, n, row)
<1> DEFINE r == req[w]
<1>1. r \in CreateReq
  BY RequestKind DEF IInv, TypeOK, CreateCommit
<1>2. PICK n \in Node \ DOMAIN rows :
        /\ ~NameTaken(rows, n, r.parent, r.name)
        /\ rows' = Charge(Insert(rows, n, FolderRow(r, n)), AncestorIds(r.path), FolderDelta)
  BY DEF CreateCommit, InsertCharged
<1>3. PICK row : row = FolderRow(r, n)
  OBVIOUS
<1>4. /\ r.parent \in Node \cup {Root} /\ r.name \in Name
      /\ Append(r.path, n) \in Seq(Node) /\ 0 \in 0..MaxFileSize
  BY <1>1, SizeAssumption DEF CreateReq
<1>5. /\ row \in Row /\ row.parent = r.parent /\ row.path = Append(r.path, n)
      /\ row.type = "FOLDER" /\ row.name = r.name /\ row.size = 0 /\ row.deleted = FALSE
      /\ row.totalSize = 0 /\ row.fileCount = 0 /\ row.folderCount = 0
      /\ RowDelta(row) = FolderDelta
  BY <1>3, <1>4 DEF FolderRow, NewRow, Row, RowDelta, FolderDelta
<1>6. rows' = Inserted(rows, n, row)
  BY <1>2, <1>3, <1>5 DEF Inserted
<1> QED
  BY <1>2, <1>4, <1>5, <1>6

(* A rename changes nothing of any row but its name. *)
LEMMA RenameChanges ==
  ASSUME IsTable(rows), NEW w \in Worker, RenameCommit(w)
  PROVE  /\ SamePlaces(rows, rows') /\ Alike(rows, rows')
         /\ \A m \in DOMAIN rows :
              /\ Counters(rows'[m]) = Counters(rows[m])
              /\ rows'[m].name = IF m = req[w].node THEN req[w].name ELSE rows[m].name
<1> DEFINE n == req[w].node
           name == req[w].name
<1>1. rows' = [rows EXCEPT ![n].name = name]
  BY DEF RenameCommit
<1>2. DOMAIN rows' = DOMAIN rows
  BY <1>1 DEF IsTable
<1>3. ASSUME NEW m \in DOMAIN rows
      PROVE  /\ rows'[m].parent = rows[m].parent /\ rows'[m].path = rows[m].path
             /\ rows'[m].type = rows[m].type /\ rows'[m].size = rows[m].size
             /\ rows'[m].deleted = rows[m].deleted /\ Counters(rows'[m]) = Counters(rows[m])
             /\ rows'[m].name = IF m = n THEN name ELSE rows[m].name
  <2>1. rows[m] \in Row
    BY DEF IsTable
  <2>2. rows'[m] = IF m = n THEN [rows[m] EXCEPT !.name = name] ELSE rows[m]
    BY <1>1 DEF IsTable
  <2> QED
    BY <2>1, <2>2 DEF Row, Counters
<1> QED
  BY <1>2, <1>3 DEF SamePlaces, Alike

-----------------------------------------------------------------------------
(* The counters *)

(* L holds the rows that hang together, deleted ones included: a create    *)
(* may have read a parent that is deleted since.  Every row that a delete  *)
(* has picked brings along the rows between it and the node: those were    *)
(* there when it was picked, and live or already deleted.                  *)
Rests(r, t, L) ==
  /\ r.step = "creating" => r.parent \in L \cup {Root}
  /\ r.step \in {"deleting", "stamping"} => r.node \in L
  /\ r.step = "stamping" =>
       /\ r.picked \subseteq L
       /\ \A m \in r.picked : \A f \in Ancestors(t, m) :
            f = r.node \/ r.node \in Ancestors(t, f) => f \in r.picked \/ t[f].deleted

Grounded(t, q, L) ==
  /\ Rooted(t, L) /\ Live(t) \subseteq L
  /\ \A w \in Worker : Rests(q[w], t, L)

CountsInv ==
  /\ NoMoveInv
  /\ Counted(rows)
  /\ \E L \in SUBSET DOMAIN rows : Grounded(rows, req, L)

(* What a request rests on stays, as long as rows stay where they are. *)
LEMMA RestsStill ==
  ASSUME NEW t, IsTable(t), NEW L, Rooted(t, L), NEW u, IsTable(u), NEW M, Rooted(u, M),
         L \subseteq M, StaysPut(t, u), NEW r, Rests(r, t, L)
  PROVE  Rests(r, u, M)
<1>1. L \subseteq DOMAIN t
  BY DEF Rooted
<1>2. \A n \in L : Ancestors(u, n) = Ancestors(t, n)
  BY <1>1, SamePathSameAncestors DEF StaysPut
<1>3. \A n \in L : Ancestors(t, n) \subseteq L
  BY PathNamesAncestors
<1>4. ASSUME r.step = "stamping", NEW m \in r.picked, NEW f \in Ancestors(u, m),
             f = r.node \/ r.node \in Ancestors(u, f)
      PROVE  f \in r.picked \/ u[f].deleted
  <2>1. m \in L /\ f \in Ancestors(t, m) /\ f \in L
    BY <1>2, <1>3, <1>4 DEF Rests
  <2>2. f = r.node \/ r.node \in Ancestors(t, f)
    BY <1>2, <1>4, <2>1
  <2>3. f \in r.picked \/ t[f].deleted
    BY <1>4, <2>1, <2>2 DEF Rests
  <2> QED
    BY <1>1, <2>1, <2>3 DEF StaysPut
<1> QED
  BY <1>4 DEF Rests

(* What a worker takes up rests on the rows that hang together. *)
LEMMA TakenUpRests ==
  ASSUME "move" \notin Ops, CountsInv, NEW L, Grounded(rows, req, L),
         NEW w \in Worker, TreeStep(w), UNCHANGED rows
  PROVE  Rests(req'[w], rows, L)
<1>1. /\ IsTable(rows) /\ req \in [Worker -> Request] /\ req[w] \in Request
      /\ req[w].step \notin {"resolving", "moving", "relocating"}
      /\ Rooted(rows, L) /\ Live(rows) \subseteq L /\ Rests(req[w], rows, L)
      /\ Stands(req[w], rows)
  BY DEF CountsInv, NoMoveInv, NoneMoving, IInv, TypeOK, Grounded, ReadsStand, Stands
<1>2. ASSUME NEW p \in Node \cup {Root}, NEW name \in Name, CreateResolve(w, p, name)
      PROVE  Rests(req'[w], rows, L)
  <2>1. req'[w].step = "creating" /\ req'[w].parent = p
    BY <1>1, <1>2 DEF CreateResolve, Hold
  <2>2. p \in L \cup {Root}
    BY <1>1, <1>2 DEF CreateResolve, IsLocation
  <2> QED
    BY <2>1, <2>2 DEF Rests
<1>3. ASSUME NEW n \in Node, NEW name \in Name, RenameResolve(w, n, name)
      PROVE  Rests(req'[w], rows, L)
  <2>1. req'[w].step = "renaming"
    BY <1>1, <1>3 DEF RenameResolve, Hold
  <2> QED
    BY <2>1 DEF Rests
<1>4. ASSUME NEW n \in Node, DeleteResolve(w, n)
      PROVE  Rests(req'[w], rows, L)
  <2>1. req'[w].step = "deleting" /\ req'[w].node = n /\ n \in L
    BY <1>1, <1>4 DEF DeleteResolve, Hold
  <2> QED
    BY <2>1 DEF Rests
<1>5. CASE DeletePick(w)
  <2> DEFINE n == req[w].node
             picked == Matched(rows, req[w].path)
             r == [req[w] EXCEPT !.step = "stamping", !.picked = picked]
  <2>1. req[w] \in DeleteReq /\ req[w].step = "deleting"
    BY <1>1, <1>5, RequestKind DEF DeletePick
  <2>2. req'[w] = r
    BY <1>1, <1>5 DEF DeletePick, Hold
  <2>3. r.step = "stamping" /\ r.node = n /\ r.picked = picked
    BY <2>1 DEF DeleteReq
  <2> HIDE DEF r
  <2>4. n \in L /\ req[w].path = rows[n].path /\ picked \subseteq L
    BY <1>1, <2>1 DEF Rests, Stands, Matched
  <2>5. ASSUME NEW m \in picked, NEW f \in Ancestors(rows, m),
               f = n \/ n \in Ancestors(rows, f)
        PROVE  f \in picked \/ rows[f].deleted
    <3>1. f \in L /\ f \in DOMAIN rows
      BY <1>1, <2>4, PathNamesAncestors DEF Rooted
    <3>2. Within(rows[f].path, rows[n].path)
      BY <1>1, <2>4, <2>5, <3>1, PathNamesAncestors
    <3> QED
      BY <2>4, <3>1, <3>2 DEF Matched, Live
  <2> HIDE DEF n, picked
  <2> QED
    BY <2>2, <2>3, <2>4, <2>5 DEF Rests
<1>6. CASE Answer(w)
  <2>1. req'[w].step = "idle"
    BY <1>1, <1>6 DEF Answer, Hold, Idle
  <2> QED
    BY <2>1 DEF Rests
<1>7. ~Move(w)
  BY <1>1 DEF Move, MoveResolve, MoveResolveDest, MovePick, MoveCommit, Begin
<1> QED
  BY <1>2, <1>3, <1>4, <1>5, <1>6, <1>7
  DEF TreeStep, Create, Rename, Delete, CreateCommit, RenameCommit, DeleteCommit, Fail

(* A delete takes off every folder above what it stamps what it stamps     *)
(* beneath it, and every folder that it does not is stamped as well.       *)
LEMMA DeleteRests ==
  ASSUME CountsInv, NEW L, Grounded(rows, req, L), NEW w \in Worker, DeleteCommit(w)
  PROVE  Counted(rows') /\ Rooted(rows', L) /\ Live(rows') \subseteq L
<1> DEFINE r == req[w]
           n == r.node
           S == StillMatched(r)
<1>1. /\ IsTable(rows) /\ Counted(rows) /\ Rooted(rows, L) /\ Live(rows) \subseteq L
      /\ n \in L /\ r.path = rows[n].path /\ r.step = "stamping"
      /\ \A m \in r.picked : \A f \in Ancestors(rows, m) :
           f = n \/ n \in Ancestors(rows, f) => f \in r.picked \/ rows[f].deleted
  BY DEF CountsInv, NoMoveInv, ReadsStand, IInv, TypeOK, Grounded, Rests, DeleteCommit
<1>2. rows' = Charge(Stamp(rows, S), StrictAncestorIds(rows[n].path), Negate(Weight(rows, S)))
  BY <1>1 DEF DeleteCommit
<1>3. S = r.picked \cap Matched(rows, rows[n].path)
  BY <1>1 DEF StillMatched
<1> HIDE DEF S
<1>4. S \in SUBSET Live(rows) /\ \A m \in S : m = n \/ n \in Ancestors(rows, m)
  <2>1. ASSUME NEW m \in S
        PROVE  m \in Live(rows) /\ Within(rows[m].path, rows[n].path)
    BY <1>3 DEF Matched
  <2> QED
    BY <1>1, <2>1, PathNamesAncestors
<1>5. ASSUME NEW m \in S, NEW f \in Live(rows), f \in Ancestors(rows, m),
             f = n \/ n \in Ancestors(rows, f)
      PROVE  f \in S
  <2>1. f \in L /\ ~rows[f].deleted /\ m \in r.picked
    BY <1>1, <1>3, <1>5 DEF Live
  <2>2. f \in r.picked
    BY <1>1, <1>5, <2>1
  <2>3. Within(rows[f].path, rows[n].path)
    BY <1>1, <1>5, <2>1, PathNamesAncestors
  <2> QED
    BY <1>3, <1>5, <2>2, <2>3 DEF Matched
<1> HIDE DEF r
<1> DEFINE u == Charge(Stamp(rows, S), StrictAncestorIds(rows[n].path), Negate(Weight(rows, S)))
<1>6. Rooted(u, L) /\ Live(u) = Live(rows) \ S /\ Counted(u)
  BY <1>1, <1>4, <1>5, DeleteCounts
<1> QED
  BY <1>1, <1>2, <1>6

(* Every step keeps the counters right, and what hangs together together. *)
LEMMA StepCounts ==
  ASSUME "move" \notin Ops, CountsInv, NEW L, Grounded(rows, req, L), L \subseteq DOMAIN rows,
         NEW w \in Worker, TreeStep(w)
  PROVE  /\ Counted(rows')
         /\ \E M \in SUBSET DOMAIN rows' :
              /\ L \subseteq M /\ Rooted(rows', M) /\ Live(rows') \subseteq M
<1>1. /\ IInv /\ IsTable(rows) /\ Counted(rows) /\ Rooted(rows, L) /\ Live(rows) \subseteq L
      /\ Rests(req[w], rows, L) /\ Stands(req[w], rows) /\ NoneMoving
  BY DEF CountsInv, NoMoveInv, IInv, TypeOK, Grounded, ReadsStand, Stands
<1>2. CASE CreateCommit(w)
  <2>1. /\ req[w].path = LocationPath(rows, req[w].parent)
        /\ req[w].parent \in L \cup {Root}
    BY <1>1, <1>2 DEF Stands, Rests, CreateCommit
  <2>2. PICK n \in Node \ DOMAIN rows, row \in Row :
          /\ row.parent = req[w].parent /\ row.path = Append(LocationPath(rows, row.parent), n)
          /\ row.deleted = FALSE
          /\ row.totalSize = 0 /\ row.fileCount = 0 /\ row.folderCount = 0
          /\ rows' = Inserted(rows, n, row)
    BY <1>1, <1>2, <2>1, CreateInserts
  <2> DEFINE u == Inserted(rows, n, row)
  <2>3. Rooted(u, L \cup {n}) /\ Counted(u)
    BY <1>1, <2>1, <2>2, InsertCounts
  <2>4. InsertEffect(rows, n, row, u)
    BY <1>1, <2>2, InsertedRows
  <2> HIDE DEF u
  <2>5. DOMAIN u = DOMAIN rows \cup {n} /\ Live(u) = Live(rows) \cup {n}
    BY <2>4 DEF InsertEffect
  <2>6. rows' = u
    BY <2>2 DEF u
  <2>7. /\ L \cup {n} \in SUBSET DOMAIN rows' /\ L \subseteq L \cup {n}
        /\ Rooted(rows', L \cup {n}) /\ Live(rows') \subseteq L \cup {n} /\ Counted(rows')
    BY <1>1, <2>3, <2>5, <2>6
  <2> QED
    BY <2>7
<1>3. CASE RenameCommit(w)
  <2>1. /\ SamePlaces(rows, rows') /\ Alike(rows, rows')
        /\ \A m \in DOMAIN rows : Counters(rows'[m]) = Counters(rows[m])
    BY <1>1, <1>3, RenameChanges
  <2>2. Root \notin DOMAIN rows
    BY <1>1, NodeAssumption DEF IsTable
  <2>3. Counted(rows') /\ Rooted(rows', L)
    BY <1>1, <2>1, <2>2, SameCounts, SamePlacesSameTree
  <2>4. Live(rows') = Live(rows) /\ DOMAIN rows' = DOMAIN rows
    BY <2>1 DEF Alike, Live
  <2> QED
    BY <1>1, <2>3, <2>4
<1>4. CASE DeleteCommit(w)
  <2>1. Counted(rows') /\ Rooted(rows', L) /\ Live(rows') \subseteq L
    BY <1>4, DeleteRests
  <2>2. L \in SUBSET DOMAIN rows'
    BY <2>1 DEF Rooted
  <2> QED
    BY <2>1, <2>2
<1>5. CASE UNCHANGED rows
  BY <1>1, <1>5
<1>6. ~MoveCommit(w)
  BY <1>1 DEF NoneMoving, MoveCommit
<1> QED
  BY <1>2, <1>3, <1>4, <1>5, <1>6
  DEF TreeStep, Create, Rename, Delete, Move, CreateResolve, RenameResolve, DeleteResolve,
      DeletePick, MoveResolve, MoveResolveDest, MovePick, Fail

(* A worker that has just written holds nothing. *)
LEMMA CommitRests ==
  ASSUME IInv, NEW w \in Worker, TreeStep(w), ~UNCHANGED rows, NEW L
  PROVE  Rests(req'[w], rows', L)
<1>1. Answer(w) /\ req \in [Worker -> Request]
  BY DEF IInv, TypeOK, TreeStep, Create, Rename, Delete, Move, CreateResolve, CreateCommit,
         RenameResolve, RenameCommit, DeleteResolve, DeletePick, DeleteCommit, MoveResolve,
         MoveResolveDest, MovePick, MoveCommit, Fail
<1>2. req'[w].step = "idle"
  BY <1>1 DEF Answer, Hold, Idle
<1> QED
  BY <1>2 DEF Rests

(* No request of a room without moves breaks the counters. *)
LEMMA CountsKeep ==
  ASSUME "move" \notin Ops, CountsInv, NEW w \in Worker, TreeStep(w)
  PROVE  CountsInv'
<1>1. PICK L \in SUBSET DOMAIN rows : Grounded(rows, req, L)
  BY DEF CountsInv
<1>2. /\ NoMoveInv' /\ StaysPut(rows, rows') /\ IsTable(rows) /\ IsTable(rows')
      /\ Rooted(rows, L) /\ IInv
  BY <1>1, NoMoveKeeps, NoMoveStaysPut DEF CountsInv, NoMoveInv, IInv, TypeOK, Grounded
<1>3. Counted(rows')
  BY <1>1, StepCounts
<1>4. PICK M \in SUBSET DOMAIN rows' :
        L \subseteq M /\ Rooted(rows', M) /\ Live(rows') \subseteq M
  BY <1>1, StepCounts
<1>5. ASSUME NEW v \in Worker, v # w
      PROVE  Rests(req'[v], rows', M)
  <2>1. req'[v] = req[v]
    BY <1>2, <1>5
    DEF IInv, TypeOK, TreeStep, Create, Rename, Delete, Move, CreateResolve, CreateCommit,
        RenameResolve, RenameCommit, DeleteResolve, DeletePick, DeleteCommit, MoveResolve,
        MoveResolveDest, MovePick, MoveCommit, Fail, Answer, Hold
  <2>2. Rests(req[v], rows, L)
    BY <1>1 DEF Grounded
  <2> QED
    BY <1>2, <1>4, <2>1, <2>2, RestsStill
<1>6. Rests(req'[w], rows', M)
  <2>1. CASE UNCHANGED rows
    <3>1. Rests(req'[w], rows, L)
      BY <1>1, <2>1, TakenUpRests
    <3> QED
      BY <1>2, <1>4, <3>1, RestsStill
  <2> QED
    BY <1>2, <2>1, CommitRests
<1>7. Grounded(rows', req', M)
  BY <1>4, <1>5, <1>6 DEF Grounded
<1> QED
  BY <1>2, <1>3, <1>7 DEF CountsInv

(* A sound room starts with counters that are right. *)
LEMMA CountsInit ==
  ASSUME Init
  PROVE  CountsInv
<1>1. NoMoveInv
  BY NoMoveInit
<1>2. Sound(rows)
  BY SoundStart DEF Init
<1>3. Rooted(rows, Live(rows)) /\ Counted(rows) /\ Live(rows) \in SUBSET DOMAIN rows
  BY <1>2 DEF Sound, Rooted, Counted, IsLocation, Live
<1>4. Grounded(rows, req, Live(rows))
  BY <1>3 DEF Init, Idle, Grounded, Rests
<1> QED
  BY <1>1, <1>3, <1>4 DEF CountsInv

(* A step that touches none of the tree's variables keeps the counters. *)
LEMMA CountsStutter ==
  ASSUME CountsInv, UNCHANGED vars
  PROVE  CountsInv'
<1>1. NoMoveInv'
  BY NoMoveStutter DEF CountsInv
<1> QED
  BY <1>1 DEF CountsInv, vars

(* So they are right throughout. *)
LEMMA CountsInvAlways ==
  ASSUME "move" \notin Ops
  PROVE  Spec => []CountsInv
<1>1. Init => CountsInv
  BY CountsInit
<1>2. CountsInv /\ [Next]_vars => CountsInv'
  BY CountsKeep, CountsStutter DEF Next
<1> QED
  BY <1>1, <1>2, PTL DEF Spec

-----------------------------------------------------------------------------
(* Theorems *)

(* While nothing is moved, the path of every live node is its parent's     *)
(* path and its own id, however creates, renames and deletes overlap: the  *)
(* path a create has read of its parent is still the parent's when it      *)
(* inserts (createFolder).                                                 *)
THEOREM PathsFollowWithoutMoves ==
  ASSUME "move" \notin Ops
  PROVE  Spec => []PathsFollowParents
<1>1. NoMoveInv => PathsFollowParents
  BY DEF NoMoveInv, PathsInv
<1> QED
  BY <1>1, NoMoveInvAlways, PTL

(* While nothing is moved, a delete that answers has deleted at least the  *)
(* node it was asked for, whichever other requests ran between its         *)
(* statements (deleteSubtree).                                             *)
THEOREM DeletesItsNodeWithoutMoves ==
  ASSUME "move" \notin Ops
  PROVE  Spec => DeletesItsNode
<1>1. NoMoveInv => [\A w \in Worker : DeleteCommit(w) => rows'[req[w].node].deleted]_vars
  <2> SUFFICES ASSUME NoMoveInv, NEW w \in Worker, DeleteCommit(w)
               PROVE  rows'[req[w].node].deleted
    OBVIOUS
  <2> DEFINE n == req[w].node
  <2>1. /\ IsTable(rows) /\ req[w].step = "stamping"
        /\ n \in DOMAIN rows /\ req[w].path = rows[n].path
        /\ rows[n].deleted \/ n \in req[w].picked
    BY DEF NoMoveInv, IInv, TypeOK, ReadsStand, DeleteCommit
  <2>2. rows[n].path \in Seq(Node)
    BY <2>1 DEF IsTable, Row
  <2>3. rows[n].deleted \/ n \in StillMatched(req[w])
    BY <2>1, <2>2, OwnPath DEF StillMatched, Matched, Live
  <2> QED
    BY <2>1, <2>3, DeleteCommitFacts
<1> QED
  BY <1>1, NoMoveInvAlways, PTL DEF Spec, DeletesItsNode

(* While nothing is moved, the counters of every live folder count the     *)
(* live rows beneath it, although a create may land in a folder that a     *)
(* delete has already picked, and two deletes may pick the same rows: each *)
(* one takes off what it stamps itself (applyAggregateDelta).              *)
THEOREM AggregatesWithoutMoves ==
  ASSUME "move" \notin Ops
  PROVE  Spec => []FolderAggregates
<1>1. CountsInv => FolderAggregates
  BY DEF CountsInv, Counted, FolderAggregates
<1> QED
  BY <1>1, CountsInvAlways, PTL

-----------------------------------------------------------------------------
(* A move, as a function on tables *)

(* The table as the rewrite of a move leaves it, before counters change. *)
Rewritten(t, n, dest) ==
  Relocate(t, Matched(t, t[n].path), n, dest, Append(LocationPath(t, dest), n), Len(t[n].path))

(* A whole subtree that is put beneath a location outside it hangs         *)
(* together there as it did before.                                        *)
LEMMA RelocateRooted ==
  ASSUME NEW t, IsTable(t), Rooted(t, Live(t)), NEW n \in Live(t),
         NEW dest \in Live(t) \cup {Root}, ~Within(LocationPath(t, dest), t[n].path)
  PROVE  LET S == Matched(t, t[n].path)
             v == Rewritten(t, n, dest)
         IN  /\ IsTable(v) /\ Alike(v, t) /\ Rooted(v, Live(t)) /\ Live(v) = Live(t)
             /\ dest \notin S /\ v[n].parent = dest
             /\ \A m \in DOMAIN t :
                  /\ m # n => v[m].parent = t[m].parent
                  /\ m \notin S => v[m].path = t[m].path
                  /\ v[m].name = t[m].name /\ Counters(v[m]) = Counters(t[m])
<1> DEFINE S == Matched(t, t[n].path)
           q == LocationPath(t, dest)
           newPath == Append(q, n)
           len == Len(t[n].path)
           v == Relocate(t, S, n, dest, newPath, len)
<1>1. /\ n \in DOMAIN t /\ n \in Node /\ t[n].path \in Seq(Node) /\ len \in Nat
      /\ t[n].path # <<>>
  <2>1. n \in Live(t) /\ n \in DOMAIN t
    BY DEF Live
  <2>2. n \in Node /\ t[n].path \in Seq(Node) /\ LocationPath(t, t[n].parent) \in Seq(Node)
        /\ Len(t[n].path) = Len(LocationPath(t, t[n].parent)) + 1
    BY <2>1, LocationOf
  <2> QED
    BY <2>1, <2>2
<1>2. q \in Seq(Node) /\ dest \in Node \cup {Root}
  <2>1. dest # Root => dest \in Node /\ t[dest].path \in Seq(Node)
    BY LocationOf
  <2> QED
    BY <2>1 DEF LocationPath
<1>3. newPath \in Seq(Node)
  BY <1>1, <1>2
<1>4. n \in S /\ S \subseteq Live(t) /\ Live(t) \subseteq DOMAIN t
      /\ \A m \in Live(t) : m \in S <=> m = n \/ n \in Ancestors(t, m)
  BY MatchedSubtree DEF Matched, Live
<1>5. dest \notin S /\ dest # n
  <2>1. Root \notin S
    BY <1>4, NodeAssumption DEF IsTable
  <2>2. dest # Root => ~Within(t[dest].path, t[n].path)
    BY DEF LocationPath
  <2>3. dest \notin S
    BY <2>1, <2>2 DEF Matched
  <2> QED
    BY <1>4, <2>3
<1> HIDE DEF q, newPath, len, S
<1>6. IsTable(v) /\ Alike(v, t)
  BY <1>1, <1>2, <1>3, RelocateTable
<1>7. \A m \in DOMAIN t :
        /\ v[m].path = IF m \in S THEN newPath \o SubSeq(t[m].path, len + 1, Len(t[m].path))
                       ELSE t[m].path
        /\ v[m].parent = IF m \in S /\ m = n THEN dest ELSE t[m].parent
        /\ v[m].name = t[m].name /\ Counters(v[m]) = Counters(t[m])
  BY RelocateRow
<1> HIDE DEF v
<1>8. v[n].path = newPath /\ v[n].parent = dest
  <2>1. SubSeq(t[n].path, len + 1, Len(t[n].path)) = <<>>
    BY <1>1, SubSeqEmpty DEF len
  <2>2. newPath \o <<>> = newPath
    BY <1>3, ConcatEmptySeq
  <2> QED
    BY <1>1, <1>4, <1>7, <2>1, <2>2
<1>9. ASSUME NEW m \in Live(t)
      PROVE  v[m].parent \in Live(t) \cup {Root} /\ PathFollowsParent(v, m)
  <2> DEFINE p == t[m].parent
  <2>1. /\ m \in DOMAIN t /\ m \in Node /\ p \in Live(t) \cup {Root}
        /\ t[m].path = Append(LocationPath(t, p), m)
    BY LocationOf DEF Rooted, Live
  <2>2. Ancestors(t, m) = IF p = Root THEN {} ELSE {p} \cup Ancestors(t, p)
    BY AncestorsStep, NodeAssumption DEF Rooted, IsTable
  <2>3. CASE m = n
    <3>1. LocationPath(v, dest) = q
      BY <1>4, <1>5, <1>7 DEF LocationPath, q
    <3> QED
      BY <1>8, <2>3, <3>1 DEF PathFollowsParent, newPath
  <2>4. CASE m \in S /\ m # n
    <3>1. p # Root /\ p \in Live(t) /\ p \in S
      BY <1>4, <2>1, <2>2, <2>4
    <3>2. v[m].parent = p /\ v[m].path = newPath \o SubSeq(t[m].path, len + 1, Len(t[m].path))
      BY <1>7, <2>1, <2>4
    <3>3. v[p].path = newPath \o SubSeq(t[p].path, len + 1, Len(t[p].path))
      BY <1>4, <1>7, <3>1
    <3>4. t[p].path \in Seq(Node) /\ t[m].path = Append(t[p].path, m)
      BY <2>1, <3>1, LocationOf DEF LocationPath
    <3>5. len <= Len(t[p].path)
      BY <1>1, <3>1, <3>4 DEF S, Matched, Within, IsPrefix, len
    <3> DEFINE g == t[p].path
    <3>6. g \in Seq(Node) /\ len <= Len(g)
      BY <3>4, <3>5
    <3> HIDE DEF p, g
    <3>7. newPath \o SubSeq(Append(g, m), len + 1, Len(Append(g, m)))
            = Append(newPath \o SubSeq(g, len + 1, Len(g)), m)
      BY <1>1, <1>3, <2>1, <3>6, TailAppend DEF len
    <3>8. v[m].path = Append(v[p].path, m)
      BY <3>2, <3>3, <3>4, <3>7 DEF g
    <3> QED
      BY <3>1, <3>2, <3>8, NodeAssumption DEF PathFollowsParent, LocationPath
  <2>5. CASE m \notin S
    <3>1. p # Root => p \in Live(t) /\ p \notin S
      BY <1>4, <2>1, <2>2, <2>5
    <3>2. v[m].parent = p /\ v[m].path = t[m].path
      BY <1>4, <1>7, <2>1, <2>5
    <3>3. LocationPath(v, p) = LocationPath(t, p)
      BY <1>4, <1>7, <3>1 DEF LocationPath
    <3> QED
      BY <2>1, <3>2, <3>3 DEF PathFollowsParent
  <2> QED
    BY <2>3, <2>4, <2>5
<1>10. Rooted(v, Live(t))
  BY <1>4, <1>6, <1>9 DEF Rooted, Alike
<1>11. Live(v) = Live(t)
  BY <1>6, AlikeWeight
<1>12. \A m \in DOMAIN t :
         /\ m # n => v[m].parent = t[m].parent
         /\ m \notin S => v[m].path = t[m].path
         /\ v[m].name = t[m].name /\ Counters(v[m]) = Counters(t[m])
  BY <1>7
<1> QED
  BY <1>5, <1>6, <1>8, <1>10, <1>11, <1>12 DEF Rewritten, S, q, newPath, len, v

(* The ancestors after a move: outside the subtree nothing changes, and    *)
(* inside it the chain above the subtree's root is exchanged.              *)
LEMMA RelocateAncestors ==
  ASSUME NEW t, IsTable(t), Rooted(t, Live(t)), NEW n \in Live(t),
         NEW dest \in Live(t) \cup {Root}, ~Within(LocationPath(t, dest), t[n].path)
  PROVE  LET S == Matched(t, t[n].path)
             v == Rewritten(t, n, dest)
             onto == AncestorIds(LocationPath(t, dest))
         IN  /\ onto \cap S = {} /\ Ancestors(t, n) \cap S = {}
             /\ \A m \in Live(t) \ S : Ancestors(v, m) = Ancestors(t, m) /\ Ancestors(t, m) \cap S = {}
             /\ \A m \in S : Ancestors(v, m) = (Ancestors(t, m) \cap S) \cup onto
             /\ \A m \in S : Ancestors(t, m) \ S = Ancestors(t, n)
<1> DEFINE S == Matched(t, t[n].path)
           v == Rewritten(t, n, dest)
           onto == AncestorIds(LocationPath(t, dest))
<1>1. /\ IsTable(v) /\ DOMAIN v = DOMAIN t /\ Rooted(v, Live(t)) /\ dest \notin S
      /\ v[n].parent = dest
      /\ \A m \in DOMAIN t : /\ m # n => v[m].parent = t[m].parent
                             /\ m \notin S => v[m].path = t[m].path
  BY RelocateRooted DEF Alike
<1> HIDE DEF v
<1>2. /\ n \in S /\ S \subseteq Live(t) /\ Live(t) \subseteq DOMAIN t /\ Root \notin DOMAIN t
      /\ \A m \in Live(t) : m \in S <=> m = n \/ n \in Ancestors(t, m)
  BY MatchedSubtree, NodeAssumption DEF Matched, Live, IsTable
<1> HIDE DEF S
<1>3. \A m \in Live(t) : m \notin Ancestors(t, m) /\ Ancestors(t, m) \subseteq Live(t)
  BY PathNamesAncestors
<1>4. ASSUME NEW m \in Live(t) \ S
      PROVE  Ancestors(v, m) = Ancestors(t, m) /\ Ancestors(t, m) \cap S = {}
  <2>1. Ancestors(v, m) = Ancestors(t, m)
    BY <1>1, <1>2, SamePathSameAncestors
  <2>2. ASSUME NEW a \in Ancestors(t, m), a \in S
        PROVE  FALSE
    <3>1. a \in Live(t) /\ (a = n \/ n \in Ancestors(t, a))
      BY <1>2, <2>2
    <3>2. n \in Ancestors(t, m)
      BY <2>2, <3>1, AncestorsChain
    <3> QED
      BY <1>2, <3>2
  <2> QED
    BY <2>1, <2>2
<1>5. Ancestors(t, n) \cap S = {}
  <2> SUFFICES ASSUME NEW a \in Ancestors(t, n), a \in S
               PROVE  FALSE
    OBVIOUS
  <2>1. n \in Ancestors(t, n)
    BY <1>2, AncestorsChain
  <2> QED
    BY <1>3, <2>1
<1>6. onto = IF dest = Root THEN {} ELSE Ancestors(t, dest) \cup {dest}
  BY PathNamesAncestors DEF LocationPath, AncestorIds, ToSet
<1>7. onto \cap S = {}
  BY <1>1, <1>4, <1>6
<1>8. Ancestors(v, n) = onto
  <2>1. Ancestors(v, n) = IF dest = Root THEN {} ELSE {dest} \cup Ancestors(v, dest)
    BY <1>1, <1>2, AncestorsStep
  <2> QED
    BY <1>1, <1>4, <1>6, <2>1
<1> HIDE DEF onto
<1> DEFINE G == {m \in Live(t) : m \in S => /\ Ancestors(v, m) = (Ancestors(t, m) \cap S) \cup onto
                                            /\ Ancestors(t, m) \ S = Ancestors(t, n)}
<1>9. ASSUME NEW m \in Live(t), t[m].parent = Root \/ t[m].parent \in G
      PROVE  m \in G
  <2> DEFINE p == t[m].parent
  <2>1. CASE m = n
    BY <1>2, <1>5, <1>8, <2>1
  <2>2. CASE m \notin S
    BY <2>2
  <2>3. CASE m \in S /\ m # n
    <3>1. Ancestors(t, m) = IF p = Root THEN {} ELSE {p} \cup Ancestors(t, p)
      BY <1>2, AncestorsStep DEF Rooted
    <3>2. p # Root /\ p \in Live(t) /\ p \in S
      BY <1>2, <2>3, <3>1 DEF Rooted
    <3>3. v[m].parent = p
      BY <1>1, <1>2, <2>3
    <3>4. Ancestors(v, m) = {p} \cup Ancestors(v, p)
      BY <1>1, <1>2, <3>2, <3>3, AncestorsStep
    <3>5. /\ Ancestors(v, p) = (Ancestors(t, p) \cap S) \cup onto
          /\ Ancestors(t, p) \ S = Ancestors(t, n)
      BY <1>9, <3>2
    <3> QED
      BY <3>1, <3>2, <3>4, <3>5
  <2> QED
    BY <2>1, <2>2, <2>3
<1>10. Live(t) \subseteq G
  <2>1. \A m \in Live(t) : t[m].parent = Root \/ t[m].parent \in G => m \in G
    BY <1>9
  <2> HIDE DEF G
  <2> QED
    BY <2>1, ParentInduction
<1>11. \A m \in S : /\ Ancestors(v, m) = (Ancestors(t, m) \cap S) \cup onto
                    /\ Ancestors(t, m) \ S = Ancestors(t, n)
  BY <1>2, <1>10
<1> QED
  BY <1>4, <1>5, <1>7, <1>11 DEF S, v, onto

(* A move that transfers what its subtree weighs keeps the counters right. *)
LEMMA MoveCounts ==
  ASSUME NEW t, IsTable(t), Rooted(t, Live(t)), Counted(t), NEW n \in Live(t),
         NEW dest \in Live(t) \cup {Root}, ~Within(LocationPath(t, dest), t[n].path),
         NEW u, u = Charge(Charge(Rewritten(t, n, dest), StrictAncestorIds(t[n].path),
                                  Negate(Carried(t[n]))),
                           AncestorIds(LocationPath(t, dest)), Carried(t[n]))
  PROVE  /\ IsTable(u) /\ Alike(u, t) /\ Rooted(u, Live(u)) /\ Live(u) = Live(t) /\ Counted(u)
         /\ u[n].parent = dest
         /\ \A m \in DOMAIN t : /\ m # n => u[m].parent = t[m].parent
                                /\ u[m].name = t[m].name
<1> DEFINE S == Matched(t, t[n].path)
           v == Rewritten(t, n, dest)
           from == StrictAncestorIds(t[n].path)
           onto == AncestorIds(LocationPath(t, dest))
           d == Carried(t[n])
           x == Charge(v, from, Negate(d))
<1>1. /\ IsTable(v) /\ Alike(v, t) /\ DOMAIN v = DOMAIN t /\ Rooted(v, Live(t))
      /\ v[n].parent = dest
      /\ \A m \in DOMAIN t : /\ m # n => v[m].parent = t[m].parent
                             /\ v[m].name = t[m].name /\ Counters(v[m]) = Counters(t[m])
  BY RelocateRooted DEF Alike
<1>2. /\ onto \cap S = {} /\ from \cap S = {}
      /\ \A m \in Live(t) \ S : Ancestors(v, m) = Ancestors(t, m) /\ Ancestors(t, m) \cap S = {}
      /\ \A m \in S : Ancestors(v, m) = (Ancestors(t, m) \cap S) \cup onto
      /\ \A m \in S : Ancestors(t, m) \ S = from
  BY RelocateAncestors, PathNamesAncestors
<1>3. d = Weight(t, S) /\ d \in Delta /\ Negate(d) \in Delta
  BY CarriedWeight, ChargeBack
<1>4. u = Charge(x, onto, d)
  OBVIOUS
<1> HIDE DEF v, from, onto, d
<1>5. IsTable(x) /\ Alike(x, v) /\ DOMAIN x = DOMAIN t
  BY <1>1, <1>3, ChargeTable DEF Alike
<1>6. \A m \in DOMAIN t :
        /\ x[m].parent = v[m].parent /\ x[m].path = v[m].path /\ x[m].name = v[m].name
        /\ Counters(x[m]) = IF m \in from THEN ChargeRoom(Counters(v[m]), Negate(d))
                            ELSE Counters(v[m])
  BY <1>1, <1>3, ChargeRow
<1> HIDE DEF x
<1>7. IsTable(u) /\ Alike(u, x) /\ DOMAIN u = DOMAIN t
  BY <1>3, <1>4, <1>5, ChargeTable DEF Alike
<1>8. \A m \in DOMAIN t :
        /\ u[m].parent = x[m].parent /\ u[m].path = x[m].path /\ u[m].name = x[m].name
        /\ Counters(u[m]) = IF m \in onto THEN ChargeRoom(Counters(x[m]), d)
                            ELSE Counters(x[m])
  BY <1>3, <1>4, <1>5, ChargeRow
<1>9. Alike(u, t)
  BY <1>1, <1>5, <1>7 DEF Alike
<1>10. /\ Live(u) = Live(t) /\ S \subseteq Live(t) /\ Live(t) \subseteq DOMAIN t
       /\ \A T \in SUBSET DOMAIN t : Weight(u, T) = Weight(t, T)
  BY <1>7, <1>9, AlikeWeight DEF Matched, Live
<1> HIDE DEF S
<1>11. SamePlaces(v, u)
  BY <1>1, <1>6, <1>7, <1>8 DEF SamePlaces
<1>12. Rooted(u, Live(t)) /\ \A m \in DOMAIN t : Ancestors(u, m) = Ancestors(v, m)
  BY <1>1, <1>11, SamePlacesSameTree, NodeAssumption DEF IsTable
<1>13. ASSUME NEW f \in Live(t)
       PROVE  Counters(u[f]) = Weight(u, Beneath(u, f))
  <2>1. /\ Counters(t[f]) = Weight(t, Beneath(t, f)) /\ f \in DOMAIN t
        /\ Beneath(t, f) \in SUBSET DOMAIN t /\ Counters(v[f]) = Counters(t[f])
    BY <1>1, <1>10 DEF Counted, CountersMatch, Beneath, Live
  <2>2. CASE f \in S
    <3>1. Beneath(u, f) = Beneath(t, f)
      <4>1. ASSUME NEW m \in Live(t)
            PROVE  f \in Ancestors(u, m) <=> f \in Ancestors(t, m)
        BY <1>2, <1>10, <1>12, <2>2
      <4> QED
        BY <1>10, <4>1 DEF Beneath
    <3>2. Counters(u[f]) = Counters(t[f])
      BY <1>2, <1>6, <1>8, <2>1, <2>2
    <3> QED
      BY <1>10, <2>1, <3>1, <3>2
  <2>3. CASE f \notin S
    <3> DEFINE A == Beneath(t, f) \ S
    <3>1. Beneath(u, f) = IF f \in onto THEN A \cup S ELSE A
      <4>1. ASSUME NEW m \in Live(t) \ S
            PROVE  f \in Ancestors(u, m) <=> f \in Ancestors(t, m)
        BY <1>2, <1>10, <1>12
      <4>2. ASSUME NEW m \in S
            PROVE  f \in Ancestors(u, m) <=> f \in onto
        BY <1>2, <1>10, <1>12, <2>3
      <4> QED
        BY <1>10, <4>1, <4>2 DEF Beneath
    <3>2. IF f \in from THEN S \subseteq Beneath(t, f) ELSE A = Beneath(t, f)
      BY <1>2, <1>10, <2>3 DEF Beneath
    <3>3. Weight(t, A) = IF f \in from THEN ChargeRoom(Counters(t[f]), Negate(d))
                         ELSE Counters(t[f])
      BY <1>3, <2>1, <3>2, WeightDifference
    <3>4. Weight(t, A \cup S) = ChargeRoom(Weight(t, A), d)
      BY <1>3, <1>10, <2>1, WeightJoin
    <3>5. Counters(x[f]) = Weight(t, A)
      BY <1>6, <2>1, <3>3
    <3>6. Counters(u[f]) = IF f \in onto THEN ChargeRoom(Weight(t, A), d) ELSE Weight(t, A)
      BY <1>8, <2>1, <3>5
    <3>7. Weight(u, Beneath(u, f)) = Weight(t, Beneath(u, f))
      BY <1>10, <2>1, <3>1
    <3> QED
      BY <3>1, <3>4, <3>6, <3>7
  <2> QED
    BY <2>2, <2>3
<1> QED
  BY <1>1, <1>6, <1>7, <1>8, <1>9, <1>10, <1>12, <1>13 DEF Counted, CountersMatch, v

-----------------------------------------------------------------------------
(* The invariant *)

OneAtATime == \A v, w \in Worker : v = w

Orderly(t) == Rooted(t, Live(t)) /\ Counted(t)

(* What a request has read of the table t still stands. *)
Fresh(r, t) ==
  /\ r.step = "creating" => IsLocation(t, r.parent) /\ r.path = LocationPath(t, r.parent)
  /\ r.step = "renaming" => r.node \in Live(t)
  /\ r.step \in {"deleting", "stamping"} => r.node \in Live(t) /\ r.path = t[r.node].path
  /\ r.step = "stamping" => r.picked = Matched(t, r.path)
  /\ r.step \in {"resolving", "moving", "relocating"} =>
       r.node \in Live(t) /\ r.path = t[r.node].path /\ r.delta = Carried(t[r.node])
  /\ r.step \in {"moving", "relocating"} =>
       /\ IsLocation(t, r.dest) /\ r.destPath = LocationPath(t, r.dest)
       /\ ~Within(r.destPath, r.path)
  /\ r.step = "relocating" => r.picked = Matched(t, r.path)

SerialInv == IInv /\ Orderly(rows) /\ \A w \in Worker : Fresh(req[w], rows)

(* What a client sees of a row. *)
Seen(row) ==
  [type |-> row.type, parent |-> row.parent, name |-> row.name, size |-> row.size,
   deleted |-> row.deleted]

-----------------------------------------------------------------------------
(* The commits *)

(* A create adds one folder, where it was asked to. *)
LEMMA SerialCreate ==
  ASSUME SerialInv, NEW w \in Worker, CreateCommit(w)
  PROVE  /\ Orderly(rows') /\ IsLocation(rows, req[w].parent)
         /\ \E n \in Node \ DOMAIN rows :
              /\ ~NameTaken(rows, n, req[w].parent, req[w].name)
              /\ DOMAIN rows' = DOMAIN rows \cup {n} /\ Live(rows') = Live(rows) \cup {n}
              /\ Seen(rows'[n]) = [type |-> "FOLDER", parent |-> req[w].parent,
                                   name |-> req[w].name, size |-> 0, deleted |-> FALSE]
              /\ \A m \in DOMAIN rows : Seen(rows'[m]) = Seen(rows[m])
<1> DEFINE r == req[w]
<1>1. /\ IsTable(rows) /\ Rooted(rows, Live(rows)) /\ Counted(rows) /\ IInv
      /\ IsLocation(rows, r.parent) /\ r.path = LocationPath(rows, r.parent)
  BY DEF SerialInv, IInv, TypeOK, CreateCommit, Fresh, Orderly
<1>2. PICK n \in Node \ DOMAIN rows, row \in Row :
        /\ ~NameTaken(rows, n, r.parent, r.name)
        /\ row.parent = r.parent /\ row.name = r.name
        /\ row.path = Append(LocationPath(rows, row.parent), n)
        /\ row.type = "FOLDER" /\ row.size = 0 /\ row.deleted = FALSE
        /\ row.totalSize = 0 /\ row.fileCount = 0 /\ row.folderCount = 0
        /\ rows' = Inserted(rows, n, row)
  BY <1>1, CreateInserts
<1> HIDE DEF r
<1>3. r.parent \in Live(rows) \cup {Root}
  BY <1>1 DEF IsLocation
<1> DEFINE u == Inserted(rows, n, row)
<1>4. Rooted(u, Live(rows) \cup {n}) /\ Counted(u)
  BY <1>1, <1>2, <1>3, InsertCounts
<1>5. InsertEffect(rows, n, row, u)
  BY <1>1, <1>2, InsertedRows
<1>6. rows' = u
  BY <1>2
<1> HIDE DEF u
<1>7. /\ DOMAIN u = DOMAIN rows \cup {n} /\ Live(u) = Live(rows) \cup {n}
      /\ Seen(u[n]) = [type |-> "FOLDER", parent |-> r.parent, name |-> r.name, size |-> 0,
                       deleted |-> FALSE]
  BY <1>2, <1>5 DEF InsertEffect, Seen
<1>8. \A m \in DOMAIN rows : Seen(u[m]) = Seen(rows[m])
  BY <1>5 DEF InsertEffect, Seen
<1> QED
  BY <1>1, <1>2, <1>4, <1>6, <1>7, <1>8 DEF Orderly, r

(* A rename gives one live row another name. *)
LEMMA SerialRename ==
  ASSUME SerialInv, NEW w \in Worker, RenameCommit(w)
  PROVE  /\ Orderly(rows') /\ req[w].node \in Live(rows)
         /\ ~NameTaken(rows, req[w].node, rows[req[w].node].parent, req[w].name)
         /\ DOMAIN rows' = DOMAIN rows /\ Live(rows') = Live(rows)
         /\ \A m \in DOMAIN rows :
              Seen(rows'[m]) = [Seen(rows[m]) EXCEPT !.name =
                                  IF m = req[w].node THEN req[w].name ELSE @]
<1> DEFINE r == req[w]
<1>1. /\ IsTable(rows) /\ Rooted(rows, Live(rows)) /\ Counted(rows)
      /\ r.node \in Live(rows)
  BY DEF SerialInv, IInv, TypeOK, RenameCommit, Fresh, Orderly
<1>2. ~NameTaken(rows, r.node, rows[r.node].parent, r.name)
  BY <1>1 DEF RenameCommit, Live
<1>3. /\ SamePlaces(rows, rows') /\ Alike(rows, rows')
      /\ \A m \in DOMAIN rows :
           /\ Counters(rows'[m]) = Counters(rows[m])
           /\ rows'[m].name = IF m = r.node THEN r.name ELSE rows[m].name
  BY <1>1, RenameChanges
<1> HIDE DEF r
<1>4. Rooted(rows', Live(rows)) /\ Counted(rows')
  BY <1>1, <1>3, SamePlacesSameTree, SameCounts, NodeAssumption DEF IsTable
<1>5. DOMAIN rows' = DOMAIN rows /\ Live(rows') = Live(rows)
  BY <1>3 DEF Alike, Live
<1>6. \A m \in DOMAIN rows :
        Seen(rows'[m]) = [Seen(rows[m]) EXCEPT !.name = IF m = r.node THEN r.name ELSE @]
  BY <1>3 DEF Seen, SamePlaces, Alike
<1> QED
  BY <1>1, <1>2, <1>4, <1>5, <1>6 DEF Orderly, r

(* A delete stamps a live node and all that is beneath it. *)
LEMMA SerialDelete ==
  ASSUME SerialInv, NEW w \in Worker, DeleteCommit(w)
  PROVE  /\ Orderly(rows') /\ req[w].node \in Live(rows) /\ DOMAIN rows' = DOMAIN rows
         /\ Live(rows') = Live(rows) \ (Beneath(rows, req[w].node) \cup {req[w].node})
         /\ \A m \in DOMAIN rows :
              Seen(rows'[m]) =
                [Seen(rows[m]) EXCEPT !.deleted =
                   @ \/ m \in Beneath(rows, req[w].node) \cup {req[w].node}]
<1> DEFINE r == req[w]
           n == r.node
           S == StillMatched(r)
<1>1. /\ IsTable(rows) /\ Rooted(rows, Live(rows)) /\ Counted(rows)
      /\ n \in Live(rows) /\ r.path = rows[n].path /\ r.picked = Matched(rows, r.path)
  BY DEF SerialInv, IInv, TypeOK, DeleteCommit, Fresh, Orderly
<1>2. rows' = Charge(Stamp(rows, S), StrictAncestorIds(rows[n].path), Negate(Weight(rows, S)))
  BY <1>1 DEF DeleteCommit
<1>3. S = Matched(rows, rows[n].path)
  BY <1>1 DEF StillMatched
<1> HIDE DEF S, r
<1>4. /\ S = Beneath(rows, n) \cup {n} /\ S \in SUBSET Live(rows)
      /\ \A m \in S : m = n \/ n \in Ancestors(rows, m)
      /\ \A m \in Live(rows) : m = n \/ n \in Ancestors(rows, m) => m \in S
  BY <1>1, <1>3, MatchedSubtree DEF Matched
<1> DEFINE u == Charge(Stamp(rows, S), StrictAncestorIds(rows[n].path), Negate(Weight(rows, S)))
<1>5. /\ IsTable(u) /\ DOMAIN u = DOMAIN rows /\ SamePlaces(rows, u)
      /\ Rooted(u, Live(rows)) /\ Live(u) = Live(rows) \ S /\ Counted(u)
      /\ \A m \in DOMAIN rows : /\ u[m].type = rows[m].type /\ u[m].name = rows[m].name
                                /\ u[m].size = rows[m].size
                                /\ u[m].deleted <=> (m \in S \/ rows[m].deleted)
  BY <1>1, <1>4, DeleteCounts
<1> HIDE DEF u
<1>6. Rooted(u, Live(u))
  <2>1. ASSUME NEW m \in Live(rows) \ S
        PROVE  u[m].parent \in (Live(rows) \ S) \cup {Root}
    <3>1. /\ m \in DOMAIN rows /\ u[m].parent = rows[m].parent
          /\ rows[m].parent \in Live(rows) \cup {Root}
      BY <1>1, <1>5 DEF SamePlaces, Rooted, Live
    <3>2. rows[m].parent # Root => rows[m].parent \in Ancestors(rows, m)
      BY <1>1, <3>1, AncestorsStep, NodeAssumption DEF Rooted, IsTable
    <3>3. rows[m].parent # Root => n # rows[m].parent /\ n \notin Ancestors(rows, rows[m].parent)
      BY <1>1, <1>4, <3>2, AncestorsChain
    <3> QED
      BY <1>4, <3>1, <3>3
  <2> QED
    BY <1>5, <2>1 DEF Rooted
<1>7. ASSUME NEW m \in DOMAIN rows
      PROVE  Seen(u[m]) = [Seen(rows[m]) EXCEPT !.deleted = @ \/ m \in S]
  <2>1. rows[m].deleted \in BOOLEAN /\ u[m].deleted \in BOOLEAN
    BY <1>1, <1>5 DEF IsTable, Row
  <2>2. u[m].deleted = (rows[m].deleted \/ m \in S)
    BY <1>5, <2>1
  <2> QED
    BY <1>5, <2>2 DEF Seen, SamePlaces
<1>8. rows' = u
  BY <1>2 DEF u
<1> QED
  BY <1>1, <1>4, <1>5, <1>6, <1>7, <1>8 DEF Orderly, r

(* A move gives one live row another parent, outside its own subtree. *)
LEMMA SerialMove ==
  ASSUME SerialInv, NEW w \in Worker, MoveCommit(w)
  PROVE  /\ Orderly(rows') /\ req[w].node \in Live(rows) /\ IsLocation(rows, req[w].dest)
         /\ req[w].dest \notin Beneath(rows, req[w].node) \cup {req[w].node}
         /\ ~NameTaken(rows, req[w].node, req[w].dest, rows[req[w].node].name)
         /\ DOMAIN rows' = DOMAIN rows /\ Live(rows') = Live(rows)
         /\ \A m \in DOMAIN rows :
              Seen(rows'[m]) = [Seen(rows[m]) EXCEPT !.parent =
                                  IF m = req[w].node THEN req[w].dest ELSE @]
<1> DEFINE r == req[w]
           n == r.node
           dest == r.dest
<1>1. /\ IsTable(rows) /\ Rooted(rows, Live(rows)) /\ Counted(rows)
      /\ n \in Live(rows) /\ r.path = rows[n].path /\ r.picked = Matched(rows, r.path)
      /\ r.delta = Carried(rows[n]) /\ IsLocation(rows, dest)
      /\ r.destPath = LocationPath(rows, dest) /\ ~Within(r.destPath, r.path)
  BY DEF SerialInv, IInv, TypeOK, MoveCommit, Fresh, Orderly
<1>2. StillMatched(r) = Matched(rows, rows[n].path)
  BY <1>1 DEF StillMatched
<1>3. n \in Matched(rows, rows[n].path)
  BY <1>1, MatchedSubtree
<1> DEFINE u == Charge(Charge(Rewritten(rows, n, dest), StrictAncestorIds(rows[n].path),
                              Negate(Carried(rows[n]))),
                       AncestorIds(LocationPath(rows, dest)), Carried(rows[n]))
<1>4. /\ ~NameTaken(rows, n, dest, rows[n].name)
      /\ rows' = u
  BY <1>1, <1>2, <1>3 DEF MoveCommit, Transfer, Rewritten
<1> HIDE DEF r
<1>5. dest \in Live(rows) \cup {Root} /\ ~Within(LocationPath(rows, dest), rows[n].path)
  BY <1>1 DEF IsLocation
<1>6. /\ IsTable(u) /\ Alike(u, rows) /\ Rooted(u, Live(u)) /\ Live(u) = Live(rows)
      /\ Counted(u) /\ u[n].parent = dest
      /\ \A m \in DOMAIN rows : /\ m # n => u[m].parent = rows[m].parent
                                /\ u[m].name = rows[m].name
  BY <1>1, <1>5, MoveCounts
<1>7. dest \notin Beneath(rows, n) \cup {n}
  BY <1>1, <1>5, RelocateRooted, MatchedSubtree
<1> HIDE DEF u
<1>8. \A m \in DOMAIN rows :
        Seen(u[m]) = [Seen(rows[m]) EXCEPT !.parent = IF m = n THEN dest ELSE @]
  BY <1>6 DEF Seen, Alike
<1> QED
  BY <1>1, <1>4, <1>6, <1>7, <1>8 DEF Orderly, Alike, r

-----------------------------------------------------------------------------
(* The invariant holds throughout *)

(* What a worker takes up still stands when it has taken it up. *)
LEMMA SerialTakenUp ==
  ASSUME SerialInv, NEW w \in Worker, TreeStep(w)
  PROVE  Fresh(req'[w], rows')
<1>1. /\ IsTable(rows) /\ req \in [Worker -> Request] /\ req[w] \in Request
      /\ Fresh(req[w], rows) /\ Orderly(rows)
  BY DEF SerialInv, IInv, TypeOK
<1>2. ASSUME NEW p \in Node \cup {Root}, NEW name \in Name, CreateResolve(w, p, name)
      PROVE  Fresh(req'[w], rows')
  <2> DEFINE r == [step |-> "creating", parent |-> p, path |-> LocationPath(rows, p),
                   name |-> name]
  <2>1. req'[w] = r /\ rows' = rows /\ IsLocation(rows, p)
    BY <1>1, <1>2 DEF CreateResolve, Hold
  <2>2. r.step = "creating" /\ r.parent = p /\ r.path = LocationPath(rows, p)
    OBVIOUS
  <2> HIDE DEF r
  <2> QED
    BY <2>1, <2>2 DEF Fresh
<1>3. ASSUME NEW n \in Node, NEW name \in Name, RenameResolve(w, n, name)
      PROVE  Fresh(req'[w], rows')
  <2> DEFINE r == [step |-> "renaming", node |-> n, name |-> name]
  <2>1. req'[w] = r /\ rows' = rows /\ n \in Live(rows)
    BY <1>1, <1>3 DEF RenameResolve, Hold
  <2>2. r.step = "renaming" /\ r.node = n
    OBVIOUS
  <2> HIDE DEF r
  <2> QED
    BY <2>1, <2>2 DEF Fresh
<1>4. ASSUME NEW n \in Node, DeleteResolve(w, n)
      PROVE  Fresh(req'[w], rows')
  <2> DEFINE r == [step |-> "deleting", node |-> n, path |-> rows[n].path, picked |-> {}]
  <2>1. req'[w] = r /\ rows' = rows /\ n \in Live(rows)
    BY <1>1, <1>4 DEF DeleteResolve, Hold
  <2>2. r.step = "deleting" /\ r.node = n /\ r.path = rows[n].path
    OBVIOUS
  <2> HIDE DEF r
  <2> QED
    BY <2>1, <2>2 DEF Fresh
<1>5. CASE DeletePick(w)
  <2> DEFINE picked == Matched(rows, req[w].path)
             r == [req[w] EXCEPT !.step = "stamping", !.picked = picked]
  <2>1. req[w] \in DeleteReq /\ req[w].step = "deleting"
    BY <1>1, <1>5, RequestKind DEF DeletePick
  <2>2. req'[w] = r /\ rows' = rows
    BY <1>1, <1>5 DEF DeletePick, Hold
  <2>3. req[w].node \in Live(rows) /\ req[w].path = rows[req[w].node].path
    BY <1>1, <2>1 DEF Fresh
  <2>4. /\ r.step = "stamping" /\ r.node = req[w].node /\ r.path = req[w].path
        /\ r.picked = picked
    BY <2>1 DEF DeleteReq
  <2> HIDE DEF r
  <2> QED
    BY <2>2, <2>3, <2>4 DEF Fresh
<1>6. ASSUME NEW n \in Node, NEW dest \in Node \cup {Root}, MoveResolve(w, n, dest)
      PROVE  Fresh(req'[w], rows')
  <2> DEFINE r == [step |-> "resolving", node |-> n, path |-> rows[n].path,
                   parent |-> rows[n].parent, delta |-> Carried(rows[n]), dest |-> dest,
                   destPath |-> <<>>, picked |-> {}]
  <2>1. req'[w] = r /\ rows' = rows /\ n \in Live(rows)
    BY <1>1, <1>6 DEF MoveResolve, Hold
  <2>2. /\ r.step = "resolving" /\ r.node = n /\ r.path = rows[n].path
        /\ r.delta = Carried(rows[n])
    OBVIOUS
  <2> HIDE DEF r
  <2> QED
    BY <2>1, <2>2 DEF Fresh
<1>7. CASE MoveResolveDest(w)
  <2> DEFINE destPath == LocationPath(rows, req[w].dest)
             r == [req[w] EXCEPT !.step = "moving", !.destPath = destPath]
  <2>1. req[w] \in MoveReq /\ req[w].step = "resolving"
    BY <1>1, <1>7, RequestKind DEF MoveResolveDest
  <2>2. /\ req'[w] = r /\ rows' = rows /\ IsLocation(rows, req[w].dest)
        /\ ~Within(destPath, req[w].path)
    BY <1>1, <1>7 DEF MoveResolveDest, MoveAllowed, Hold
  <2>3. /\ req[w].node \in Live(rows) /\ req[w].path = rows[req[w].node].path
        /\ req[w].delta = Carried(rows[req[w].node])
    BY <1>1, <2>1 DEF Fresh
  <2>4. /\ r.step = "moving" /\ r.node = req[w].node /\ r.path = req[w].path
        /\ r.delta = req[w].delta /\ r.dest = req[w].dest /\ r.destPath = destPath
    BY <2>1 DEF MoveReq
  <2> HIDE DEF r
  <2> QED
    BY <2>2, <2>3, <2>4 DEF Fresh
<1>8. CASE MovePick(w)
  <2> DEFINE picked == Matched(rows, req[w].path)
             r == [req[w] EXCEPT !.step = "relocating", !.picked = picked]
  <2>1. req[w] \in MoveReq /\ req[w].step = "moving"
    BY <1>1, <1>8, RequestKind DEF MovePick
  <2>2. req'[w] = r /\ rows' = rows
    BY <1>1, <1>8 DEF MovePick, Hold
  <2>3. /\ req[w].node \in Live(rows) /\ req[w].path = rows[req[w].node].path
        /\ req[w].delta = Carried(rows[req[w].node])
        /\ IsLocation(rows, req[w].dest) /\ req[w].destPath = LocationPath(rows, req[w].dest)
        /\ ~Within(req[w].destPath, req[w].path)
    BY <1>1, <2>1 DEF Fresh
  <2>4. /\ r.step = "relocating" /\ r.node = req[w].node /\ r.path = req[w].path
        /\ r.delta = req[w].delta /\ r.dest = req[w].dest /\ r.destPath = req[w].destPath
        /\ r.picked = picked
    BY <2>1 DEF MoveReq
  <2> HIDE DEF r
  <2> QED
    BY <2>2, <2>3, <2>4 DEF Fresh
<1>9. CASE Answer(w)
  <2>1. req'[w].step = "idle"
    BY <1>1, <1>9 DEF Answer, Hold, Idle
  <2> QED
    BY <2>1 DEF Fresh
<1> QED
  BY <1>2, <1>3, <1>4, <1>5, <1>6, <1>7, <1>8, <1>9
  DEF TreeStep, Create, Rename, Delete, Move, CreateCommit, RenameCommit, DeleteCommit,
      MoveCommit, Fail

(* A read leaves the table as it was. *)
LEMMA ReadsOnly ==
  ASSUME NEW w \in Worker, TreeStep(w), ~CreateCommit(w), ~RenameCommit(w), ~DeleteCommit(w),
         ~MoveCommit(w)
  PROVE  UNCHANGED <<rows, room>>
BY DEF TreeStep, Create, Rename, Delete, Move, CreateResolve, RenameResolve, DeleteResolve,
       DeletePick, MoveResolve, MoveResolveDest, MovePick, Fail

(* No request breaks the invariant if there is no other. *)
LEMMA SerialKeeps ==
  ASSUME OneAtATime, SerialInv, NEW w \in Worker, TreeStep(w)
  PROVE  SerialInv'
<1>1. IInv'
  BY TreeStepKeeps DEF SerialInv
<1>2. Orderly(rows')
  <2>1. CASE UNCHANGED <<rows, room>>
    BY <2>1 DEF SerialInv
  <2> QED
    BY <2>1, ReadsOnly, SerialCreate, SerialRename, SerialDelete, SerialMove
<1>3. \A v \in Worker : Fresh(req'[v], rows')
  BY SerialTakenUp DEF OneAtATime
<1> QED
  BY <1>1, <1>2, <1>3 DEF SerialInv

(* A sound table is an orderly one, and nothing has been read yet. *)
LEMMA SerialInit ==
  ASSUME Init
  PROVE  SerialInv
<1>1. IInv
  BY InitKeeps
<1>2. Sound(rows)
  BY SoundStart DEF Init
<1>3. Orderly(rows)
  BY <1>2 DEF Sound, Orderly, Rooted, Counted, IsLocation, Live
<1>4. \A w \in Worker : Fresh(req[w], rows)
  BY DEF Init, Fresh, Idle
<1> QED
  BY <1>1, <1>3, <1>4 DEF SerialInv

(* A step that touches none of the tree's variables keeps the invariant. *)
LEMMA SerialStutter ==
  ASSUME SerialInv, UNCHANGED vars
  PROVE  SerialInv'
<1>1. IInv'
  BY StutterKeeps DEF SerialInv
<1> QED
  BY <1>1 DEF SerialInv, vars

(* So it holds throughout. *)
LEMMA SerialInvAlways ==
  ASSUME OneAtATime
  PROVE  Spec => []SerialInv
<1>1. Init => SerialInv
  BY SerialInit
<1>2. SerialInv /\ [Next]_vars => SerialInv'
  BY SerialKeeps, SerialStutter DEF Next
<1> QED
  BY <1>1, <1>2, PTL DEF Spec

-----------------------------------------------------------------------------
(* Theorems *)

(* One request at a time, moves included, the path of every live node is   *)
(* its parent's path and its own id: the rewrite of a move (moveSubtree)   *)
(* reaches the whole subtree and nothing else.                             *)
THEOREM PathsFollowOneAtATime ==
  ASSUME OneAtATime
  PROVE  Spec => []PathsFollowParents
<1>1. SerialInv => PathsFollowParents
  BY DEF SerialInv, Orderly, Rooted, PathsFollowParents
<1> QED
  BY <1>1, SerialInvAlways, PTL

(* One request at a time, the counters of every live folder count the live *)
(* rows beneath it, through creates, renames, deletes and moves.           *)
THEOREM AggregatesOneAtATime ==
  ASSUME OneAtATime
  PROVE  Spec => []FolderAggregates
<1>1. SerialInv => FolderAggregates
  BY DEF SerialInv, Orderly, Counted, FolderAggregates
<1> QED
  BY <1>1, SerialInvAlways, PTL

(* One request at a time, no move puts a folder beneath itself: the test   *)
(* newParent.path.startsWith(node.path) is enough (node.service.ts).       *)
THEOREM NoCyclesOneAtATime ==
  ASSUME OneAtATime
  PROVE  Spec => []NoCycles
<1>1. SerialInv => NoCycles
  BY PathNamesAncestors DEF SerialInv, IInv, TypeOK, Orderly, NoCycles
<1> QED
  BY <1>1, SerialInvAlways, PTL

(* One request at a time, no live node has a deleted ancestor: a read by   *)
(* id may look at deletedAt of the node alone.                             *)
THEOREM LiveUnderLiveOneAtATime ==
  ASSUME OneAtATime
  PROVE  Spec => []LiveUnderLive
<1>1. SerialInv => LiveUnderLive
  BY PathNamesAncestors DEF SerialInv, IInv, TypeOK, Orderly, LiveUnderLive
<1> QED
  BY <1>1, SerialInvAlways, PTL

(* One request at a time, a delete that answers has deleted the node and   *)
(* everything beneath it (deleteSubtree).                                  *)
THEOREM DeletesWholeOneAtATime ==
  ASSUME OneAtATime
  PROVE  Spec => DeletesWholeSubtree
<1>1. SerialInv => [\A w \in Worker : DeleteCommit(w) =>
                      \A n \in Live(rows) :
                        (n = req[w].node \/ req[w].node \in Ancestors(rows, n))
                           => rows'[n].deleted]_vars
  <2> SUFFICES ASSUME SerialInv, NEW w \in Worker, DeleteCommit(w), NEW n \in Live(rows),
                      n = req[w].node \/ req[w].node \in Ancestors(rows, n)
               PROVE  rows'[n].deleted
    OBVIOUS
  <2>1. n \in Beneath(rows, req[w].node) \cup {req[w].node} /\ n \in DOMAIN rows
    BY DEF Beneath, Live
  <2>2. n \in DOMAIN rows' /\ n \notin Live(rows')
    BY <2>1, SerialDelete
  <2> QED
    BY <2>2 DEF Live
<1> QED
  BY <1>1, SerialInvAlways, PTL DEF Spec, DeletesWholeSubtree


-----------------------------------------------------------------------------
(* The refinement *)

(* The tree that a table shows. *)
Tree(t) == [n \in DOMAIN t |-> Seen(t[n])]

(* RoomTree's operators, on that tree, are those of the table. *)
LEMMA TreeOperators ==
  ASSUME NEW t
  PROVE  /\ Abstract!Alive(Tree(t)) = Live(t)
         /\ \A n \in DOMAIN t : Abstract!Above(Tree(t), n) = Ancestors(t, n)
         /\ \A n \in DOMAIN t : Abstract!Subtree(Tree(t), n) =
              {m \in Live(t) : m = n \/ n \in Ancestors(t, m)}
         /\ \A S \in SUBSET DOMAIN t : Abstract!Count(Tree(t), S) = Weight(t, S)
<1>1. /\ DOMAIN Tree(t) = DOMAIN t
      /\ \A n \in DOMAIN t : /\ Tree(t)[n].parent = t[n].parent /\ Tree(t)[n].type = t[n].type
                             /\ Tree(t)[n].size = t[n].size /\ Tree(t)[n].deleted = t[n].deleted
  BY DEF Tree, Seen
<1>2. Abstract!Alive(Tree(t)) = Live(t)
  BY <1>1 DEF Abstract!Alive, Live
<1>3. ASSUME NEW n \in DOMAIN t
      PROVE  Abstract!Above(Tree(t), n) = Ancestors(t, n)
  <2>1. ASSUME NEW S \in SUBSET DOMAIN t
        PROVE  (\E m \in {n} \cup S : Tree(t)[m].parent \notin S \cup {Root}) <=> ~Upward(t, n, S)
    BY <1>1 DEF Upward
  <2> QED
    BY <1>1, <2>1 DEF Abstract!Above, Ancestors
<1>4. \A n \in DOMAIN t : Abstract!Subtree(Tree(t), n) =
        {m \in Live(t) : m = n \/ n \in Ancestors(t, m)}
  <2>1. Live(t) \subseteq DOMAIN t
    BY DEF Live
  <2> QED
    BY <1>2, <1>3, <2>1 DEF Abstract!Subtree
<1>5. ASSUME NEW S \in SUBSET DOMAIN t
      PROVE  Abstract!Count(Tree(t), S) = Weight(t, S)
  <2>1. Abstract!Bytes(Tree(t), S) = Cells(t, S)
    BY <1>1 DEF Abstract!Bytes, Cells
  <2>2. /\ {n \in S : Tree(t)[n].type = "FILE"} = Files(t, S)
        /\ {n \in S : Tree(t)[n].type = "FOLDER"} = Folders(t, S)
    BY <1>1 DEF Files, Folders
  <2>3. \A B : Abstract!Cardinality(B) = Cardinality(B)
    BY DEF Abstract!Cardinality, Cardinality
  <2> QED
    BY <2>1, <2>2, <2>3 DEF Abstract!Count, Weight
<1> QED
  BY <1>2, <1>3, <1>4, <1>5

(* An orderly table with a room that counts it shows its tree as RoomTree  *)
(* would.                                                                  *)
LEMMA BecomesTree ==
  ASSUME IsTable(rows'), Orderly(rows'), RoomTotals'
  PROVE  Abstract!Become(Tree(rows'))
<1> DEFINE t == rows'
<1>1. Live(t) \subseteq DOMAIN t
  BY DEF Live
<1>2. ASSUME NEW n \in Live(t)
      PROVE  Counters(t[n]) = Abstract!Count(Tree(t), Abstract!Subtree(Tree(t), n) \ {n})
  <2>1. n \in DOMAIN t /\ n \notin Ancestors(t, n)
    BY <1>1, PathNamesAncestors DEF Orderly
  <2>2. Abstract!Subtree(Tree(t), n) \ {n} = Beneath(t, n)
    BY <2>1, TreeOperators DEF Beneath
  <2>3. Beneath(t, n) \in SUBSET DOMAIN t
    BY <1>1 DEF Beneath
  <2>4. Counters(t[n]) = Weight(t, Beneath(t, n))
    BY DEF Orderly, Counted, CountersMatch
  <2> QED
    BY <2>2, <2>3, <2>4, TreeOperators
<1>3. room' = Abstract!Count(Tree(t), Abstract!Alive(Tree(t)))
  BY <1>1, TreeOperators DEF RoomTotals
<1>4. Abstract!Alive(Tree(t)) = Live(t)
  BY TreeOperators
<1>5. [n \in Live(t) |-> Counters(t[n])] =
        [n \in Abstract!Alive(Tree(t)) |->
           Abstract!Count(Tree(t), Abstract!Subtree(Tree(t), n) \ {n})]
  BY <1>2, <1>4
<1>6. Abstract!Recount(Tree(t))
  BY <1>3, <1>5 DEF Abstract!Recount
<1> QED
  BY <1>6 DEF Abstract!Become, Tree, Seen

(* A name is free, and a place a folder, in both.                          *)
LEMMA TreeChecks ==
  ASSUME NEW t, NEW n, NEW p, NEW name
  PROVE  /\ ~NameTaken(t, n, p, name) => Abstract!Free(Tree(t), n, p, name)
         /\ IsLocation(t, p) => Abstract!IsFolder(Tree(t), p)
<1>1. /\ \A m \in DOMAIN t : /\ Tree(t)[m].parent = t[m].parent /\ Tree(t)[m].type = t[m].type
                             /\ Tree(t)[m].name = t[m].name
      /\ Live(t) \subseteq DOMAIN t
  BY DEF Tree, Seen, Live
<1>2. Abstract!Alive(Tree(t)) = Live(t)
  BY TreeOperators
<1>3. ASSUME ~NameTaken(t, n, p, name)
      PROVE  Abstract!Free(Tree(t), n, p, name)
  BY <1>1, <1>2, <1>3 DEF NameTaken, Abstract!Free
<1>4. ASSUME IsLocation(t, p)
      PROVE  Abstract!IsFolder(Tree(t), p)
  BY <1>1, <1>2, <1>4 DEF IsLocation, Abstract!IsFolder
<1> QED
  BY <1>3, <1>4

(* The commit of a create creates a folder. *)
LEMMA CreateMaps ==
  ASSUME SerialInv, SerialInv', NEW w \in Worker, CreateCommit(w)
  PROVE  Abstract!Next
<1>1. PICK p \in Node \cup {Root}, name \in Name : p = req[w].parent /\ name = req[w].name
  <2>1. req[w] \in CreateReq
    BY RequestKind DEF SerialInv, IInv, TypeOK, CreateCommit
  <2> QED
    BY <2>1 DEF CreateReq
<1> DEFINE new == [type |-> "FOLDER", parent |-> p, name |-> name, size |-> 0, deleted |-> FALSE]
<1>2. PICK n \in Node \ DOMAIN rows :
        /\ ~NameTaken(rows, n, p, name) /\ DOMAIN rows' = DOMAIN rows \cup {n}
        /\ Seen(rows'[n]) = new
        /\ \A m \in DOMAIN rows : Seen(rows'[m]) = Seen(rows[m])
  BY <1>1, SerialCreate
<1>3. IsLocation(rows, p)
  BY <1>1, SerialCreate
<1> HIDE DEF new
<1> DEFINE u == [m \in DOMAIN Tree(rows) \cup {n} |-> IF m = n THEN new ELSE Tree(rows)[m]]
<1>4. Tree(rows') = u
  BY <1>2 DEF Tree
<1>5. Abstract!Become(Tree(rows'))
  BY BecomesTree DEF SerialInv, IInv, TypeOK
<1>6. Abstract!Become(u)
  BY <1>4, <1>5 DEF Abstract!Become, Abstract!Recount
<1>7. /\ Abstract!IsFolder(Tree(rows), p) /\ Abstract!Free(Tree(rows), n, p, name)
      /\ n \notin DOMAIN Tree(rows)
  BY <1>2, <1>3, TreeChecks DEF Tree
<1>8. Abstract!CreateFolder(n, p, name)
  BY <1>6, <1>7 DEF Abstract!CreateFolder, Tree, Seen, new
<1> QED
  BY <1>8 DEF Abstract!Next

(* The commit of a rename renames. *)
LEMMA RenameMaps ==
  ASSUME SerialInv, SerialInv', NEW w \in Worker, RenameCommit(w)
  PROVE  Abstract!Next
<1>1. PICK n \in Node, name \in Name : n = req[w].node /\ name = req[w].name
  <2>1. req[w] \in RenameReq
    BY RequestKind DEF SerialInv, IInv, TypeOK, RenameCommit
  <2> QED
    BY <2>1 DEF RenameReq
<1>2. /\ n \in Live(rows) /\ ~NameTaken(rows, n, rows[n].parent, name)
      /\ DOMAIN rows' = DOMAIN rows
      /\ \A m \in DOMAIN rows :
           Seen(rows'[m]) = [Seen(rows[m]) EXCEPT !.name = IF m = n THEN name ELSE @]
  BY <1>1, SerialRename
<1> DEFINE u == [Tree(rows) EXCEPT ![n].name = name]
<1>3. Tree(rows') = u
  <2>1. ASSUME NEW m \in DOMAIN rows
        PROVE  Seen(rows'[m]) = IF m = n THEN [Seen(rows[m]) EXCEPT !.name = name]
                                         ELSE Seen(rows[m])
    BY <1>2 DEF Seen
  <2> QED
    BY <1>2, <2>1 DEF Tree
<1>4. Abstract!Become(Tree(rows'))
  BY BecomesTree DEF SerialInv, IInv, TypeOK
<1>5. Abstract!Become(u)
  BY <1>3, <1>4 DEF Abstract!Become, Abstract!Recount
<1>6. n \in Abstract!Alive(Tree(rows)) /\ Tree(rows)[n].parent = rows[n].parent
  BY <1>2, TreeOperators DEF Tree, Seen, Live
<1>7. Abstract!Free(Tree(rows), n, Tree(rows)[n].parent, name)
  BY <1>2, <1>6, TreeChecks
<1>8. Abstract!Rename(n, name)
  BY <1>5, <1>6, <1>7 DEF Abstract!Rename, Tree, Seen
<1> QED
  BY <1>8 DEF Abstract!Next

(* The commit of a delete deletes a whole subtree. *)
LEMMA DeleteMaps ==
  ASSUME SerialInv, SerialInv', NEW w \in Worker, DeleteCommit(w)
  PROVE  Abstract!Next
<1>1. PICK n \in Node : n = req[w].node
  BY SerialDelete DEF SerialInv, IInv, TypeOK, IsTable, Live
<1> DEFINE S == Beneath(rows, n) \cup {n}
<1>2. /\ n \in Live(rows) /\ DOMAIN rows' = DOMAIN rows
      /\ \A m \in DOMAIN rows :
           Seen(rows'[m]) = [Seen(rows[m]) EXCEPT !.deleted = @ \/ m \in S]
  BY <1>1, SerialDelete
<1>3. S = Abstract!Subtree(Tree(rows), n)
  <2>1. n \in DOMAIN rows
    BY <1>2 DEF Live
  <2> QED
    BY <1>2, <2>1, TreeOperators DEF Beneath
<1> HIDE DEF S
<1> DEFINE u == [m \in DOMAIN Tree(rows) |->
                   [Tree(rows)[m] EXCEPT !.deleted = @ \/ m \in Abstract!Subtree(Tree(rows), n)]]
<1>4. Tree(rows') = u
  BY <1>2, <1>3 DEF Tree
<1>5. Abstract!Become(Tree(rows')) /\ n \in Abstract!Alive(Tree(rows))
  BY <1>2, BecomesTree, TreeOperators DEF SerialInv, IInv, TypeOK
<1>6. Abstract!Become(u)
  BY <1>4, <1>5 DEF Abstract!Become, Abstract!Recount
<1>7. Abstract!Delete(n)
  BY <1>5, <1>6 DEF Abstract!Delete, Tree, Seen
<1> QED
  BY <1>7 DEF Abstract!Next

(* The commit of a move moves. *)
LEMMA MoveMaps ==
  ASSUME SerialInv, SerialInv', NEW w \in Worker, MoveCommit(w)
  PROVE  Abstract!Next
<1>1. PICK n \in Node, dest \in Node \cup {Root} : n = req[w].node /\ dest = req[w].dest
  BY SerialMove DEF SerialInv, IInv, TypeOK, IsTable, Live, IsLocation
<1>2. /\ n \in Live(rows) /\ IsLocation(rows, dest) /\ dest \notin Beneath(rows, n) \cup {n}
      /\ ~NameTaken(rows, n, dest, rows[n].name) /\ DOMAIN rows' = DOMAIN rows
      /\ \A m \in DOMAIN rows :
           Seen(rows'[m]) = [Seen(rows[m]) EXCEPT !.parent = IF m = n THEN dest ELSE @]
  BY <1>1, SerialMove
<1> DEFINE u == [Tree(rows) EXCEPT ![n].parent = dest]
<1>3. Tree(rows') = u
  <2>1. ASSUME NEW m \in DOMAIN rows
        PROVE  Seen(rows'[m]) = IF m = n THEN [Seen(rows[m]) EXCEPT !.parent = dest]
                                         ELSE Seen(rows[m])
    BY <1>2 DEF Seen
  <2> QED
    BY <1>2, <2>1 DEF Tree
<1>4. Abstract!Become(Tree(rows'))
  BY BecomesTree DEF SerialInv, IInv, TypeOK
<1>5. Abstract!Become(u)
  BY <1>3, <1>4 DEF Abstract!Become, Abstract!Recount
<1>6. n \in Abstract!Alive(Tree(rows)) /\ Tree(rows)[n].name = rows[n].name
  BY <1>2, TreeOperators DEF Tree, Seen, Live
<1>7. dest \notin Abstract!Subtree(Tree(rows), n)
  <2>1. n \in DOMAIN rows
    BY <1>2 DEF Live
  <2> QED
    BY <1>2, <2>1, TreeOperators DEF Beneath
<1>8. Abstract!IsFolder(Tree(rows), dest) /\ Abstract!Free(Tree(rows), n, dest, Tree(rows)[n].name)
  BY <1>2, <1>6, TreeChecks
<1>9. Abstract!Move(n, dest)
  BY <1>5, <1>6, <1>7, <1>8 DEF Abstract!Move, Tree, Seen
<1> QED
  BY <1>9 DEF Abstract!Next

(* An orderly table with a room that counts it shows a tree.               *)
LEMMA InitMaps ==
  ASSUME Init
  PROVE  Abstract!Init
<1>1. IsTable(rows) /\ Rooted(rows, Live(rows)) /\ room = Weight(rows, Live(rows))
  BY SerialInit DEF SerialInv, IInv, TypeOK, Orderly, Init
<1>2. /\ Abstract!Alive(Tree(rows)) = Live(rows) /\ Live(rows) \in SUBSET DOMAIN rows
  BY TreeOperators DEF Live
<1>3. room = Abstract!Count(Tree(rows), Abstract!Alive(Tree(rows)))
  BY <1>1, <1>2, TreeOperators
<1>4. \A n \in Abstract!Alive(Tree(rows)) :
        /\ n \notin Abstract!Above(Tree(rows), n)
        /\ Abstract!Above(Tree(rows), n) \subseteq Abstract!Alive(Tree(rows))
  BY <1>1, <1>2, TreeOperators, PathNamesAncestors
<1> QED
  BY <1>3, <1>4 DEF Abstract!Init, Tree, Seen

(* One request at a time, the service is the tree of RoomTree: what its    *)
(* statements do to parents, paths and counters, over several transactions *)
(* that any worker may leave half way, is what RoomTree does at once, and  *)
(* every counter is what it would be if it were computed anew.             *)
THEOREM ImplementsRoomTreeOneAtATime ==
  ASSUME OneAtATime
  PROVE  Spec => ImplementsRoomTree
<1>1. Init => Abstract!Init
  BY InitMaps
<1>2. SerialInv /\ SerialInv' /\ [Next]_vars => [Abstract!Next]_(Abstract!vars)
  <2>1. ASSUME UNCHANGED <<rows, room>>
        PROVE  UNCHANGED Abstract!vars
    BY <2>1 DEF Abstract!vars
  <2>2. ASSUME SerialInv, SerialInv', NEW w \in Worker, TreeStep(w)
        PROVE  Abstract!Next \/ UNCHANGED <<rows, room>>
    BY <2>2, ReadsOnly, CreateMaps, RenameMaps, DeleteMaps, MoveMaps
  <2> QED
    BY <2>1, <2>2 DEF Next, vars
<1> QED
  BY <1>1, <1>2, SerialInvAlways, PTL DEF Spec, ImplementsRoomTree, Abstract!Spec
=============================================================================
