------------------------------ MODULE NodeRows ------------------------------
(***************************************************************************)
(* The `nodes` table of one Data Room, and the statements the node         *)
(* repository runs against it, as operators on the table's contents.       *)
(*                                                                         *)
(* The table is a function from the ids inserted so far to rows.  A path   *)
(* '/a/b/' is the sequence <<a, b>> (a node's own id is the last one), so  *)
(* `path LIKE p || '%'` is IsPrefix: the trailing slash of the stored path *)
(* is what makes the two the same.  A name is a class of names that        *)
(* lower() maps to one value, which is what the unique index compares.     *)
(*                                                                         *)
(* The last part of the module defines what the table should look like,    *)
(* from parent_id alone; nothing there is used by the statements.          *)
(***************************************************************************)
EXTENDS Integers, FiniteSets, Sequences, SequencesExt

CONSTANTS
  Node,         \* node ids
  Root,         \* parent_id IS NULL: the Data Room itself
  Name,         \* names, up to lower()
  Blob,         \* blob ids
  NoBlob,       \* blob_id IS NULL
  MaxFileSize   \* MAX_FILE_SIZE_BYTES

ASSUME NodeAssumption == IsFiniteSet(Node) /\ Root \notin Node
ASSUME SizeAssumption == MaxFileSize \in Nat \ {0}

(* The columns of a row that a property or a statement looks at. *)
Row ==
  [type : {"FOLDER", "FILE"}, parent : Node \cup {Root}, name : Name,
   path : Seq(Node), size : 0..MaxFileSize, blob : Blob \cup {NoBlob},
   totalSize : Int, fileCount : Int, folderCount : Int, deleted : BOOLEAN]

(* The contents of the table: a row for each id inserted so far. *)
IsTable(rows) == DOMAIN rows \subseteq Node /\ rows \in [DOMAIN rows -> Row]

(* AggregateDelta: what a mutation does to a set of counters. *)
Delta == [size : Int, files : Int, folders : Int]

Negate(d) == [size |-> -d.size, files |-> -d.files, folders |-> -d.folders]

-----------------------------------------------------------------------------
(* Reads *)

Live(rows) == {n \in DOMAIN rows : ~rows[n].deleted}

(* Variants of Within that a slip in the pattern gives: without the slash  *)
(* that ends a stored path the last id of p is compared with nothing, and  *)
(* every sibling matches; with '_%' for '%' the node itself does not.      *)
WithinSibling(path, p) == IsPrefix(Front(p), path)
WithinStrictly(path, p) == IsStrictPrefix(p, path)

(* path LIKE p || '%' *)
Within(path, p) == IsPrefix(p, path)

(* The same WHERE with AND deleted_at IS NULL left out. *)
MatchedAny(rows, p) == {n \in DOMAIN rows : Within(rows[n].path, p)}

(* WHERE path LIKE p || '%' AND deleted_at IS NULL *)
Matched(rows, p) == {n \in Live(rows) : Within(rows[n].path, p)}

(* A parent that was deleted, taken for one that is there. *)
IsLocationEver(rows, p) ==
  p = Root \/ (p \in DOMAIN rows /\ rows[p].type = "FOLDER")

(* The node resolves to a live FOLDER, or is the room itself. *)
IsLocation(rows, p) ==
  p = Root \/ (p \in Live(rows) /\ rows[p].type = "FOLDER")

LocationPath(rows, p) == IF p = Root THEN <<>> ELSE rows[p].path

(* nodes_parent_name_unique would reject a second row with this key. *)
NameTaken(rows, n, parent, name) ==
  \E m \in Live(rows) \ {n} : rows[m].parent = parent /\ rows[m].name = name

-----------------------------------------------------------------------------
(* Counters *)

(* One cell for each byte of each row of S, so that bytes are counted the  *)
(* way files and folders are.                                              *)
Cells(rows, S) == {c \in S \X (1..MaxFileSize) : c[2] <= rows[c[1]].size}

Files(rows, S) == {n \in S : rows[n].type = "FILE"}

Folders(rows, S) == {n \in S : rows[n].type = "FOLDER"}

(* What the rows of S add to the counters of whatever holds them. *)
Weight(rows, S) ==
  [size |-> Cardinality(Cells(rows, S)),
   files |-> Cardinality(Files(rows, S)),
   folders |-> Cardinality(Folders(rows, S))]

(* A moved subtree is weighed by its root's own counters plus itself. *)
Carried(row) ==
  [size |-> row.totalSize + row.size,
   files |-> row.fileCount + (IF row.type = "FILE" THEN 1 ELSE 0),
   folders |-> row.folderCount + (IF row.type = "FOLDER" THEN 1 ELSE 0)]

AncestorIds(path) == ToSet(path)

(* The strict ancestors named by a node's own path. *)
StrictAncestorIds(path) == AncestorIds(Front(path))

(* The node half of applyAggregateDelta: it also reaches deleted rows. *)
Charge(rows, ids, d) ==
  [n \in DOMAIN rows |->
     IF n \in ids
     THEN [rows[n] EXCEPT !.totalSize = @ + d.size,
                          !.fileCount = @ + d.files,
                          !.folderCount = @ + d.folders]
     ELSE rows[n]]

(* The Data Room half of applyAggregateDelta. *)
ChargeRoom(room, d) ==
  [size |-> room.size + d.size,
   files |-> room.files + d.files,
   folders |-> room.folders + d.folders]

-----------------------------------------------------------------------------
(* Writes *)

(* A row as INSERT leaves it. *)
NewRow(type, parent, name, path, size, blob) ==
  [type |-> type, parent |-> parent, name |-> name, path |-> path,
   size |-> size, blob |-> blob,
   totalSize |-> 0, fileCount |-> 0, folderCount |-> 0, deleted |-> FALSE]

Insert(rows, n, row) ==
  [m \in DOMAIN rows \cup {n} |-> IF m = n THEN row ELSE rows[m]]

(* UPDATE nodes SET deleted_at = now() on the rows of S *)
Stamp(rows, S) ==
  [n \in DOMAIN rows |->
     IF n \in S THEN [rows[n] EXCEPT !.deleted = TRUE] ELSE rows[n]]

(* Variants of Relocate: every path of the subtree is lost, as with the    *)
(* cast of the offset left out; only the moved row is rewritten.           *)
RelocateUncast(rows, S, n, dest, newPath, oldLen) ==
  [m \in DOMAIN rows |->
     IF m \in S THEN [rows[m] EXCEPT !.path = <<Root>>] ELSE rows[m]]

RelocateRootOnly(rows, S, n, dest, newPath, oldLen) ==
  [m \in DOMAIN rows |->
     IF m \in S /\ m = n THEN [rows[m] EXCEPT !.path = newPath, !.parent = dest]
     ELSE rows[m]]

(* The path rewrite of a move: each row of S keeps its tail, and only the  *)
(* moved row n changes its parent.                                         *)
Relocate(rows, S, n, dest, newPath, oldLen) ==
  [m \in DOMAIN rows |->
     IF m \in S
     THEN [rows[m] EXCEPT
             !.path = newPath \o SubSeq(@, oldLen + 1, Len(@)),
             !.parent = IF m = n THEN dest ELSE @]
     ELSE rows[m]]

-----------------------------------------------------------------------------
(* What the table should look like, from parent_id alone.                  *)

(* The ancestors of n, in the least set that holds n's parent and the      *)
(* parent of every row in it: no such set leaves one out.  On a cycle they *)
(* are the whole cycle.                                                    *)
Upward(rows, n, S) == \A m \in {n} \cup S : rows[m].parent \in S \cup {Root}

Ancestors(rows, n) ==
  {a \in DOMAIN rows : \A S \in SUBSET (DOMAIN rows \ {a}) : ~Upward(rows, n, S)}

(* The live rows beneath f. *)
Beneath(rows, f) == {n \in Live(rows) : f \in Ancestors(rows, n)}

Counters(row) ==
  [size |-> row.totalSize, files |-> row.fileCount, folders |-> row.folderCount]

PathFollowsParent(rows, n) ==
  rows[n].path = Append(LocationPath(rows, rows[n].parent), n)

CountersMatch(rows, n) == Counters(rows[n]) = Weight(rows, Beneath(rows, n))

(* A table with none of the drifts that docs/data-model.md lists. *)
Sound(rows) ==
  \A n \in Live(rows) :
    /\ IsLocation(rows, rows[n].parent)
    /\ n \notin Ancestors(rows, n)
    /\ Ancestors(rows, n) \subseteq Live(rows)
    /\ PathFollowsParent(rows, n)
    /\ CountersMatch(rows, n)
    /\ ~NameTaken(rows, n, rows[n].parent, rows[n].name)
    /\ (rows[n].type = "FILE") <=> (rows[n].blob # NoBlob)
=============================================================================
