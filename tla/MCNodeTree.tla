----------------------------- MODULE MCNodeTree -----------------------------
(***************************************************************************)
(* Instances of NodeTree for TLC.                                          *)
(***************************************************************************)
EXTENDS NodeTree, TLC

CONSTANTS
  d1, d2, x,   \* nodes that exist when a behaviour starts
  b,           \* the blob behind x
  n1, n2       \* ids still to be drawn

(* An empty room, as ensureProvisioned leaves it. *)
EmptyRoom == <<>>

MCFolder(parent, name, path, size, files, folders) ==
  [NewRow("FOLDER", parent, name, path, 0, NoBlob) EXCEPT
     !.totalSize = size, !.fileCount = files, !.folderCount = folders]

(* A folder inside a folder, with one file of size 1 at the bottom. *)
NestedRoom ==
  d1 :> MCFolder(Root, "a", <<d1>>, 1, 1, 1) @@
  d2 :> MCFolder(d1, "a", <<d1, d2>>, 1, 1, 0) @@
  x :> NewRow("FILE", d2, "a", <<d1, d2, x>>, 1, b)

(* Two folders side by side, one of them holding the file. *)
FlatRoom ==
  d1 :> MCFolder(Root, "a", <<d1>>, 1, 1, 0) @@
  d2 :> MCFolder(Root, "b", <<d2>>, 0, 0, 0) @@
  x :> NewRow("FILE", d1, "a", <<d1, x>>, 1, b)

(* One folder holding the file. *)
SmallRoom ==
  d1 :> MCFolder(Root, "a", <<d1>>, 1, 1, 0) @@
  x :> NewRow("FILE", d1, "a", <<d1, x>>, 1, b)

SmallRooms == {EmptyRoom, SmallRoom}
FilledRooms == {NestedRoom, FlatRoom}

(* Overlapping moves let a folder's counters drift without end; a run that *)
(* allows them follows each counter no further than this.                  *)
MaxDrift == 0
BoundedDrift ==
  \A n \in DOMAIN rows :
    /\ rows[n].totalSize \in -MaxDrift..1 + MaxDrift
    /\ rows[n].fileCount \in -MaxDrift..1 + MaxDrift
    /\ rows[n].folderCount \in -MaxDrift..1 + MaxDrift

FreshIds == Permutations({n1, n2})
FreshIdsAndWorkers == Permutations({n1, n2}) \cup Permutations(Worker)
Workers == Permutations(Worker)
=============================================================================
