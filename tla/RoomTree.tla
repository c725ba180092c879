------------------------------ MODULE RoomTree ------------------------------
(***************************************************************************)
(* What the tree of a Data Room promises its clients: nodes with a parent  *)
(* and a name, operations that happen at once, and counters that are right *)
(* because they are computed anew.  There are no paths, no increments and  *)
(* no statements here; NodeTree implements this when requests do not       *)
(* overlap.                                                                *)
(***************************************************************************)
EXTENDS Integers, FiniteSets

CONSTANTS Node, Root, Name, MaxFileSize

VARIABLES
  tree,    \* id -> [type, parent, name, size, deleted]
  shown,   \* live id -> the counters a listing shows for it
  total    \* the counters of the room

vars == <<tree, shown, total>>

Alive(t) == {n \in DOMAIN t : ~t[n].deleted}

(* The nodes above n: no set that holds n's parent, and the parent of all  *)
(* that it holds, leaves one out.                                          *)
Above(t, n) ==
  {a \in DOMAIN t : \A S \in SUBSET (DOMAIN t \ {a}) :
     \E m \in {n} \cup S : t[m].parent \notin S \cup {Root}}

Subtree(t, n) == {m \in Alive(t) : m = n \/ n \in Above(t, m)}

Bytes(t, S) == {c \in S \X (1..MaxFileSize) : c[2] <= t[c[1]].size}

Count(t, S) ==
  [size |-> Cardinality(Bytes(t, S)),
   files |-> Cardinality({n \in S : t[n].type = "FILE"}),
   folders |-> Cardinality({n \in S : t[n].type = "FOLDER"})]

Free(t, n, parent, name) ==
  \A m \in Alive(t) \ {n} : <<t[m].parent, t[m].name>> # <<parent, name>>

IsFolder(t, p) == p = Root \/ (p \in Alive(t) /\ t[p].type = "FOLDER")

(* Every counter a client can see, recomputed for the tree t. *)
Recount(t) ==
  /\ shown' = [n \in Alive(t) |-> Count(t, Subtree(t, n) \ {n})]
  /\ total' = Count(t, Alive(t))

Init ==
  /\ total = Count(tree, Alive(tree))
  /\ \A n \in Alive(tree) :
       /\ n \notin Above(tree, n)
       /\ Above(tree, n) \subseteq Alive(tree)

Become(t) == tree' = t /\ Recount(t)

CreateFolder(n, parent, name) ==
  /\ n \notin DOMAIN tree
  /\ IsFolder(tree, parent)
  /\ Free(tree, n, parent, name)
  /\ Become([m \in DOMAIN tree \cup {n} |->
               IF m = n
               THEN [type |-> "FOLDER", parent |-> parent, name |-> name,
                     size |-> 0, deleted |-> FALSE]
               ELSE tree[m]])

Rename(n, name) ==
  /\ n \in Alive(tree)
  /\ Free(tree, n, tree[n].parent, name)
  /\ Become([tree EXCEPT ![n].name = name])

Delete(n) ==
  /\ n \in Alive(tree)
  /\ Become([m \in DOMAIN tree |->
               [tree[m] EXCEPT !.deleted = @ \/ m \in Subtree(tree, n)]])

Move(n, parent) ==
  /\ n \in Alive(tree)
  /\ IsFolder(tree, parent)
  /\ parent \notin Subtree(tree, n)
  /\ Free(tree, n, parent, tree[n].name)
  /\ Become([tree EXCEPT ![n].parent = parent])

Next ==
  \/ \E n \in Node, parent \in Node \cup {Root}, name \in Name :
       CreateFolder(n, parent, name)
  \/ \E n \in Node, name \in Name : Rename(n, name)
  \/ \E n \in Node : Delete(n)
  \/ \E n \in Node, parent \in Node \cup {Root} : Move(n, parent)

Spec == Init /\ [][Next]_vars
=============================================================================
