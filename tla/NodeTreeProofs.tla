--------------------------- MODULE NodeTreeProofs ---------------------------
(***************************************************************************)
(* First, lemmas about the operators of NodeRows: what each statement does *)
(* to the type of the table and to the weight of its live rows, and how    *)
(* the paths of a table and its parent_id speak of the same ancestors.     *)
(* Then the theorems: NodeTree is type correct, and the room's counters    *)
(* are whole-room totals under every interleaving of requests, for any     *)
(* ids, names, sizes, workers and starting tables.                         *)
(***************************************************************************)
EXTENDS NodeTree, FiniteSetTheorems, SequenceTheorems, TLAPS

(* Two tables that agree on everything a weight depends on. *)
Alike(t, u) ==
  /\ DOMAIN t = DOMAIN u
  /\ \A n \in DOMAIN t : /\ t[n].type = u[n].type
                         /\ t[n].size = u[n].size
                         /\ t[n].deleted = u[n].deleted

(* Only finitely many rows exist, and so only finitely many bytes. *)
LEMMA CellsFinite ==
  ASSUME NEW t, IsTable(t), NEW S \in SUBSET DOMAIN t
  PROVE  IsFiniteSet(S) /\ IsFiniteSet(Cells(t, S))
<1>1. IsFiniteSet(S)
  BY NodeAssumption, FS_Subset DEF IsTable
<1>2. IsFiniteSet(1..MaxFileSize)
  BY SizeAssumption, FS_Interval
<1>3. IsFiniteSet(S \X (1..MaxFileSize))
  BY <1>1, <1>2, FS_Product
<1>4. Cells(t, S) \in SUBSET (S \X (1..MaxFileSize))
  BY DEF Cells
<1>5. QED
  BY <1>1, <1>3, <1>4, FS_Subset

(* The weight of a set of rows is a delta, and never a negative one. *)
LEMMA WeightType ==
  ASSUME NEW t, IsTable(t), NEW S \in SUBSET DOMAIN t
  PROVE  Weight(t, S) \in [size : Nat, files : Nat, folders : Nat]
<1>1. IsFiniteSet(S) /\ IsFiniteSet(Cells(t, S))
  BY CellsFinite
<1>2. Cardinality(Cells(t, S)) \in Nat
  BY <1>1, FS_CardinalityType
<1>3. Files(t, S) \in SUBSET S /\ Folders(t, S) \in SUBSET S
  BY DEF Files, Folders
<1>4. IsFiniteSet(Files(t, S)) /\ IsFiniteSet(Folders(t, S))
  BY <1>1, <1>3, FS_Subset
<1>5. Cardinality(Files(t, S)) \in Nat /\ Cardinality(Folders(t, S)) \in Nat
  BY <1>4, FS_CardinalityType
<1>6. QED
  BY <1>2, <1>5 DEF Weight

(* Tables that are alike have the same live rows and the same weights. *)
LEMMA AlikeWeight ==
  ASSUME NEW t, NEW u, Alike(t, u)
  PROVE  /\ Live(t) = Live(u)
         /\ \A S \in SUBSET DOMAIN t : Weight(t, S) = Weight(u, S)
<1>1. Live(t) = Live(u)
  BY DEF Live, Alike
<1>2. ASSUME NEW S \in SUBSET DOMAIN t
      PROVE  Weight(t, S) = Weight(u, S)
  <2>1. Cells(t, S) = Cells(u, S)
    BY DEF Cells, Alike
  <2>2. Files(t, S) = Files(u, S) /\ Folders(t, S) = Folders(u, S)
    BY DEF Files, Folders, Alike
  <2>3. QED
    BY <2>1, <2>2 DEF Weight
<1>3. QED
  BY <1>1, <1>2

(* Taking rows away takes exactly their weight away. *)
LEMMA WeightDifference ==
  ASSUME NEW t, IsTable(t), NEW T \in SUBSET DOMAIN t, NEW S \in SUBSET T
  PROVE  Weight(t, T \ S) = ChargeRoom(Weight(t, T), Negate(Weight(t, S)))
<1>1. /\ IsFiniteSet(T) /\ IsFiniteSet(Cells(t, T))
      /\ IsFiniteSet(S) /\ IsFiniteSet(Cells(t, S))
  BY CellsFinite
<1>2. /\ IsFiniteSet(Files(t, T)) /\ IsFiniteSet(Folders(t, T))
      /\ IsFiniteSet(Files(t, S)) /\ IsFiniteSet(Folders(t, S))
  BY <1>1, FS_Subset DEF Files, Folders
<1>3. /\ Cells(t, T \ S) = Cells(t, T) \ Cells(t, S)
      /\ Cells(t, T) \cap Cells(t, S) = Cells(t, S)
  BY DEF Cells
<1>4. /\ Files(t, T \ S) = Files(t, T) \ Files(t, S)
      /\ Files(t, T) \cap Files(t, S) = Files(t, S)
  BY DEF Files
<1>5. /\ Folders(t, T \ S) = Folders(t, T) \ Folders(t, S)
      /\ Folders(t, T) \cap Folders(t, S) = Folders(t, S)
  BY DEF Folders
<1>6. Cardinality(Cells(t, T \ S)) =
        Cardinality(Cells(t, T)) - Cardinality(Cells(t, S))
  <2>1. Cardinality(Cells(t, T) \ Cells(t, S)) =
          Cardinality(Cells(t, T)) - Cardinality(Cells(t, T) \cap Cells(t, S))
    BY <1>1, FS_Difference
  <2>2. QED
    BY <2>1, <1>3
<1>7. Cardinality(Files(t, T \ S)) =
        Cardinality(Files(t, T)) - Cardinality(Files(t, S))
  <2>1. Cardinality(Files(t, T) \ Files(t, S)) =
          Cardinality(Files(t, T)) - Cardinality(Files(t, T) \cap Files(t, S))
    BY <1>2, FS_Difference
  <2>2. QED
    BY <2>1, <1>4
<1>8. Cardinality(Folders(t, T \ S)) =
        Cardinality(Folders(t, T)) - Cardinality(Folders(t, S))
  <2>1. Cardinality(Folders(t, T) \ Folders(t, S)) =
          Cardinality(Folders(t, T)) - Cardinality(Folders(t, T) \cap Folders(t, S))
    BY <1>2, FS_Difference
  <2>2. QED
    BY <2>1, <1>5
<1>9. /\ Weight(t, T) \in [size : Nat, files : Nat, folders : Nat]
      /\ Weight(t, S) \in [size : Nat, files : Nat, folders : Nat]
  BY WeightType
<1>10. QED
  BY <1>6, <1>7, <1>8, <1>9 DEF Weight, ChargeRoom, Negate

(* What one row adds to the counters of whatever holds it. *)
RowDelta(row) ==
  [size |-> row.size,
   files |-> IF row.type = "FILE" THEN 1 ELSE 0,
   folders |-> IF row.type = "FOLDER" THEN 1 ELSE 0]

(* A live row that is inserted adds its own size and itself. *)
LEMMA WeightInsert ==
  ASSUME NEW t, IsTable(t), NEW n, n \notin DOMAIN t,
         NEW row \in Row, NEW T \in SUBSET DOMAIN t
  PROVE  Weight(Insert(t, n, row), T \cup {n})
           = ChargeRoom(Weight(t, T), RowDelta(row))
<1> DEFINE u == Insert(t, n, row)
           own == {n} \X (1..row.size)
<1>0. /\ row.size \in 0..MaxFileSize
      /\ row.type \in {"FOLDER", "FILE"}
  BY DEF Row
<1>1. /\ \A m \in T : u[m] = t[m]
      /\ u[n] = row /\ n \notin T
  BY DEF Insert
<1>2. IsFiniteSet(T) /\ IsFiniteSet(Cells(t, T))
  BY CellsFinite
<1>3. IsFiniteSet(own) /\ Cardinality(own) = row.size
  <2>1. IsFiniteSet(1..row.size) /\ Cardinality(1..row.size) = row.size
    <3>1. row.size \in Int /\ row.size >= 0
      BY <1>0, SizeAssumption
    <3>2. /\ IsFiniteSet(1..row.size)
          /\ Cardinality(1..row.size)
               = IF 1 > row.size THEN 0 ELSE row.size - 1 + 1
      BY SMTT(20), <3>1, FS_Interval
    <3>3. QED
      BY <3>1, <3>2
  <2>2. IsFiniteSet({n}) /\ Cardinality({n}) = 1
    BY FS_Singleton
  <2>3. IsFiniteSet(own) /\ Cardinality(own) = 1 * row.size
    BY ZenonT(60), <2>1, <2>2, FS_Product
  <2>4. QED
    BY <2>3, <1>0, SizeAssumption
<1>4. Cells(u, T \cup {n}) = Cells(t, T) \cup own /\ Cells(t, T) \cap own = {}
  <2>1. ASSUME NEW c \in Cells(u, T \cup {n})
        PROVE  c \in Cells(t, T) \cup own
    BY <1>1, <1>0, SizeAssumption DEF Cells
  <2>2. ASSUME NEW c \in Cells(t, T)
        PROVE  c \in Cells(u, T \cup {n}) /\ c \notin own
    BY <1>1 DEF Cells
  <2>3. ASSUME NEW c \in own
        PROVE  c \in Cells(u, T \cup {n})
    BY <1>1, <1>0, SizeAssumption DEF Cells
  <2>4. QED
    BY <2>1, <2>2, <2>3
<1>5. Cardinality(Cells(u, T \cup {n})) = Cardinality(Cells(t, T)) + row.size
  <2>1. Cardinality(Cells(t, T) \cup own)
          = Cardinality(Cells(t, T)) + Cardinality(own)
              - Cardinality(Cells(t, T) \cap own)
    BY <1>2, <1>3, FS_Union
  <2>2. Cardinality(Cells(t, T) \cap own) = 0
    BY <1>4, FS_EmptySet
  <2>3. Cardinality(Cells(t, T)) \in Nat
    BY <1>2, FS_CardinalityType
  <2>4. row.size \in Nat
    BY <1>0, SizeAssumption
  <2>5. Cardinality(Cells(t, T) \cup own) = Cardinality(Cells(t, T)) + row.size
    BY <1>3, <2>1, <2>2, <2>3, <2>4
  <2>6. QED
    BY <1>4, <2>5
<1>6. IsFiniteSet(Files(t, T)) /\ IsFiniteSet(Folders(t, T))
  BY <1>2, FS_Subset DEF Files, Folders
<1>7. /\ Files(u, T \cup {n}) =
           IF row.type = "FILE" THEN Files(t, T) \cup {n} ELSE Files(t, T)
      /\ n \notin Files(t, T)
  BY <1>1 DEF Files
<1>8. /\ Folders(u, T \cup {n}) =
           IF row.type = "FOLDER" THEN Folders(t, T) \cup {n} ELSE Folders(t, T)
      /\ n \notin Folders(t, T)
  BY <1>1 DEF Folders
<1>9. Cardinality(Files(u, T \cup {n})) =
        Cardinality(Files(t, T)) + (IF row.type = "FILE" THEN 1 ELSE 0)
  <2>1. Cardinality(Files(t, T) \cup {n}) = Cardinality(Files(t, T)) + 1
    BY <1>6, <1>7, FS_AddElement
  <2>2. Cardinality(Files(t, T)) \in Nat
    BY <1>6, FS_CardinalityType
  <2>3. CASE row.type = "FILE"
    BY <2>1, <2>3, <1>7
  <2>4. CASE row.type # "FILE"
    BY <2>2, <2>4, <1>7
  <2>5. QED
    BY <2>3, <2>4
<1>10. Cardinality(Folders(u, T \cup {n})) =
        Cardinality(Folders(t, T)) + (IF row.type = "FOLDER" THEN 1 ELSE 0)
  <2>1. Cardinality(Folders(t, T) \cup {n}) = Cardinality(Folders(t, T)) + 1
    BY <1>6, <1>8, FS_AddElement
  <2>2. Cardinality(Folders(t, T)) \in Nat
    BY <1>6, FS_CardinalityType
  <2>3. CASE row.type = "FOLDER"
    BY <2>1, <2>3, <1>8
  <2>4. CASE row.type # "FOLDER"
    BY <2>2, <2>4, <1>8
  <2>5. QED
    BY <2>3, <2>4
<1>11. QED
  BY <1>5, <1>9, <1>10 DEF Weight, ChargeRoom, RowDelta

-----------------------------------------------------------------------------
(* Charging counters keeps the table a table and weighs nothing. *)
LEMMA ChargeTable ==
  ASSUME NEW t, IsTable(t), NEW ids, NEW d \in Delta
  PROVE  IsTable(Charge(t, ids, d)) /\ Alike(Charge(t, ids, d), t)
<1> DEFINE u == Charge(t, ids, d)
<1>1. DOMAIN u = DOMAIN t
  BY DEF Charge
<1>2. ASSUME NEW n \in DOMAIN t
      PROVE  /\ u[n] \in Row
             /\ u[n].type = t[n].type
             /\ u[n].size = t[n].size
             /\ u[n].deleted = t[n].deleted
  <2>1. t[n] \in Row
    BY DEF IsTable
  <2>2. CASE n \in ids
    <3>1. u[n] = [t[n] EXCEPT !.totalSize = t[n].totalSize + d.size,
                              !.fileCount = t[n].fileCount + d.files,
                              !.folderCount = t[n].folderCount + d.folders]
      BY <2>2 DEF Charge
    <3>2. /\ t[n].totalSize + d.size \in Int
          /\ t[n].fileCount + d.files \in Int
          /\ t[n].folderCount + d.folders \in Int
      BY <2>1 DEF Row, Delta
    <3>3. QED
      BY ZenonT(60), <2>1, <3>1, <3>2 DEF Row
  <2>3. CASE n \notin ids
    BY <2>1, <2>3 DEF Charge
  <2>4. QED
    BY <2>2, <2>3
<1>3. u = [n \in DOMAIN t |-> u[n]]
  BY DEF Charge
<1>4. QED
  BY <1>1, <1>2, <1>3 DEF IsTable, Alike

(* Inserting a row under a new id keeps the table a table. *)
LEMMA InsertTable ==
  ASSUME NEW t, IsTable(t), NEW n \in Node, NEW row \in Row
  PROVE  /\ IsTable(Insert(t, n, row))
         /\ DOMAIN Insert(t, n, row) = DOMAIN t \cup {n}
BY DEF IsTable, Insert

(* A live row that is inserted joins the live rows, and nothing leaves. *)
LEMMA InsertLive ==
  ASSUME NEW t, IsTable(t), NEW n, n \notin DOMAIN t,
         NEW row \in Row, ~row.deleted
  PROVE  Live(Insert(t, n, row)) = Live(t) \cup {n}
BY DEF Live, Insert, IsTable, Row

(* Stamping keeps the table a table and every row's weight, and takes      *)
(* exactly the stamped rows out of the live ones.                          *)
LEMMA StampTable ==
  ASSUME NEW t, IsTable(t), NEW S \in SUBSET DOMAIN t
  PROVE  /\ IsTable(Stamp(t, S))
         /\ DOMAIN Stamp(t, S) = DOMAIN t
         /\ Live(Stamp(t, S)) = Live(t) \ S
         /\ \A T \in SUBSET DOMAIN t : Weight(Stamp(t, S), T) = Weight(t, T)
<1> DEFINE u == Stamp(t, S)
<1>1. DOMAIN u = DOMAIN t
  BY DEF Stamp
<1>2. ASSUME NEW n \in DOMAIN t
      PROVE  /\ u[n] \in Row
             /\ u[n].type = t[n].type
             /\ u[n].size = t[n].size
             /\ u[n].deleted = (t[n].deleted \/ n \in S)
  <2>1. t[n] \in Row
    BY DEF IsTable
  <2>2. CASE n \in S
    BY <2>1, <2>2 DEF Stamp, Row
  <2>3. CASE n \notin S
    BY <2>1, <2>3 DEF Stamp, Row
  <2>4. QED
    BY <2>2, <2>3
<1>3. IsTable(u)
  <2>1. u = [n \in DOMAIN t |-> u[n]]
    BY DEF Stamp
  <2>2. QED
    BY <1>1, <1>2, <2>1 DEF IsTable
<1>4. Live(u) = Live(t) \ S
  BY <1>1, <1>2 DEF Live
<1>5. ASSUME NEW T \in SUBSET DOMAIN t
      PROVE  Weight(u, T) = Weight(t, T)
  <2>1. Cells(u, T) = Cells(t, T)
    BY <1>2 DEF Cells
  <2>2. Files(u, T) = Files(t, T) /\ Folders(u, T) = Folders(t, T)
    BY <1>2 DEF Files, Folders
  <2>3. QED
    BY <2>1, <2>2 DEF Weight
<1>6. QED
  BY <1>1, <1>3, <1>4, <1>5

(* Rewriting paths keeps the table a table and weighs nothing. *)
LEMMA RelocateTable ==
  ASSUME NEW t, IsTable(t), NEW S, NEW n, NEW dest \in Node \cup {Root},
         NEW newPath \in Seq(Node), NEW len \in Nat
  PROVE  /\ IsTable(Relocate(t, S, n, dest, newPath, len))
         /\ Alike(Relocate(t, S, n, dest, newPath, len), t)
<1> DEFINE u == Relocate(t, S, n, dest, newPath, len)
<1>1. DOMAIN u = DOMAIN t
  BY DEF Relocate
<1>2. ASSUME NEW m \in DOMAIN t
      PROVE  /\ u[m] \in Row
             /\ u[m].type = t[m].type
             /\ u[m].size = t[m].size
             /\ u[m].deleted = t[m].deleted
  <2>1. t[m] \in Row
    BY DEF IsTable
  <2>2. CASE m \in S
    <3> DEFINE tail == SubSeq(t[m].path, len + 1, Len(t[m].path))
               path == newPath \o tail
               parent == IF m = n THEN dest ELSE t[m].parent
    <3>1. u[m] = [t[m] EXCEPT !.path = path, !.parent = parent]
      BY <2>2 DEF Relocate
    <3>2. tail \in Seq(Node)
      <4>1. t[m].path \in Seq(Node)
        BY <2>1 DEF Row
      <4>2. QED
        BY <4>1
    <3>3. path \in Seq(Node) /\ parent \in Node \cup {Root}
      BY <2>1, <3>2 DEF Row
    <3>4. QED
      BY <2>1, <3>1, <3>3 DEF Row
  <2>3. CASE m \notin S
    BY <2>1, <2>3 DEF Relocate
  <2>4. QED
    BY <2>2, <2>3
<1>3. u = [m \in DOMAIN t |-> u[m]]
  BY DEF Relocate
<1>4. QED
  BY <1>1, <1>2, <1>3 DEF IsTable, Alike

(* A delta put on and taken off again leaves the room as it was. *)
LEMMA ChargeBack ==
  ASSUME NEW c \in Delta, NEW d \in Delta
  PROVE  /\ Negate(d) \in Delta
         /\ ChargeRoom(c, d) \in Delta
         /\ ChargeRoom(ChargeRoom(c, Negate(d)), d) = c
BY DEF Delta, ChargeRoom, Negate

-----------------------------------------------------------------------------
(* Ancestors: what parent_id says, and what the paths say. *)

(* Every nonempty set of natural numbers has a least one. *)
LEMMA LeastNatural ==
  ASSUME NEW T \in SUBSET Nat, T # {}
  PROVE  \E m \in T : \A k \in T : m <= k
<1> DEFINE F == {0..k : k \in T}
<1>1. \A k \in T : 0..k \in SUBSET Nat /\ IsFiniteSet(0..k)
  BY FS_Interval
<1>2. F \subseteq FiniteSubsetsOf(Nat) /\ F # {}
  BY <1>1 DEF FiniteSubsetsOf
<1>3. PICK x \in F : \A y \in F : ~(<<y, x>> \in StrictSubsetOrdering(Nat))
  <2> HIDE DEF F
  <2> QED
    BY <1>2, FS_StrictSubsetOrderingWellFounded, WFMin
<1>4. PICK m \in T : x = 0..m
  OBVIOUS
<1>5. ASSUME NEW k \in T, ~(m <= k)
      PROVE  FALSE
  <2>1. 0..k \subseteq 0..m /\ m \in 0..m /\ m \notin 0..k
    BY <1>5
  <2>2. <<0..k, 0..m>> \in StrictSubsetOrdering(Nat)
    BY <2>1, <1>1 DEF StrictSubsetOrdering
  <2> QED
    BY <1>3, <1>4, <2>2
<1> QED
  BY <1>5

(* The rows of L hang together: every parent is in L or is the room, and  *)
(* every path is the parent's path and the row's own id.                   *)
Rooted(t, L) ==
  /\ L \subseteq DOMAIN t
  /\ \A n \in L : t[n].parent \in L \cup {Root} /\ PathFollowsParent(t, n)

(* The path of a row that hangs together with the others, taken apart.     *)
LEMMA LocationOf ==
  ASSUME NEW t, IsTable(t), NEW L, Rooted(t, L), NEW n \in L
  PROVE  /\ n \in Node /\ t[n].path \in Seq(Node) /\ Len(t[n].path) \in Nat
         /\ LocationPath(t, t[n].parent) \in Seq(Node)
         /\ t[n].path = Append(LocationPath(t, t[n].parent), n)
         /\ Len(t[n].path) = Len(LocationPath(t, t[n].parent)) + 1
<1>1. n \in Node /\ t[n] \in Row
  BY DEF Rooted, IsTable
<1>2. t[n].parent # Root => t[n].parent \in DOMAIN t /\ t[t[n].parent] \in Row
  BY DEF Rooted, IsTable
<1>3. LocationPath(t, t[n].parent) \in Seq(Node)
  BY <1>2 DEF LocationPath, Row
<1> QED
  BY <1>1, <1>3 DEF Rooted, PathFollowsParent, Row

(* What holds of a row whenever it holds of the row's parent holds of      *)
(* every row: a path is longer than the parent's.                          *)
LEMMA ParentInduction ==
  ASSUME NEW t, IsTable(t), NEW L, Rooted(t, L), NEW G,
         \A n \in L : t[n].parent = Root \/ t[n].parent \in G => n \in G
  PROVE  L \subseteq G
<1> SUFFICES ASSUME L \ G # {}
             PROVE  FALSE
  OBVIOUS
<1> DEFINE T == {Len(t[x].path) : x \in L \ G}
<1>1. T \in SUBSET Nat /\ T # {}
  BY LocationOf
<1>2. PICK m \in T : \A k \in T : m <= k
  <2> HIDE DEF T
  <2> QED
    BY <1>1, LeastNatural
<1>3. PICK n \in L \ G : m = Len(t[n].path)
  OBVIOUS
<1> DEFINE p == t[n].parent
<1>4. p # Root /\ p \in L \ G
  BY DEF Rooted
<1>5. Len(t[n].path) = Len(t[p].path) + 1
  BY <1>4, LocationOf DEF LocationPath
<1>6. Len(t[p].path) \in T /\ Len(t[p].path) \in Nat
  BY <1>4, LocationOf
<1>7. m <= Len(t[p].path)
  <2> HIDE DEF T, p
  <2> QED
    BY <1>2, <1>6
<1> QED
  BY SMTT(20), <1>3, <1>5, <1>6, <1>7

(* The ancestors of a row are its parent and the parent's ancestors.       *)
LEMMA AncestorsStep ==
  ASSUME NEW t, NEW n, Root \notin DOMAIN t, t[n].parent \in DOMAIN t \cup {Root}
  PROVE  Ancestors(t, n) = IF t[n].parent = Root THEN {}
                           ELSE {t[n].parent} \cup Ancestors(t, t[n].parent)
<1> DEFINE p == t[n].parent
<1>1. CASE p = Root
  <2>1. Upward(t, n, {})
    BY <1>1 DEF Upward
  <2> QED
    BY <1>1, <2>1 DEF Ancestors
<1>2. ASSUME p # Root, NEW a \in Ancestors(t, n), a # p
      PROVE  a \in Ancestors(t, p)
  <2>1. a \in DOMAIN t
    BY <1>2 DEF Ancestors
  <2>2. ASSUME NEW S \in SUBSET (DOMAIN t \ {a}), Upward(t, p, S)
        PROVE  FALSE
    <3>1. Upward(t, n, S \cup {p}) /\ S \cup {p} \in SUBSET (DOMAIN t \ {a})
      BY <1>2, <2>2 DEF Upward
    <3> QED
      BY <1>2, <3>1 DEF Ancestors
  <2> QED
    BY <2>1, <2>2 DEF Ancestors
<1>3. ASSUME p # Root
      PROVE  p \in Ancestors(t, n)
  BY <1>3 DEF Ancestors, Upward
<1>4. ASSUME p # Root, NEW a \in Ancestors(t, p)
      PROVE  a \in Ancestors(t, n)
  <2>1. ASSUME NEW S \in SUBSET (DOMAIN t \ {a}), Upward(t, n, S)
        PROVE  Upward(t, p, S)
    BY <1>4, <2>1 DEF Upward
  <2> QED
    BY <1>4, <2>1 DEF Ancestors
<1> QED
  BY <1>1, <1>2, <1>3, <1>4

(* The prefixes of a sequence with one element more. *)
LEMMA AppendPrefix ==
  ASSUME NEW S, NEW p \in Seq(S), NEW q \in Seq(S), NEW e \in S
  PROVE  IsPrefix(p, Append(q, e)) <=> p = Append(q, e) \/ IsPrefix(p, q)
<1> DEFINE r == Append(q, e)
<1>1. r \in Seq(S) /\ Len(r) = Len(q) + 1 /\ \A i \in 1..Len(q) : r[i] = q[i]
  BY AppendProperties
<1> HIDE DEF r
<1>2. IsPrefix(p, r) <=> Len(p) <= Len(r) /\ \A i \in 1..Len(p) : p[i] = r[i]
  BY <1>1 DEF IsPrefix
<1>3. IsPrefix(p, q) <=> Len(p) <= Len(q) /\ \A i \in 1..Len(p) : p[i] = q[i]
  BY DEF IsPrefix
<1>4. CASE Len(p) <= Len(q)
  <2>1. (IsPrefix(p, r) <=> IsPrefix(p, q)) /\ p # r
    BY <1>1, <1>2, <1>3, <1>4
  <2> QED
    BY <2>1 DEF r
<1>5. CASE Len(p) = Len(q) + 1
  <2>1. IsPrefix(p, r) <=> p = r
    BY <1>1, <1>2, <1>5, SeqEqual
  <2> QED
    BY <1>3, <1>5, <2>1 DEF r
<1>6. CASE Len(p) > Len(q) + 1
  BY <1>1, <1>2, <1>3, <1>6 DEF r
<1>7. Len(p) <= Len(q) \/ Len(p) = Len(q) + 1 \/ Len(p) > Len(q) + 1
  OBVIOUS
<1> QED
  BY <1>4, <1>5, <1>6, <1>7, Zenon

(* The elements of such a sequence, and the sequence without its last.     *)
LEMMA AppendSet ==
  ASSUME NEW S, NEW q \in Seq(S), NEW e \in S
  PROVE  ToSet(Append(q, e)) = ToSet(q) \cup {e} /\ Front(Append(q, e)) = q
<1> DEFINE r == Append(q, e)
<1>1. /\ r \in Seq(S) /\ Len(r) = Len(q) + 1 /\ r[Len(q) + 1] = e
      /\ \A i \in 1..Len(q) : r[i] = q[i]
  BY AppendProperties
<1>2. DOMAIN r = 1..Len(q) + 1 /\ DOMAIN q = 1..Len(q) /\ Len(q) \in Nat
  BY <1>1, LenProperties
<1> HIDE DEF r
<1>3. ToSet(r) = ToSet(q) \cup {e}
  BY <1>1, <1>2 DEF ToSet
<1>4. Front(r) = q
  <2>1. Front(r) \in Seq(S) /\ Len(Front(r)) = Len(q) /\ \A i \in 1..Len(q) : Front(r)[i] = r[i]
    BY <1>1, <1>2 DEF Front
  <2> QED
    BY <1>1, <2>1, SeqEqual
<1> QED
  BY <1>3, <1>4 DEF r

(* No two rows have one path: the last id of a path is the row's own. *)
LEMMA OwnPlace ==
  ASSUME NEW t, IsTable(t), NEW L, Rooted(t, L), NEW a \in L, NEW n \in L
  PROVE  t[a].path = t[n].path => a = n
BY SMTT(20), LocationOf, AppendInjective

(* A LIKE on a path goes up from a row to its parent. *)
LEMMA PrefixOfPath ==
  ASSUME NEW t, IsTable(t), NEW L, Rooted(t, L), NEW a \in L, NEW n \in L
  PROVE  Within(t[n].path, t[a].path) <=>
           a = n \/ (t[n].parent # Root /\ Within(t[t[n].parent].path, t[a].path))
<1> DEFINE q == LocationPath(t, t[n].parent)
<1>1. /\ q \in Seq(Node) /\ n \in Node /\ t[n].path = Append(q, n) /\ t[a].path \in Seq(Node)
      /\ Len(t[a].path) > 0
  BY LocationOf
<1>2. Within(t[n].path, t[a].path) <=> a = n \/ IsPrefix(t[a].path, q)
  <2> HIDE DEF q
  <2>1. IsPrefix(t[a].path, Append(q, n)) <=>
          t[a].path = Append(q, n) \/ IsPrefix(t[a].path, q)
    BY <1>1, AppendPrefix
  <2>2. t[a].path = t[n].path <=> a = n
    BY OwnPlace
  <2> QED
    BY <1>1, <2>1, <2>2 DEF Within
<1>3. IsPrefix(t[a].path, q) <=> t[n].parent # Root /\ Within(t[t[n].parent].path, t[a].path)
  BY <1>1 DEF LocationPath, IsPrefix, Within
<1> QED
  BY <1>2, <1>3

(* The ancestors of n, by parent_id, are what its path says they are.      *)
AncestryOf(t, L, n) ==
  /\ \A a \in Ancestors(t, n) : a \in L /\ Len(t[a].path) < Len(t[n].path)
  /\ \A a \in L : Within(t[n].path, t[a].path) <=> a = n \/ a \in Ancestors(t, n)
  /\ AncestorIds(t[n].path) = Ancestors(t, n) \cup {n}

(* Paths and parent_id name the same ancestors, for every row at once.     *)
LEMMA Ancestry ==
  ASSUME NEW t, IsTable(t), NEW L, Rooted(t, L)
  PROVE  \A n \in L : AncestryOf(t, L, n)
<1> DEFINE G == {n \in L : AncestryOf(t, L, n)}
<1>1. ASSUME NEW n \in L, t[n].parent = Root \/ t[n].parent \in G
      PROVE  AncestryOf(t, L, n)
  <2> DEFINE p == t[n].parent
             q == LocationPath(t, p)
  <2>1. Ancestors(t, n) = IF p = Root THEN {} ELSE {p} \cup Ancestors(t, p)
    BY AncestorsStep, NodeAssumption DEF Rooted, IsTable
  <2>2. /\ q \in Seq(Node) /\ n \in Node /\ t[n].path = Append(q, n)
        /\ Len(t[n].path) = Len(q) + 1 /\ Len(q) \in Nat
    BY LocationOf
  <2>3. p # Root => p \in L /\ AncestryOf(t, L, p) /\ q = t[p].path /\ Len(t[p].path) \in Nat
    BY <1>1, LocationOf DEF LocationPath
  <2>4. ASSUME NEW a \in Ancestors(t, n)
        PROVE  a \in L /\ Len(t[a].path) < Len(t[n].path)
    <3>1. p # Root /\ (a = p \/ a \in Ancestors(t, p))
      BY <2>1, <2>4
    <3>2. a \in L /\ Len(t[a].path) <= Len(t[p].path)
      BY <2>3, <3>1 DEF AncestryOf
    <3> QED
      BY <2>2, <2>3, <3>1, <3>2, LocationOf
  <2>5. ASSUME NEW a \in L
        PROVE  Within(t[n].path, t[a].path) <=> a = n \/ a \in Ancestors(t, n)
    BY <2>1, <2>3, PrefixOfPath DEF AncestryOf
  <2>6. AncestorIds(t[n].path) = Ancestors(t, n) \cup {n}
    <3>1. AncestorIds(t[n].path) = AncestorIds(q) \cup {n}
      BY <2>2, AppendSet DEF AncestorIds
    <3>2. CASE p = Root
      <4>1. AncestorIds(q) = {}
        BY <3>2 DEF LocationPath, AncestorIds, ToSet
      <4> QED
        BY <2>1, <3>1, <3>2, <4>1
    <3>3. CASE p # Root
      BY <2>1, <2>3, <3>1, <3>3 DEF AncestryOf
    <3> QED
      BY <3>2, <3>3
  <2> QED
    BY <2>4, <2>5, <2>6 DEF AncestryOf
<1>2. L \subseteq G
  <2>1. \A n \in L : t[n].parent = Root \/ t[n].parent \in G => n \in G
    BY <1>1
  <2> HIDE DEF G
  <2> QED
    BY <2>1, ParentInduction
<1> QED
  BY <1>2

(* Where rows hang together, the ids of a path are the ancestors and the   *)
(* row itself, which is none of them.                                      *)
LEMMA PathNamesAncestors ==
  ASSUME NEW t, IsTable(t), NEW L, Rooted(t, L), NEW n \in L
  PROVE  /\ n \notin Ancestors(t, n) /\ Ancestors(t, n) \subseteq L
         /\ AncestorIds(t[n].path) = Ancestors(t, n) \cup {n}
         /\ StrictAncestorIds(t[n].path) = Ancestors(t, n)
         /\ AncestorIds(LocationPath(t, t[n].parent)) = Ancestors(t, n)
         /\ \A a \in L : Within(t[n].path, t[a].path) <=> a = n \/ a \in Ancestors(t, n)
<1> DEFINE q == LocationPath(t, t[n].parent)
<1>1. AncestryOf(t, L, n) /\ Len(t[n].path) \in Nat
  BY Ancestry, LocationOf
<1>2. n \notin Ancestors(t, n) /\ Ancestors(t, n) \subseteq L
  BY <1>1 DEF AncestryOf
<1>3. Ancestors(t, n) = IF t[n].parent = Root THEN {}
                        ELSE {t[n].parent} \cup Ancestors(t, t[n].parent)
  BY AncestorsStep, NodeAssumption DEF Rooted, IsTable
<1>4. AncestorIds(q) = Ancestors(t, n)
  <2>1. CASE t[n].parent = Root
    BY <1>3, <2>1 DEF LocationPath, AncestorIds, ToSet
  <2>2. CASE t[n].parent # Root
    <3>1. t[n].parent \in L /\ q = t[t[n].parent].path
      BY <2>2 DEF Rooted, LocationPath
    <3>2. AncestryOf(t, L, t[n].parent)
      BY <3>1, Ancestry
    <3> QED
      BY <1>3, <2>2, <3>1, <3>2 DEF AncestryOf
  <2> QED
    BY <2>1, <2>2
<1>5. Front(t[n].path) = q
  <2>1. q \in Seq(Node) /\ n \in Node /\ t[n].path = Append(q, n)
    BY LocationOf
  <2> HIDE DEF q
  <2> QED
    BY <2>1, AppendSet
<1> QED
  BY <1>1, <1>2, <1>4, <1>5 DEF AncestryOf, StrictAncestorIds

(* An ancestor's ancestors are ancestors, and of two ancestors of a row    *)
(* one is above the other.                                                 *)
LEMMA AncestorsChain ==
  ASSUME NEW t, IsTable(t), NEW L, Rooted(t, L), NEW n \in L,
         NEW a \in Ancestors(t, n) \cup {n}, NEW b
  PROVE  /\ a \in L
         /\ b \in Ancestors(t, a) => b \in Ancestors(t, n)
         /\ b \in Ancestors(t, n) \cup {n} =>
              a = b \/ a \in Ancestors(t, b) \/ b \in Ancestors(t, a)
<1>1. a \in L
  BY PathNamesAncestors
<1>2. ASSUME b \in Ancestors(t, a)
      PROVE  b \in Ancestors(t, n)
  <2>1. b \in L /\ Within(t[a].path, t[b].path) /\ Within(t[n].path, t[a].path)
    BY <1>1, <1>2, PathNamesAncestors
  <2>2. Within(t[n].path, t[b].path)
    <3>1. t[a].path \in Seq(Node) /\ t[b].path \in Seq(Node) /\ t[n].path \in Seq(Node)
      BY <1>1, <2>1, LocationOf
    <3> QED
      BY <2>1, <3>1 DEF Within, IsPrefix
  <2>3. b # n
    <3>1. AncestryOf(t, L, a) /\ AncestryOf(t, L, n) /\ Len(t[a].path) \in Nat /\ Len(t[n].path) \in Nat
      BY <1>1, Ancestry, LocationOf
    <3> QED
      BY <1>2, <3>1 DEF AncestryOf
  <2> QED
    BY <2>1, <2>2, <2>3, PathNamesAncestors
<1>3. ASSUME b \in Ancestors(t, n) \cup {n}
      PROVE  a = b \/ a \in Ancestors(t, b) \/ b \in Ancestors(t, a)
  <2>1. b \in L /\ Within(t[n].path, t[b].path) /\ Within(t[n].path, t[a].path)
    BY <1>1, <1>3, PathNamesAncestors
  <2>2. Within(t[a].path, t[b].path) \/ Within(t[b].path, t[a].path)
    <3>1. t[a].path \in Seq(Node) /\ t[b].path \in Seq(Node) /\ t[n].path \in Seq(Node)
      BY <1>1, <2>1, LocationOf
    <3>2. Len(t[a].path) <= Len(t[b].path) \/ Len(t[b].path) <= Len(t[a].path)
      BY <3>1
    <3> QED
      BY <2>1, <3>1, <3>2 DEF Within, IsPrefix
  <2> QED
    BY <1>1, <2>1, <2>2, PathNamesAncestors
<1> QED
  BY <1>1, <1>2, <1>3

(* Ancestors are the same wherever paths are. *)
LEMMA SamePathSameAncestors ==
  ASSUME NEW t, IsTable(t), NEW L, Rooted(t, L), NEW u, IsTable(u), NEW M, Rooted(u, M),
         NEW n \in L \cap M, t[n].path = u[n].path
  PROVE  Ancestors(t, n) = Ancestors(u, n)
<1>1. /\ AncestorIds(t[n].path) = Ancestors(t, n) \cup {n} /\ n \notin Ancestors(t, n)
      /\ AncestorIds(u[n].path) = Ancestors(u, n) \cup {n} /\ n \notin Ancestors(u, n)
  BY PathNamesAncestors
<1> QED
  BY <1>1

(* Nothing weighs nothing. *)
LEMMA WeightNone ==
  ASSUME NEW t
  PROVE  Weight(t, {}) = [size |-> 0, files |-> 0, folders |-> 0]
<1>1. Cells(t, {}) = {} /\ Files(t, {}) = {} /\ Folders(t, {}) = {}
  BY DEF Cells, Files, Folders
<1> QED
  BY <1>1, FS_EmptySet DEF Weight

(* One row more weighs one row more. *)
LEMMA WeightAdd ==
  ASSUME NEW t, IsTable(t), NEW T \in SUBSET DOMAIN t, NEW n \in DOMAIN t \ T
  PROVE  Weight(t, T \cup {n}) = ChargeRoom(Weight(t, T), RowDelta(t[n]))
<1> DEFINE u == [m \in DOMAIN t \ {n} |-> t[m]]
<1>1. IsTable(u) /\ DOMAIN u = DOMAIN t \ {n} /\ t[n] \in Row
  BY DEF IsTable
<1>2. Insert(u, n, t[n]) = t
  <2>1. Insert(u, n, t[n]) = [m \in DOMAIN t |-> t[m]]
    BY DEF Insert
  <2> QED
    BY <2>1 DEF IsTable
<1>3. Weight(u, T) = Weight(t, T)
  <2>1. \A m \in T : u[m] = t[m]
    OBVIOUS
  <2>2. Cells(u, T) = Cells(t, T) /\ Files(u, T) = Files(t, T) /\ Folders(u, T) = Folders(t, T)
    BY <2>1 DEF Cells, Files, Folders
  <2> QED
    BY <2>2 DEF Weight
<1> HIDE DEF u
<1> QED
  BY <1>1, <1>2, <1>3, WeightInsert

(* Two sets of rows that share none weigh what both weigh. *)
LEMMA WeightJoin ==
  ASSUME NEW t, IsTable(t), NEW T \in SUBSET DOMAIN t, NEW S \in SUBSET DOMAIN t,
         T \cap S = {}
  PROVE  Weight(t, T \cup S) = ChargeRoom(Weight(t, T), Weight(t, S))
<1>1. Weight(t, (T \cup S) \ S) = ChargeRoom(Weight(t, T \cup S), Negate(Weight(t, S)))
  BY WeightDifference
<1>2. (T \cup S) \ S = T
  OBVIOUS
<1>3. /\ Weight(t, T) \in [size : Nat, files : Nat, folders : Nat]
      /\ Weight(t, S) \in [size : Nat, files : Nat, folders : Nat]
      /\ Weight(t, T \cup S) \in [size : Nat, files : Nat, folders : Nat]
  BY WeightType
<1> HIDE DEF Weight
<1> QED
  BY SMTT(20), <1>1, <1>2, <1>3 DEF ChargeRoom, Negate

(* What a charge does to one row. *)
LEMMA ChargeRow ==
  ASSUME NEW t, IsTable(t), NEW ids, NEW d \in Delta, NEW n \in DOMAIN t
  PROVE  LET u == Charge(t, ids, d)
         IN  /\ u[n].parent = t[n].parent /\ u[n].path = t[n].path
             /\ u[n].type = t[n].type /\ u[n].deleted = t[n].deleted
             /\ u[n].name = t[n].name /\ u[n].size = t[n].size
             /\ Counters(u[n]) = IF n \in ids THEN ChargeRoom(Counters(t[n]), d)
                                 ELSE Counters(t[n])
<1> DEFINE u == Charge(t, ids, d)
<1>1. t[n] \in Row
  BY DEF IsTable
<1>2. CASE n \in ids
  <2>1. u[n] = [t[n] EXCEPT !.totalSize = @ + d.size, !.fileCount = @ + d.files,
                            !.folderCount = @ + d.folders]
    BY <1>2 DEF Charge
  <2> HIDE DEF u
  <2> QED
    BY <1>1, <1>2, <2>1 DEF Row, Counters, ChargeRoom, u
<1>3. CASE n \notin ids
  BY <1>3 DEF Charge
<1> QED
  BY <1>2, <1>3

-----------------------------------------------------------------------------
(* Counters: what a create and a delete leave of them. *)

(* Every live row's counters are right. *)
Counted(t) == \A f \in Live(t) : CountersMatch(t, f)

(* Two tables whose rows have the same places. *)
SamePlaces(t, u) ==
  DOMAIN t = DOMAIN u /\ \A n \in DOMAIN t : t[n].parent = u[n].parent /\ t[n].path = u[n].path

(* They have the same ancestors, and hang together alike. *)
LEMMA SamePlacesSameTree ==
  ASSUME NEW t, NEW u, SamePlaces(t, u), Root \notin DOMAIN t
  PROVE  /\ \A n \in DOMAIN t : Ancestors(t, n) = Ancestors(u, n)
         /\ \A L : Rooted(t, L) => Rooted(u, L)
<1>1. ASSUME NEW n \in DOMAIN t
      PROVE  Ancestors(t, n) = Ancestors(u, n)
  <2>1. ASSUME NEW S \in SUBSET DOMAIN t
        PROVE  Upward(t, n, S) <=> Upward(u, n, S)
    BY DEF Upward, SamePlaces
  <2> QED
    BY <2>1 DEF Ancestors, SamePlaces
<1>2. ASSUME NEW L, Rooted(t, L)
      PROVE  Rooted(u, L)
  BY ZenonT(60), <1>2 DEF Rooted, SamePlaces, PathFollowsParent, LocationPath
<1> QED
  BY <1>1, <1>2

(* Counters that count still do when nothing they depend on has changed. *)
LEMMA SameCounts ==
  ASSUME NEW t, IsTable(t), NEW u, SamePlaces(t, u), Alike(t, u), Counted(t),
         \A n \in DOMAIN t : Counters(u[n]) = Counters(t[n])
  PROVE  Counted(u)
<1> SUFFICES ASSUME NEW f \in Live(u)
             PROVE  Counters(u[f]) = Weight(u, Beneath(u, f))
  BY DEF Counted, CountersMatch
<1>1. Root \notin DOMAIN t
  BY NodeAssumption DEF IsTable
<1>2. Live(t) = Live(u) /\ f \in Live(t) /\ f \in DOMAIN t
  BY AlikeWeight DEF Live
<1>3. Beneath(u, f) = Beneath(t, f) /\ Beneath(t, f) \in SUBSET DOMAIN t
  BY <1>1, <1>2, SamePlacesSameTree DEF Beneath, Live
<1>4. Weight(u, Beneath(t, f)) = Weight(t, Beneath(t, f))
  BY <1>3, AlikeWeight
<1> QED
  BY <1>2, <1>3, <1>4 DEF Counted, CountersMatch

(* The table with one more row, which the chain above it is charged. *)
Inserted(t, n, row) ==
  Charge(Insert(t, n, row), AncestorIds(LocationPath(t, row.parent)), RowDelta(row))

(* What that does to the rows. *)
InsertEffect(t, n, row, u) ==
  LET ids == AncestorIds(LocationPath(t, row.parent))
  IN  /\ IsTable(u) /\ DOMAIN u = DOMAIN t \cup {n} /\ Live(u) = Live(t) \cup {n}
      /\ Alike(u, Insert(t, n, row))
      /\ u[n].parent = row.parent /\ u[n].path = row.path /\ u[n].type = row.type
      /\ u[n].name = row.name /\ u[n].size = row.size /\ u[n].deleted = row.deleted
      /\ n \notin ids => Counters(u[n]) = Counters(row)
      /\ \A m \in DOMAIN t :
           /\ u[m].parent = t[m].parent /\ u[m].path = t[m].path
           /\ u[m].type = t[m].type /\ u[m].deleted = t[m].deleted
           /\ u[m].name = t[m].name /\ u[m].size = t[m].size
           /\ Counters(u[m]) = IF m \in ids THEN ChargeRoom(Counters(t[m]), RowDelta(row))
                               ELSE Counters(t[m])

(* It adds the row to what there is, and changes counters alone. *)
LEMMA InsertedRows ==
  ASSUME NEW t, IsTable(t), NEW n \in Node, n \notin DOMAIN t, NEW row \in Row, ~row.deleted
  PROVE  InsertEffect(t, n, row, Inserted(t, n, row))
<1> DEFINE ids == AncestorIds(LocationPath(t, row.parent))
           d == RowDelta(row)
           v == Insert(t, n, row)
           u == Inserted(t, n, row)
<1>0. d \in Delta
  BY SizeAssumption DEF Row, RowDelta, Delta
<1>1. /\ IsTable(v) /\ DOMAIN v = DOMAIN t \cup {n} /\ v[n] = row
      /\ \A m \in DOMAIN t : v[m] = t[m]
  <2>1. IsTable(v) /\ DOMAIN v = DOMAIN t \cup {n}
    BY InsertTable
  <2>2. v[n] = row /\ \A m \in DOMAIN t : v[m] = t[m]
    BY DEF Insert
  <2> QED
    BY <2>1, <2>2
<1>2. u = Charge(v, ids, d)
  BY DEF Inserted
<1> HIDE DEF ids, d, v, u
<1>3. IsTable(u) /\ Alike(u, v) /\ DOMAIN u = DOMAIN t \cup {n}
  BY <1>0, <1>1, <1>2, ChargeTable DEF Alike
<1>4. \A m \in DOMAIN u :
        /\ u[m].parent = v[m].parent /\ u[m].path = v[m].path
        /\ u[m].type = v[m].type /\ u[m].deleted = v[m].deleted
        /\ u[m].name = v[m].name /\ u[m].size = v[m].size
        /\ Counters(u[m]) = IF m \in ids THEN ChargeRoom(Counters(v[m]), d)
                            ELSE Counters(v[m])
  BY <1>0, <1>1, <1>2, <1>3, ChargeRow
<1>5. \A m \in DOMAIN t :
        /\ u[m].parent = t[m].parent /\ u[m].path = t[m].path
        /\ u[m].type = t[m].type /\ u[m].deleted = t[m].deleted
        /\ u[m].name = t[m].name /\ u[m].size = t[m].size
        /\ Counters(u[m]) = IF m \in ids THEN ChargeRoom(Counters(t[m]), d)
                            ELSE Counters(t[m])
  BY <1>1, <1>3, <1>4
<1>6. /\ u[n].parent = row.parent /\ u[n].path = row.path /\ u[n].type = row.type
      /\ u[n].name = row.name /\ u[n].size = row.size /\ u[n].deleted = row.deleted
      /\ n \notin ids => Counters(u[n]) = Counters(row)
  BY <1>1, <1>3, <1>4
<1>7. Live(u) = Live(t) \cup {n}
  BY <1>3, <1>5, <1>6 DEF Live
<1> QED
  BY <1>3, <1>5, <1>6, <1>7 DEF InsertEffect, ids, d, v, u

(* A row that is inserted beneath one that hangs together, and charged to  *)
(* the chain above it, keeps the counters right.                           *)
LEMMA InsertCounts ==
  ASSUME NEW t, IsTable(t), NEW L, Rooted(t, L), Live(t) \subseteq L, Counted(t),
         NEW n \in Node, n \notin DOMAIN t, NEW row \in Row, row.parent \in L \cup {Root},
         row.path = Append(LocationPath(t, row.parent), n), ~row.deleted,
         row.totalSize = 0, row.fileCount = 0, row.folderCount = 0
  PROVE  Rooted(Inserted(t, n, row), L \cup {n}) /\ Counted(Inserted(t, n, row))
<1> DEFINE p == row.parent
           ids == AncestorIds(LocationPath(t, p))
           d == RowDelta(row)
           v == Insert(t, n, row)
           u == Inserted(t, n, row)
<1>0. InsertEffect(t, n, row, u)
  BY InsertedRows
<1>1. DOMAIN v = DOMAIN t \cup {n} /\ \A m \in DOMAIN t : v[m] = t[m]
  BY DEF Insert
<1> HIDE DEF u
<1>2. /\ IsTable(u) /\ DOMAIN u = DOMAIN t \cup {n} /\ Live(u) = Live(t) \cup {n} /\ Alike(u, v)
      /\ u[n].parent = p /\ u[n].path = row.path
      /\ n \notin ids => Counters(u[n]) = Counters(row)
      /\ \A m \in DOMAIN t : /\ u[m].parent = t[m].parent /\ u[m].path = t[m].path
                             /\ Counters(u[m]) = IF m \in ids THEN ChargeRoom(Counters(t[m]), d)
                                                 ELSE Counters(t[m])
  BY <1>0 DEF InsertEffect
<1> HIDE DEF p, ids, d, v
<1>3. \A q \in L \cup {Root} : LocationPath(u, q) = LocationPath(t, q)
  BY <1>2 DEF Rooted, LocationPath
<1>4. Rooted(u, L \cup {n})
  <2>1. ASSUME NEW m \in L
        PROVE  u[m].parent \in L \cup {Root} /\ PathFollowsParent(u, m)
    BY <1>2, <1>3 DEF Rooted, PathFollowsParent
  <2>2. PathFollowsParent(u, n)
    BY <1>2, <1>3 DEF PathFollowsParent, p
  <2> QED
    BY <1>2, <2>1, <2>2 DEF Rooted, p
<1>5. \A m \in L : Ancestors(u, m) = Ancestors(t, m) /\ n \notin Ancestors(u, m) /\ m # n
  BY <1>2, <1>4, SamePathSameAncestors, PathNamesAncestors DEF Rooted
<1>6. Ancestors(u, n) = ids /\ n \notin ids
  BY <1>2, <1>3, <1>4, PathNamesAncestors DEF ids, p
<1>7. ASSUME NEW f \in Live(u)
       PROVE  Counters(u[f]) = Weight(u, Beneath(u, f))
  <2>1. CASE f = n
    <3>1. Beneath(u, n) = {}
      BY <1>2, <1>5, <1>6 DEF Beneath
    <3>2. Counters(row) = [size |-> 0, files |-> 0, folders |-> 0]
      BY DEF Counters
    <3> QED
      BY <1>2, <1>6, <2>1, <3>1, <3>2, WeightNone
  <2>2. CASE f # n
    <3>1. f \in Live(t) /\ f \in DOMAIN t
      BY <1>2, <2>2 DEF Live
    <3>2. /\ Beneath(u, f) = IF f \in ids THEN Beneath(t, f) \cup {n} ELSE Beneath(t, f)
          /\ Beneath(t, f) \in SUBSET DOMAIN t
      BY <1>2, <1>5, <1>6 DEF Beneath, Live
    <3>3. Weight(u, Beneath(u, f)) = Weight(v, Beneath(u, f))
      BY <1>1, <1>2, <3>2, AlikeWeight
    <3>4. Weight(v, Beneath(t, f)) = Weight(t, Beneath(t, f))
      <4>1. \A m \in Beneath(t, f) : v[m] = t[m]
        BY <1>1, <3>2
      <4>2. /\ Cells(v, Beneath(t, f)) = Cells(t, Beneath(t, f))
            /\ Files(v, Beneath(t, f)) = Files(t, Beneath(t, f))
            /\ Folders(v, Beneath(t, f)) = Folders(t, Beneath(t, f))
        BY <4>1 DEF Cells, Files, Folders
      <4> QED
        BY <4>2 DEF Weight
    <3>5. Weight(v, Beneath(t, f) \cup {n}) = ChargeRoom(Weight(t, Beneath(t, f)), d)
      BY <3>2, WeightInsert DEF v, d
    <3>6. Counters(t[f]) = Weight(t, Beneath(t, f))
      BY <3>1 DEF Counted, CountersMatch
    <3>7. Counters(u[f]) = IF f \in ids THEN ChargeRoom(Counters(t[f]), d) ELSE Counters(t[f])
      BY <1>2, <3>1
    <3> QED
      BY <3>2, <3>3, <3>4, <3>5, <3>6, <3>7
  <2> QED
    BY <2>1, <2>2
<1> QED
  BY <1>4, <1>7 DEF Counted, CountersMatch, u

(* Rows that are stamped beneath n, none of them beneath a live row of the *)
(* range that is spared, and taken off the chain above n, leave counters   *)
(* that are right.                                                         *)
LEMMA DeleteCounts ==
  ASSUME NEW t, IsTable(t), NEW L, Rooted(t, L), Live(t) \subseteq L, Counted(t),
         NEW n \in L, NEW S \in SUBSET Live(t),
         \A m \in S : m = n \/ n \in Ancestors(t, m),
         \A m \in S, f \in Live(t) :
           f \in Ancestors(t, m) /\ (f = n \/ n \in Ancestors(t, f)) => f \in S,
         NEW u, u = Charge(Stamp(t, S), StrictAncestorIds(t[n].path), Negate(Weight(t, S)))
  PROVE  /\ IsTable(u) /\ DOMAIN u = DOMAIN t /\ SamePlaces(t, u)
         /\ Rooted(u, L) /\ Live(u) = Live(t) \ S /\ Counted(u)
         /\ \A m \in DOMAIN t : /\ u[m].type = t[m].type /\ u[m].name = t[m].name
                                /\ u[m].size = t[m].size
                                /\ u[m].deleted <=> (m \in S \/ t[m].deleted)
<1> DEFINE v == Stamp(t, S)
           d == Negate(Weight(t, S))
           ids == StrictAncestorIds(t[n].path)
<1>1. S \in SUBSET DOMAIN t /\ Root \notin DOMAIN t
  BY NodeAssumption DEF Live, IsTable
<1>2. Weight(t, S) \in [size : Nat, files : Nat, folders : Nat] /\ d \in Delta
  <2>1. Weight(t, S) \in [size : Nat, files : Nat, folders : Nat]
    BY <1>1, WeightType
  <2> QED
    BY <2>1 DEF Negate, Delta
<1>3. /\ IsTable(v) /\ DOMAIN v = DOMAIN t /\ Live(v) = Live(t) \ S
      /\ \A T \in SUBSET DOMAIN t : Weight(v, T) = Weight(t, T)
  BY <1>1, StampTable
<1>4. \A m \in DOMAIN t : /\ v[m].parent = t[m].parent /\ v[m].path = t[m].path
                          /\ v[m].type = t[m].type /\ v[m].name = t[m].name
                          /\ v[m].size = t[m].size /\ Counters(v[m]) = Counters(t[m])
                          /\ v[m].deleted <=> (m \in S \/ t[m].deleted)
  <2> SUFFICES ASSUME NEW m \in DOMAIN t
               PROVE  /\ v[m].parent = t[m].parent /\ v[m].path = t[m].path
                      /\ v[m].type = t[m].type /\ v[m].name = t[m].name
                      /\ v[m].size = t[m].size /\ Counters(v[m]) = Counters(t[m])
                      /\ v[m].deleted <=> (m \in S \/ t[m].deleted)
    OBVIOUS
  <2>1. t[m] \in Row
    BY DEF IsTable
  <2>2. v[m] = IF m \in S THEN [t[m] EXCEPT !.deleted = TRUE] ELSE t[m]
    BY DEF Stamp
  <2> QED
    BY <2>1, <2>2 DEF Row, Counters
<1>5. u = Charge(v, ids, d)
  OBVIOUS
<1> HIDE DEF v
<1>6. IsTable(u) /\ Alike(u, v) /\ DOMAIN u = DOMAIN t
  BY <1>2, <1>3, <1>5, ChargeTable DEF Alike
<1>7. \A m \in DOMAIN u :
        /\ u[m].parent = v[m].parent /\ u[m].path = v[m].path
        /\ u[m].type = v[m].type /\ u[m].deleted = v[m].deleted
        /\ u[m].name = v[m].name /\ u[m].size = v[m].size
        /\ Counters(u[m]) = IF m \in ids THEN ChargeRoom(Counters(v[m]), d)
                            ELSE Counters(v[m])
  BY <1>2, <1>3, <1>5, <1>6, ChargeRow
<1>8. SamePlaces(t, u)
  BY <1>4, <1>6, <1>7 DEF SamePlaces
<1>9. /\ Rooted(u, L) /\ \A m \in DOMAIN t : Ancestors(u, m) = Ancestors(t, m)
  BY <1>1, <1>8, SamePlacesSameTree
<1>10. Live(u) = Live(t) \ S
  BY <1>3, <1>6, AlikeWeight
<1>11. ids = Ancestors(t, n)
  BY PathNamesAncestors
<1>12. \A m \in DOMAIN t :
         Counters(u[m]) = IF m \in ids THEN ChargeRoom(Counters(t[m]), d) ELSE Counters(t[m])
  BY <1>4, <1>6, <1>7
<1>13. \A m \in DOMAIN t : /\ u[m].type = t[m].type /\ u[m].name = t[m].name
                           /\ u[m].size = t[m].size
                           /\ u[m].deleted <=> (m \in S \/ t[m].deleted)
  BY <1>4, <1>6, <1>7
<1> HIDE DEF d, ids
<1>14. ASSUME NEW f \in Live(u)
       PROVE  Counters(u[f]) = Weight(u, Beneath(u, f))
  <2>1. f \in Live(t) /\ f \notin S /\ f \in L /\ f \in DOMAIN t
    BY <1>10 DEF Live
  <2>2. Beneath(u, f) = Beneath(t, f) \ S /\ Beneath(t, f) \in SUBSET DOMAIN t
    BY <1>9, <1>10 DEF Beneath, Live
  <2>3. Weight(u, Beneath(u, f)) = Weight(t, Beneath(t, f) \ S)
    BY <1>3, <1>6, <2>2, AlikeWeight
  <2>4. Counters(t[f]) = Weight(t, Beneath(t, f))
    BY <2>1 DEF Counted, CountersMatch
  <2>5. CASE f \in ids
    <3>1. ASSUME NEW m \in S
          PROVE  m \in Beneath(t, f)
      <4>1. m \in L /\ n \in Ancestors(t, m) \cup {m} /\ f \in Ancestors(t, n)
        BY <1>11, <2>5
      <4>2. f \in Ancestors(t, m)
        BY <4>1, AncestorsChain
      <4> QED
        BY <4>2 DEF Beneath
    <3>2. Weight(t, Beneath(t, f) \ S) = ChargeRoom(Weight(t, Beneath(t, f)), d)
      BY <2>2, <3>1, WeightDifference DEF d
    <3> QED
      BY <1>12, <2>1, <2>3, <2>4, <2>5, <3>2
  <2>6. CASE f \notin ids
    <3>1. ASSUME NEW m \in S, m \in Beneath(t, f)
          PROVE  FALSE
      <4>1. m \in L /\ f \in Ancestors(t, m) /\ n \in Ancestors(t, m) \cup {m}
        BY <3>1 DEF Beneath
      <4>2. n = f \/ n \in Ancestors(t, f) \/ f \in Ancestors(t, n)
        BY <4>1, AncestorsChain
      <4>3. f \in S
        BY <1>11, <2>1, <2>6, <4>1, <4>2
      <4> QED
        BY <2>1, <4>3
    <3>2. Beneath(t, f) \ S = Beneath(t, f)
      BY <3>1
    <3> QED
      BY <1>12, <2>1, <2>3, <2>4, <2>6, <3>2
  <2> QED
    BY <2>5, <2>6
<1> QED
  BY <1>6, <1>8, <1>9, <1>10, <1>13, <1>14 DEF Counted, CountersMatch

-----------------------------------------------------------------------------
(* Subtrees: what a move rewrites, and what it weighs. *)

(* The tail of a path with one id more is the tail and that id. *)
LEMMA TailAppend ==
  ASSUME NEW S, NEW q \in Seq(S), NEW e \in S, NEW r \in Seq(S), NEW k \in Nat, k <= Len(q)
  PROVE  r \o SubSeq(Append(q, e), k + 1, Len(Append(q, e)))
           = Append(r \o SubSeq(q, k + 1, Len(q)), e)
<1> DEFINE a == Append(q, e)
           x == SubSeq(a, k + 1, Len(a))
           y == SubSeq(q, k + 1, Len(q))
<1>1. /\ a \in Seq(S) /\ Len(a) = Len(q) + 1 /\ a[Len(q) + 1] = e
      /\ \A i \in 1..Len(q) : a[i] = q[i]
  BY AppendProperties
<1> HIDE DEF a
<1>2. /\ x \in Seq(S) /\ Len(x) = Len(q) + 1 - k
      /\ \A i \in 1..Len(x) : x[i] = a[k + i]
  <2>1. \A i \in k + 1..Len(a) : a[i] \in S
    BY <1>1
  <2>2. /\ x \in Seq(S) /\ Len(x) = IF k + 1 <= Len(a) THEN Len(a) - (k + 1) + 1 ELSE 0
        /\ \A i \in 1..Len(a) - (k + 1) + 1 : x[i] = a[(k + 1) + i - 1]
    BY <1>1, <2>1, SubSeqProperties
  <2> HIDE DEF x
  <2>3. Len(x) = Len(q) + 1 - k
    BY <1>1, <2>2
  <2>4. ASSUME NEW i \in 1..Len(x)
        PROVE  x[i] = a[k + i]
    <3>1. (k + 1) + i - 1 = k + i /\ i \in 1..Len(a) - (k + 1) + 1
      BY <1>1, <2>3
    <3> QED
      BY <2>2, <3>1
  <2> QED
    BY <2>2, <2>3, <2>4
<1>3. /\ y \in Seq(S) /\ Len(y) = Len(q) - k
      /\ \A i \in 1..Len(y) : y[i] = q[k + i]
  OBVIOUS
<1> HIDE DEF x, y
<1>4. /\ Append(y, e) \in Seq(S) /\ Len(Append(y, e)) = Len(y) + 1
      /\ Append(y, e)[Len(y) + 1] = e /\ \A i \in 1..Len(y) : Append(y, e)[i] = y[i]
  BY <1>3, AppendProperties
<1>5. x = Append(y, e)
  <2> DEFINE h == Append(y, e)
  <2>1. \A i \in 1..Len(y) : x[i] = h[i]
    <3> TAKE i \in 1..Len(y)
    <3>1. /\ i \in 1..Len(x) /\ k + i \in 1..Len(q) /\ i \in Nat
          /\ x[i] = a[k + i] /\ h[i] = y[i] /\ y[i] = q[k + i]
      <4>1. i \in 1..Len(x) /\ k + i \in 1..Len(q) /\ i \in Nat
        BY <1>2, <1>3
      <4> QED
        BY <1>2, <1>3, <1>4, <4>1
    <3>2. a[k + i] = q[k + i]
      BY <1>1, <3>1
    <3> QED
      BY <3>1, <3>2
  <2>2. x[Len(y) + 1] = h[Len(y) + 1]
    BY <1>1, <1>2, <1>3, <1>4
  <2>3. h \in Seq(S) /\ Len(h) = Len(x) /\ Len(x) = Len(y) + 1 /\ Len(y) \in Nat
    BY <1>2, <1>3, <1>4
  <2> HIDE DEF h
  <2>4. x = h
    BY SMTT(20), <1>2, <2>1, <2>2, <2>3, SeqEqual
  <2> QED
    BY <2>4 DEF h
<1>6. r \o Append(y, e) = Append(r \o y, e)
  <2> DEFINE last == <<e>>
  <2>1. Append(y, e) = y \o last /\ last \in Seq(S)
    BY <1>3, AppendIsConcat
  <2>2. r \o y \in Seq(S)
    BY <1>3, ConcatProperties
  <2>3. Append(r \o y, e) = (r \o y) \o last
    BY <2>2, AppendIsConcat
  <2> HIDE DEF last
  <2>4. (r \o y) \o last = r \o (y \o last)
    BY SMTT(20), <1>3, <2>1, ConcatAssociative
  <2> QED
    BY <2>1, <2>3, <2>4
<1> QED
  BY <1>5, <1>6 DEF a, x, y

(* What a relocation does to one row. *)
LEMMA RelocateRow ==
  ASSUME NEW t, IsTable(t), NEW S, NEW n, NEW dest, NEW newPath, NEW len, NEW m \in DOMAIN t
  PROVE  LET v == Relocate(t, S, n, dest, newPath, len)
         IN  /\ v[m].path = IF m \in S THEN newPath \o SubSeq(t[m].path, len + 1, Len(t[m].path))
                            ELSE t[m].path
             /\ v[m].parent = IF m \in S /\ m = n THEN dest ELSE t[m].parent
             /\ v[m].type = t[m].type /\ v[m].deleted = t[m].deleted
             /\ v[m].name = t[m].name /\ v[m].size = t[m].size
             /\ Counters(v[m]) = Counters(t[m])
<1> DEFINE v == Relocate(t, S, n, dest, newPath, len)
<1>1. t[m] \in Row
  BY DEF IsTable
<1>2. CASE m \in S
  <2>1. v[m] = [t[m] EXCEPT !.path = newPath \o SubSeq(@, len + 1, Len(@)),
                            !.parent = IF m = n THEN dest ELSE @]
    BY <1>2 DEF Relocate
  <2> HIDE DEF v
  <2> QED
    BY <1>1, <1>2, <2>1 DEF Row, Counters, v
<1>3. CASE m \notin S
  BY <1>3 DEF Relocate
<1> QED
  BY <1>2, <1>3

(* The range of a live row's path: the row and what is beneath it. *)
LEMMA MatchedSubtree ==
  ASSUME NEW t, IsTable(t), Rooted(t, Live(t)), NEW n \in Live(t)
  PROVE  /\ Matched(t, t[n].path) = Beneath(t, n) \cup {n} /\ n \notin Beneath(t, n)
         /\ \A m \in Live(t) : m \in Matched(t, t[n].path) <=> m = n \/ n \in Ancestors(t, m)
<1>1. \A m \in Live(t) : Within(t[m].path, t[n].path) <=> n = m \/ n \in Ancestors(t, m)
  BY PathNamesAncestors
<1>2. n \notin Ancestors(t, n)
  BY PathNamesAncestors
<1> QED
  BY <1>1, <1>2 DEF Matched, Beneath

(* A move is weighed by what it moves. *)
LEMMA CarriedWeight ==
  ASSUME NEW t, IsTable(t), Rooted(t, Live(t)), Counted(t), NEW n \in Live(t)
  PROVE  /\ Carried(t[n]) = Weight(t, Matched(t, t[n].path))
         /\ Carried(t[n]) \in Delta
<1>1. /\ Matched(t, t[n].path) = Beneath(t, n) \cup {n} /\ n \notin Beneath(t, n)
      /\ Beneath(t, n) \in SUBSET DOMAIN t /\ n \in DOMAIN t /\ t[n] \in Row
  BY MatchedSubtree DEF Beneath, Live, IsTable
<1>2. Weight(t, Beneath(t, n) \cup {n}) = ChargeRoom(Weight(t, Beneath(t, n)), RowDelta(t[n]))
  BY <1>1, WeightAdd
<1>3. Counters(t[n]) = Weight(t, Beneath(t, n))
  BY DEF Counted, CountersMatch
<1>4. ChargeRoom(Counters(t[n]), RowDelta(t[n])) = Carried(t[n])
  BY DEF ChargeRoom, Counters, RowDelta, Carried
<1>5. Weight(t, Matched(t, t[n].path)) \in [size : Nat, files : Nat, folders : Nat]
  BY <1>1, WeightType
<1>6. Carried(t[n]) = Weight(t, Matched(t, t[n].path))
  BY <1>1, <1>2, <1>3, <1>4
<1> QED
  BY <1>5, <1>6 DEF Delta

-----------------------------------------------------------------------------
(* Every interleaving of the tree's requests *)

(* The two facts are proved together: that the counters stay a delta needs *)
(* the type of what is held between statements, and nothing else.          *)
IInv == TypeOK /\ RoomTotals

(* The path of a location is a path. *)
LEMMA LocationPathType ==
  ASSUME IsTable(rows), NEW p, IsLocation(rows, p)
  PROVE  p \in Node \cup {Root} /\ LocationPath(rows, p) \in Seq(Node)
BY DEF IsTable, IsLocation, LocationPath, Live, Row

(* A row that is inserted and charged brings the room up by itself. *)
LEMMA InsertChargedKeeps ==
  ASSUME IsTable(rows), room \in Delta, RoomTotals,
         NEW n \in Node, n \notin DOMAIN rows, NEW row \in Row, ~row.deleted,
         NEW path, NEW d \in Delta, d = RowDelta(row),
         InsertCharged(n, row, path, d)
  PROVE  IsTable(rows') /\ room' \in Delta /\ RoomTotals'
<1> DEFINE t == Insert(rows, n, row)
<1>1. IsTable(t) /\ DOMAIN t = DOMAIN rows \cup {n}
  BY InsertTable
<1>2. rows' = Charge(t, AncestorIds(path), d) /\ room' = ChargeRoom(room, d)
  BY DEF InsertCharged
<1>3. IsTable(rows') /\ Alike(rows', t)
  BY <1>1, <1>2, ChargeTable
<1>4. Live(t) = Live(rows) \cup {n}
  BY InsertLive
<1>5. Live(rows) \in SUBSET DOMAIN rows /\ Live(t) \in SUBSET DOMAIN t
  BY DEF Live
<1>6. Weight(t, Live(t)) = ChargeRoom(Weight(rows, Live(rows)), RowDelta(row))
  BY <1>4, <1>5, WeightInsert
<1>7. Live(rows') = Live(t) /\ Weight(rows', Live(t)) = Weight(t, Live(t))
  <2>1. DOMAIN rows' = DOMAIN t
    BY <1>3 DEF Alike
  <2>2. QED
    BY <1>3, <1>5, <2>1, AlikeWeight
<1>8. room' = Weight(rows', Live(rows'))
  BY <1>2, <1>6, <1>7 DEF RoomTotals
<1>9. room' \in Delta
  BY <1>2 DEF Delta, ChargeRoom
<1>10. QED
  BY <1>3, <1>8, <1>9 DEF RoomTotals

(* A delete takes the room down by what it stamped. *)
LEMMA DeleteKeeps ==
  ASSUME TypeOK, RoomTotals, NEW w \in Worker, DeleteCommit(w)
  PROVE  IsTable(rows') /\ room' \in Delta /\ RoomTotals'
<1> DEFINE stamped == StillMatched(req[w])
           delta == Negate(Weight(rows, stamped))
           t == Stamp(rows, stamped)
<1>1. /\ rows' = Charge(t, StrictAncestorIds(req[w].path), delta)
      /\ room' = ChargeRoom(room, delta)
  BY DEF DeleteCommit
<1>2. IsTable(rows)
  BY DEF TypeOK
<1>3. /\ stamped \in SUBSET Live(rows)
      /\ Live(rows) \in SUBSET DOMAIN rows
      /\ stamped \in SUBSET DOMAIN rows
  BY DEF StillMatched, Matched, Live
<1>4. /\ Weight(rows, stamped) \in [size : Nat, files : Nat, folders : Nat]
      /\ Weight(rows, Live(rows)) \in [size : Nat, files : Nat, folders : Nat]
  BY <1>2, <1>3, WeightType
<1>5. delta \in Delta
  BY <1>4 DEF Negate, Delta
<1>6. /\ IsTable(t) /\ DOMAIN t = DOMAIN rows
      /\ Live(t) = Live(rows) \ stamped
      /\ Weight(t, Live(t)) = Weight(rows, Live(t))
  BY <1>2, <1>3, StampTable
<1>7. Weight(rows, Live(rows) \ stamped) = ChargeRoom(Weight(rows, Live(rows)), delta)
  BY <1>2, <1>3, WeightDifference
<1>8. IsTable(rows') /\ Alike(rows', t)
  BY <1>1, <1>5, <1>6, ChargeTable
<1>9. Live(t) \in SUBSET DOMAIN rows' /\ DOMAIN rows' = DOMAIN t
  BY <1>8 DEF Alike, Live
<1>10. Live(rows') = Live(t) /\ Weight(rows', Live(t)) = Weight(t, Live(t))
  BY <1>8, <1>9, AlikeWeight
<1>11. room' = Weight(rows', Live(rows'))
  BY <1>1, <1>6, <1>7, <1>10 DEF RoomTotals
<1>12. room' \in Delta
  BY <1>1, <1>5 DEF TypeOK, Delta, ChargeRoom
<1>13. QED
  BY <1>8, <1>11, <1>12 DEF RoomTotals

(* A move charges the room twice, and the second undoes the first. *)
LEMMA MoveKeeps ==
  ASSUME TypeOK, RoomTotals, NEW w \in Worker, MoveCommit(w), req[w] \in MoveReq
  PROVE  IsTable(rows') /\ room' \in Delta /\ RoomTotals' /\ room' = room
<1> DEFINE r == req[w]
           off == Negate(r.delta)
           moved == Relocate(rows, StillMatched(r), r.node, r.dest,
                             Append(r.destPath, r.node), Len(r.path))
           charged == Charge(moved, StrictAncestorIds(r.path), off)
<1>1. /\ rows' = Charge(charged, AncestorIds(r.destPath), r.delta)
      /\ room' = ChargeRoom(ChargeRoom(room, off), r.delta)
  BY DEF MoveCommit, Transfer
<1>2. /\ IsTable(rows) /\ room \in Delta /\ r.delta \in Delta
      /\ r.node \in Node /\ r.dest \in Node \cup {Root}
      /\ r.destPath \in Seq(Node) /\ r.path \in Seq(Node)
  BY DEF TypeOK, MoveReq
<1>3. Append(r.destPath, r.node) \in Seq(Node) /\ Len(r.path) \in Nat
  BY <1>2
<1>4. IsTable(moved) /\ Alike(moved, rows)
  BY <1>2, <1>3, RelocateTable
<1>5. off \in Delta /\ room' = room
  BY <1>1, <1>2, ChargeBack
<1>6. IsTable(charged) /\ Alike(charged, moved)
  BY <1>4, <1>5, ChargeTable
<1>7. IsTable(rows') /\ Alike(rows', charged)
  BY SMTT(20), <1>1, <1>2, <1>6, ChargeTable
<1>8. Alike(rows', rows)
  <2>1. ASSUME NEW t, NEW u, NEW v, Alike(t, u), Alike(u, v)
        PROVE  Alike(t, v)
    BY <2>1 DEF Alike
  <2> HIDE DEF moved, charged
  <2>2. Alike(charged, rows)
    BY <1>4, <1>6, <2>1
  <2> QED
    BY <1>7, <2>1, <2>2
<1>9. Live(rows) \in SUBSET DOMAIN rows' /\ DOMAIN rows' = DOMAIN rows
  BY <1>8 DEF Alike, Live
<1>10. /\ Live(rows') = Live(rows)
       /\ Weight(rows', Live(rows)) = Weight(rows, Live(rows))
  BY <1>8, <1>9, AlikeWeight
<1>11. QED
  BY <1>2, <1>5, <1>7, <1>10 DEF RoomTotals

(* A rename changes no weight. *)
LEMMA RenameKeeps ==
  ASSUME TypeOK, RoomTotals, NEW w \in Worker, RenameCommit(w),
         req[w] \in RenameReq
  PROVE  IsTable(rows') /\ room' \in Delta /\ RoomTotals'
<1>1. rows' = [rows EXCEPT ![req[w].node].name = req[w].name] /\ room' = room
  BY DEF RenameCommit
<1>2. IsTable(rows) /\ room \in Delta /\ req[w].name \in Name
  BY DEF TypeOK, RenameReq
<1>3. IsTable(rows') /\ Alike(rows', rows)
  <2>1. ASSUME NEW n \in DOMAIN rows
        PROVE  /\ rows'[n] \in Row
               /\ rows'[n].type = rows[n].type
               /\ rows'[n].size = rows[n].size
               /\ rows'[n].deleted = rows[n].deleted
    <3>1. ASSUME NEW row \in Row, NEW name \in Name
          PROVE  LET x == [row EXCEPT !.name = name]
                 IN  /\ x \in Row /\ x.type = row.type /\ x.size = row.size
                     /\ x.deleted = row.deleted
      BY DEF Row
    <3>2. rows[n] \in Row
      BY <1>2 DEF IsTable
    <3> DEFINE v == [rows[n] EXCEPT !.name = req[w].name]
    <3>3. rows'[n] \in {rows[n], v}
      BY <1>1, <1>2 DEF IsTable
    <3>4. /\ v \in Row /\ v.type = rows[n].type /\ v.size = rows[n].size
          /\ v.deleted = rows[n].deleted
      BY <1>2, <3>1, <3>2
    <3> HIDE DEF v
    <3> QED
      BY <3>2, <3>3, <3>4
  <2>2. DOMAIN rows' = DOMAIN rows /\ rows' = [n \in DOMAIN rows |-> rows'[n]]
    BY <1>1, <1>2 DEF IsTable
  <2>3. QED
    BY <1>2, <2>1, <2>2 DEF IsTable, Alike
<1>4. Live(rows) \in SUBSET DOMAIN rows' /\ DOMAIN rows' = DOMAIN rows
  BY <1>3 DEF Alike, Live
<1>5. /\ Live(rows') = Live(rows)
      /\ Weight(rows', Live(rows)) = Weight(rows, Live(rows))
  BY <1>3, <1>4, AlikeWeight
<1>6. QED
  BY <1>1, <1>2, <1>3, <1>5 DEF RoomTotals

-----------------------------------------------------------------------------
(* The step a request is at says which operation it is. *)
LEMMA RequestKind ==
  ASSUME NEW r \in Request
  PROVE  /\ r.step = "creating" => r \in CreateReq
         /\ r.step = "renaming" => r \in RenameReq
         /\ r.step \in {"deleting", "stamping"} => r \in DeleteReq
         /\ r.step \in {"resolving", "moving", "relocating"} => r \in MoveReq
BY DEF Request, Idle, CreateReq, RenameReq, DeleteReq, MoveReq

(* A worker that takes up or drops a request leaves the tables alone. *)
LEMMA HoldKeeps ==
  ASSUME IInv, UNCHANGED <<rows, room>>,
         NEW w \in Worker, NEW r \in Request, Hold(w, r)
  PROVE  IInv'
<1>1. req' \in [Worker -> Request]
  BY DEF IInv, TypeOK, Hold
<1>2. QED
  BY <1>1 DEF IInv, TypeOK, RoomTotals, IsTable, Live, Weight, Cells, Files, Folders

(* A worker that answers is idle again. *)
LEMMA AnswerType ==
  ASSUME TypeOK, NEW w \in Worker, Answer(w)
  PROVE  req' \in [Worker -> Request]
BY DEF TypeOK, Answer, Hold, Request

(* What a resolved node carries has the type of what a worker holds. *)
LEMMA LiveRow ==
  ASSUME IsTable(rows), NEW n, n \in Live(rows)
  PROVE  /\ n \in Node /\ rows[n] \in Row
         /\ rows[n].path \in Seq(Node)
         /\ rows[n].parent \in Node \cup {Root}
         /\ Carried(rows[n]) \in Delta
<1>1. n \in Node /\ rows[n] \in Row
  BY DEF Live, IsTable
<1>2. /\ rows[n].path \in Seq(Node)
      /\ rows[n].parent \in Node \cup {Root}
      /\ rows[n].size \in Int
      /\ rows[n].totalSize \in Int
      /\ rows[n].fileCount \in Int
      /\ rows[n].folderCount \in Int
  BY <1>1, SizeAssumption DEF Row
<1>3. Carried(rows[n]) \in Delta
  BY <1>2 DEF Carried, Delta
<1>4. QED
  BY <1>1, <1>2, <1>3

(* Matched picks ids of rows. *)
LEMMA MatchedType ==
  ASSUME IsTable(rows), NEW p
  PROVE  Matched(rows, p) \in SUBSET Node
BY DEF IsTable, Matched, Live

(* No request of the tree breaks the inductive invariant. *)
LEMMA TreeStepKeeps ==
  ASSUME IInv, NEW w \in Worker, TreeStep(w)
  PROVE  IInv'
<1>1. /\ TypeOK /\ RoomTotals /\ IsTable(rows) /\ room \in Delta
      /\ req \in [Worker -> Request] /\ req[w] \in Request
  BY DEF IInv, TypeOK
<1>2. ASSUME NEW p \in Node \cup {Root}, NEW name \in Name,
             CreateResolve(w, p, name)
      PROVE  IInv'
  <2> DEFINE r == [step |-> "creating", parent |-> p,
                   path |-> LocationPath(rows, p), name |-> name]
  <2>1. r \in Request
    BY <1>1, <1>2, LocationPathType DEF CreateResolve, Request, CreateReq
  <2>2. QED
    BY <1>2, <2>1, HoldKeeps DEF CreateResolve
<1>3. CASE CreateCommit(w)
  <2>1. req[w] \in CreateReq
    BY <1>1, <1>3, RequestKind DEF CreateCommit
  <2>2. PICK n \in Node \ DOMAIN rows :
          InsertCharged(n, FolderRow(req[w], n), req[w].path, FolderDelta)
    BY <1>3 DEF CreateCommit
  <2> DEFINE row == FolderRow(req[w], n)
  <2>3. row \in Row /\ ~row.deleted
    <3>1. /\ req[w].parent \in Node \cup {Root} /\ req[w].name \in Name
          /\ req[w].path \in Seq(Node) /\ 0 \in 0..MaxFileSize
      BY <2>1, SizeAssumption DEF CreateReq
    <3>2. Append(req[w].path, n) \in Seq(Node)
      BY <3>1
    <3>3. QED
      BY <3>1, <3>2 DEF FolderRow, NewRow, Row
  <2>4. FolderDelta \in Delta /\ FolderDelta = RowDelta(row)
    BY DEF FolderDelta, Delta, RowDelta, FolderRow, NewRow
  <2>5. IsTable(rows') /\ room' \in Delta /\ RoomTotals'
    BY <1>1, <2>2, <2>3, <2>4, InsertChargedKeeps
  <2>6. req' \in [Worker -> Request]
    BY <1>1, <1>3, AnswerType DEF CreateCommit
  <2>7. QED
    BY <2>5, <2>6 DEF IInv, TypeOK
<1>4. ASSUME NEW n \in Node, NEW name \in Name, RenameResolve(w, n, name)
      PROVE  IInv'
  <2>1. [step |-> "renaming", node |-> n, name |-> name] \in Request
    BY DEF Request, RenameReq
  <2>2. QED
    BY <1>4, <2>1, HoldKeeps DEF RenameResolve
<1>5. CASE RenameCommit(w)
  <2>1. req[w] \in RenameReq
    BY <1>1, <1>5, RequestKind DEF RenameCommit
  <2>2. IsTable(rows') /\ room' \in Delta /\ RoomTotals'
    BY <1>1, <1>5, <2>1, RenameKeeps
  <2>3. req' \in [Worker -> Request]
    BY <1>1, <1>5, AnswerType DEF RenameCommit
  <2>4. QED
    BY <2>2, <2>3 DEF IInv, TypeOK
<1>6. ASSUME NEW n \in Node, DeleteResolve(w, n)
      PROVE  IInv'
  <2>1. [step |-> "deleting", node |-> n, path |-> rows[n].path,
         picked |-> {}] \in Request
    BY <1>1, <1>6, LiveRow DEF DeleteResolve, Request, DeleteReq
  <2>2. QED
    BY <1>6, <2>1, HoldKeeps DEF DeleteResolve
<1>7. CASE DeletePick(w)
  <2> DEFINE r == [req[w] EXCEPT !.step = "stamping",
                                 !.picked = Matched(rows, req[w].path)]
  <2>1. req[w] \in DeleteReq
    BY <1>1, <1>7, RequestKind DEF DeletePick
  <2>2. r \in Request
    BY <1>1, <2>1, MatchedType DEF Request, DeleteReq
  <2>3. QED
    BY <1>7, <2>2, HoldKeeps DEF DeletePick
<1>8. CASE DeleteCommit(w)
  <2>1. IsTable(rows') /\ room' \in Delta /\ RoomTotals'
    BY <1>1, <1>8, DeleteKeeps
  <2>2. req' \in [Worker -> Request]
    BY <1>1, <1>8, AnswerType DEF DeleteCommit
  <2>3. QED
    BY <2>1, <2>2 DEF IInv, TypeOK
<1>9. ASSUME NEW n \in Node, NEW dest \in Node \cup {Root},
             MoveResolve(w, n, dest)
      PROVE  IInv'
  <2> DEFINE r == [step |-> "resolving", node |-> n, path |-> rows[n].path,
                   parent |-> rows[n].parent, delta |-> Carried(rows[n]),
                   dest |-> dest, destPath |-> <<>>, picked |-> {}]
  <2>1. <<>> \in Seq(Node)
    OBVIOUS
  <2>2. r \in Request
    BY <1>1, <1>9, <2>1, LiveRow DEF MoveResolve, Request, MoveReq
  <2>3. QED
    BY <1>9, <2>2, HoldKeeps DEF MoveResolve
<1>10. CASE MoveResolveDest(w)
  <2> DEFINE r == [req[w] EXCEPT !.step = "moving",
                                 !.destPath = LocationPath(rows, req[w].dest)]
  <2>1. req[w] \in MoveReq
    BY <1>1, <1>10, RequestKind DEF MoveResolveDest
  <2>2. LocationPath(rows, req[w].dest) \in Seq(Node)
    BY <1>1, <1>10, LocationPathType DEF MoveResolveDest
  <2>3. r \in Request
    BY <2>1, <2>2 DEF Request, MoveReq
  <2>4. QED
    BY <1>10, <2>3, HoldKeeps DEF MoveResolveDest
<1>11. CASE MovePick(w)
  <2> DEFINE r == [req[w] EXCEPT !.step = "relocating",
                                 !.picked = Matched(rows, req[w].path)]
  <2>1. req[w] \in MoveReq
    BY <1>1, <1>11, RequestKind DEF MovePick
  <2>2. r \in Request
    BY <1>1, <2>1, MatchedType DEF Request, MoveReq
  <2>3. QED
    BY <1>11, <2>2, HoldKeeps DEF MovePick
<1>12. CASE MoveCommit(w)
  <2>1. req[w] \in MoveReq
    BY <1>1, <1>12, RequestKind DEF MoveCommit
  <2>2. IsTable(rows') /\ room' \in Delta /\ RoomTotals'
    BY <1>1, <1>12, <2>1, MoveKeeps
  <2>3. req' \in [Worker -> Request]
    BY <1>1, <1>12, AnswerType DEF MoveCommit
  <2>4. QED
    BY <2>2, <2>3 DEF IInv, TypeOK
<1>13. CASE Fail(w)
  <2>1. Idle \in Request
    BY DEF Request
  <2>2. QED
    BY <1>13, <2>1, HoldKeeps DEF Fail, Answer
<1>14. QED
  BY <1>2, <1>3, <1>4, <1>5, <1>6, <1>7, <1>8, <1>9, <1>10, <1>11, <1>12, <1>13
  DEF TreeStep, Create, Rename, Delete, Move

(* A step that touches none of the tree's variables keeps the invariant. *)
LEMMA StutterKeeps ==
  ASSUME IInv, UNCHANGED vars
  PROVE  IInv'
BY DEF IInv, TypeOK, RoomTotals, IsTable, vars, Live, Weight, Cells, Files, Folders

(* A room starts with counters that are right. *)
LEMMA InitKeeps ==
  ASSUME Init
  PROVE  IInv
<1>1. IsTable(rows)
  BY StartAssumption DEF Init
<1>2. Live(rows) \in SUBSET DOMAIN rows
  BY DEF Live
<1>3. Weight(rows, Live(rows)) \in [size : Nat, files : Nat, folders : Nat]
  BY <1>1, <1>2, WeightType
<1>4. room \in Delta
  BY <1>3 DEF Init, Delta
<1>5. req \in [Worker -> Request]
  BY DEF Init, Request
<1>6. QED
  BY <1>1, <1>4, <1>5 DEF IInv, TypeOK, RoomTotals, Init

(* Every request handler keeps the table, the counters and what it holds   *)
(* between statements within their types.                                  *)
THEOREM TypeCorrect == Spec => []TypeOK
<1>1. Init => IInv
  BY InitKeeps
<1>2. IInv /\ [Next]_vars => IInv'
  BY TreeStepKeeps, StutterKeeps DEF Next
<1>3. IInv => TypeOK
  BY DEF IInv
<1>4. QED
  BY <1>1, <1>2, <1>3, PTL DEF Spec

(* However creates, renames, deletes and moves interleave, the counters of *)
(* the Data Room count exactly its live rows (applyAggregateDelta).        *)
THEOREM RoomTotalsAlways == Spec => []RoomTotals
<1>1. Init => IInv
  BY InitKeeps
<1>2. IInv /\ [Next]_vars => IInv'
  BY TreeStepKeeps, StutterKeeps DEF Next
<1>3. IInv => RoomTotals
  BY DEF IInv
<1>4. QED
  BY <1>1, <1>2, <1>3, PTL DEF Spec

(* The deleted rows of t are rows of u, deleted and in the same place. *)
Entombed(t, u) ==
  \A n \in DOMAIN t \ Live(t) :
    n \in DOMAIN u /\ u[n].deleted /\ u[n].parent = t[n].parent /\ u[n].path = t[n].path

(* Charging counters leaves every other column alone. *)
LEMMA ChargeEntombs ==
  ASSUME NEW t, NEW u, IsTable(u), Entombed(t, u), NEW ids, NEW d
  PROVE  Entombed(t, Charge(u, ids, d))
<1> DEFINE c == Charge(u, ids, d)
<1>1. DOMAIN c = DOMAIN u
  BY DEF Charge
<1>2. ASSUME NEW n \in DOMAIN u
      PROVE  c[n].deleted = u[n].deleted /\ c[n].parent = u[n].parent
             /\ c[n].path = u[n].path
  <2>1. u[n] \in Row
    BY DEF IsTable
  <2>2. c[n] = IF n \in ids
               THEN [u[n] EXCEPT !.totalSize = @ + d.size, !.fileCount = @ + d.files,
                                 !.folderCount = @ + d.folders]
               ELSE u[n]
    BY DEF Charge
  <2>3. QED
    BY <2>1, <2>2 DEF Row
<1>3. QED
  BY <1>1, <1>2 DEF Entombed

(* An insert takes a fresh id. *)
LEMMA InsertEntombs ==
  ASSUME NEW t, NEW n, n \notin DOMAIN t, NEW row
  PROVE  Entombed(t, Insert(t, n, row))
BY DEF Entombed, Insert, Live

(* A stamp only ever deletes. *)
LEMMA StampEntombs ==
  ASSUME NEW t, IsTable(t), NEW S
  PROVE  Entombed(t, Stamp(t, S))
<1> SUFFICES ASSUME NEW n \in DOMAIN t \ Live(t)
             PROVE  /\ n \in DOMAIN Stamp(t, S)
                    /\ Stamp(t, S)[n].deleted
                    /\ Stamp(t, S)[n].parent = t[n].parent
                    /\ Stamp(t, S)[n].path = t[n].path
  BY DEF Entombed
<1>1. t[n] \in Row /\ t[n].deleted
  BY DEF IsTable, Live
<1>2. n \in DOMAIN Stamp(t, S)
  BY DEF Stamp
<1>3. Stamp(t, S)[n] = IF n \in S THEN [t[n] EXCEPT !.deleted = TRUE] ELSE t[n]
  BY DEF Stamp
<1>4. QED
  BY <1>1, <1>2, <1>3 DEF Row

(* The rewrite of a move reaches live rows only. *)
LEMMA RelocateEntombs ==
  ASSUME NEW t, NEW S, S \subseteq Live(t), NEW n, NEW dest, NEW newPath, NEW oldLen
  PROVE  Entombed(t, Relocate(t, S, n, dest, newPath, oldLen))
BY DEF Entombed, Relocate, Live

(* No request of the tree moves a deleted row, or revives one. *)
LEMMA TreeStepEntombs ==
  ASSUME IInv, NEW w \in Worker, TreeStep(w)
  PROVE  Entombed(rows, rows')
<1>1. IsTable(rows) /\ req[w] \in Request
  BY DEF IInv, TypeOK
<1>2. CASE UNCHANGED rows
  BY <1>2 DEF Entombed, Live
<1>3. CASE CreateCommit(w)
  <2>1. PICK n \in Node \ DOMAIN rows :
          InsertCharged(n, FolderRow(req[w], n), req[w].path, FolderDelta)
    BY <1>3 DEF CreateCommit
  <2>2. req[w] \in CreateReq
    BY <1>1, <1>3, RequestKind DEF CreateCommit
  <2>3. FolderRow(req[w], n) \in Row
    BY <2>1, <2>2, SizeAssumption DEF FolderRow, NewRow, Row, CreateReq
  <2>4. IsTable(Insert(rows, n, FolderRow(req[w], n)))
    BY <1>1, <2>1, <2>3, InsertTable
  <2>5. Entombed(rows, Insert(rows, n, FolderRow(req[w], n)))
    BY <2>1, InsertEntombs
  <2>6. QED
    BY <2>1, <2>4, <2>5, ChargeEntombs DEF InsertCharged
<1>4. CASE RenameCommit(w)
  BY <1>1, <1>4 DEF RenameCommit, Entombed, Live, IsTable, Row
<1>5. CASE DeleteCommit(w)
  <2> DEFINE r == req[w]
             stamped == StillMatched(r)
             delta == Negate(Weight(rows, stamped))
  <2>1. rows' = Charge(Stamp(rows, stamped), StrictAncestorIds(r.path), delta)
    BY <1>5 DEF DeleteCommit
  <2>2. stamped \subseteq DOMAIN rows
    BY DEF StillMatched, Matched, Live
  <2>3. IsTable(Stamp(rows, stamped))
    BY <1>1, <2>2, StampTable
  <2>4. Entombed(rows, Stamp(rows, stamped))
    BY <1>1, StampEntombs
  <2>5. QED
    BY <2>1, <2>3, <2>4, ChargeEntombs
<1>6. CASE MoveCommit(w)
  <2> DEFINE r == req[w]
             off == Negate(r.delta)
             moved == Relocate(rows, StillMatched(r), r.node, r.dest,
                               Append(r.destPath, r.node), Len(r.path))
             charged == Charge(moved, StrictAncestorIds(r.path), off)
  <2>1. rows' = Charge(charged, AncestorIds(r.destPath), r.delta)
    BY <1>6 DEF MoveCommit, Transfer
  <2>2. r \in MoveReq
    BY <1>1, <1>6, RequestKind DEF MoveCommit
  <2>3. /\ r.node \in Node /\ r.dest \in Node \cup {Root} /\ r.delta \in Delta
        /\ Append(r.destPath, r.node) \in Seq(Node) /\ Len(r.path) \in Nat
    BY <2>2 DEF MoveReq
  <2>4. IsTable(moved)
    BY <1>1, <2>3, RelocateTable
  <2>5. StillMatched(r) \subseteq Live(rows)
    BY DEF StillMatched, Matched
  <2>6. Entombed(rows, moved)
    BY <2>5, RelocateEntombs
  <2>7. off \in Delta
    BY <2>3 DEF Negate, Delta
  <2>8. IsTable(charged)
    BY <2>4, <2>7, ChargeTable
  <2>9. Entombed(rows, charged)
    BY <2>4, <2>6, ChargeEntombs
  <2>10. QED
    BY <2>1, <2>8, <2>9, ChargeEntombs
<1>7. QED
  BY <1>2, <1>3, <1>4, <1>5, <1>6
  DEF TreeStep, Create, Rename, Delete, Move, CreateResolve, RenameResolve,
      DeleteResolve, DeletePick, MoveResolve, MoveResolveDest, MovePick, Fail

(* However requests overlap, a deleted row stays deleted and in its place: *)
(* the UPDATE of a move skips it, and nothing clears deleted_at.           *)
THEOREM DeletedRowsStayAlways == Spec => DeletedRowsStay
<1>1. Init => IInv
  BY InitKeeps
<1>2. IInv /\ [Next]_vars => IInv'
  BY TreeStepKeeps, StutterKeeps DEF Next
<1>3. IInv /\ [Next]_vars =>
        [\A n \in DOMAIN rows \ Live(rows) :
           /\ rows'[n].deleted
           /\ rows'[n].parent = rows[n].parent
           /\ rows'[n].path = rows[n].path]_vars
  BY TreeStepEntombs DEF Next, Entombed
<1>4. QED
  BY <1>1, <1>2, <1>3, PTL DEF Spec, DeletedRowsStay

-----------------------------------------------------------------------------
(* What the tree's requests leave alone *)

(* u has the files of t, and of other rows only folders more. *)
SameFiles(t, u) ==
  /\ DOMAIN t \subseteq DOMAIN u
  /\ \A n \in DOMAIN u :
       IF n \in DOMAIN t
       THEN u[n].type = t[n].type /\ u[n].blob = t[n].blob /\ u[n].size = t[n].size
       ELSE u[n].type = "FOLDER" /\ u[n].blob = NoBlob

(* One statement after another. *)
LEMMA SameFilesTransitive ==
  ASSUME NEW t, NEW u, NEW v, SameFiles(t, u), SameFiles(u, v), DOMAIN v = DOMAIN u
  PROVE  SameFiles(t, v)
BY DEF SameFiles

(* Charging counters makes no file, and changes none. *)
LEMMA ChargeSameFiles ==
  ASSUME NEW t, IsTable(t), NEW ids, NEW d
  PROVE  SameFiles(t, Charge(t, ids, d)) /\ DOMAIN Charge(t, ids, d) = DOMAIN t
<1> DEFINE u == Charge(t, ids, d)
<1>1. DOMAIN u = DOMAIN t
  BY DEF Charge
<1>2. ASSUME NEW n \in DOMAIN t
      PROVE  u[n].type = t[n].type /\ u[n].blob = t[n].blob /\ u[n].size = t[n].size
  <2>1. t[n] \in Row
    BY DEF IsTable
  <2>2. u[n] = IF n \in ids
               THEN [t[n] EXCEPT !.totalSize = @ + d.size, !.fileCount = @ + d.files,
                                 !.folderCount = @ + d.folders]
               ELSE t[n]
    BY DEF Charge
  <2> QED
    BY <2>1, <2>2 DEF Row
<1> QED
  BY <1>1, <1>2 DEF SameFiles

(* Nor does a stamp. *)
LEMMA StampSameFiles ==
  ASSUME NEW t, IsTable(t), NEW S
  PROVE  SameFiles(t, Stamp(t, S))
<1> DEFINE u == Stamp(t, S)
<1>1. DOMAIN u = DOMAIN t
  BY DEF Stamp
<1>2. ASSUME NEW n \in DOMAIN t
      PROVE  u[n].type = t[n].type /\ u[n].blob = t[n].blob /\ u[n].size = t[n].size
  <2>1. t[n] \in Row
    BY DEF IsTable
  <2>2. u[n] = IF n \in S THEN [t[n] EXCEPT !.deleted = TRUE] ELSE t[n]
    BY DEF Stamp
  <2> QED
    BY <2>1, <2>2 DEF Row
<1> QED
  BY <1>1, <1>2 DEF SameFiles

(* Nor does the rewrite of a move. *)
LEMMA RelocateSameFiles ==
  ASSUME NEW t, IsTable(t), NEW S, NEW n, NEW dest, NEW newPath, NEW len
  PROVE  SameFiles(t, Relocate(t, S, n, dest, newPath, len))
<1> DEFINE u == Relocate(t, S, n, dest, newPath, len)
<1>1. DOMAIN u = DOMAIN t
  BY DEF Relocate
<1>2. ASSUME NEW m \in DOMAIN t
      PROVE  u[m].type = t[m].type /\ u[m].blob = t[m].blob /\ u[m].size = t[m].size
  <2>1. t[m] \in Row
    BY DEF IsTable
  <2>2. u[m] = IF m \in S
               THEN [t[m] EXCEPT !.path = newPath \o SubSeq(@, len + 1, Len(@)),
                                 !.parent = IF m = n THEN dest ELSE @]
               ELSE t[m]
    BY DEF Relocate
  <2> QED
    BY <2>1, <2>2 DEF Row
<1> QED
  BY <1>1, <1>2 DEF SameFiles

(* No request of the tree makes, changes or fills the room with a file. *)
LEMMA TreeStepSpares ==
  ASSUME IInv, NEW w \in Worker, TreeStep(w)
  PROVE  SameFiles(rows, rows') /\ room'.size <= room.size
<1>1. /\ TypeOK /\ RoomTotals /\ IsTable(rows) /\ room \in Delta
      /\ req[w] \in Request
  BY DEF IInv, TypeOK
<1>2. CASE UNCHANGED <<rows, room>>
  BY <1>1, <1>2 DEF SameFiles, Delta
<1>3. CASE CreateCommit(w)
  <2>1. PICK n \in Node \ DOMAIN rows :
          InsertCharged(n, FolderRow(req[w], n), req[w].path, FolderDelta)
    BY <1>3 DEF CreateCommit
  <2> DEFINE row == FolderRow(req[w], n)
             t == Insert(rows, n, row)
  <2>2. req[w] \in CreateReq
    BY <1>1, <1>3, RequestKind DEF CreateCommit
  <2>3. row \in Row /\ row.type = "FOLDER" /\ row.blob = NoBlob
    <3>1. /\ req[w].parent \in Node \cup {Root} /\ req[w].name \in Name
          /\ req[w].path \in Seq(Node) /\ 0 \in 0..MaxFileSize
      BY <2>2, SizeAssumption DEF CreateReq
    <3>2. Append(req[w].path, n) \in Seq(Node)
      BY <3>1
    <3> QED
      BY <3>1, <3>2 DEF FolderRow, NewRow, Row
  <2> HIDE DEF row
  <2>4. IsTable(t) /\ DOMAIN t = DOMAIN rows \cup {n}
    BY <1>1, <2>3, InsertTable
  <2>5. SameFiles(rows, t)
    BY <2>1, <2>3, <2>4 DEF SameFiles, Insert
  <2>6. rows' = Charge(t, AncestorIds(req[w].path), FolderDelta)
    BY <2>1 DEF InsertCharged, row
  <2>7. SameFiles(rows, rows')
    BY <2>4, <2>5, <2>6, ChargeSameFiles, SameFilesTransitive
  <2>8. room'.size = room.size
    BY <1>1, <2>1 DEF InsertCharged, ChargeRoom, FolderDelta, Delta
  <2> QED
    BY <1>1, <2>7, <2>8 DEF Delta
<1>4. CASE RenameCommit(w)
  <2>1. rows' = [rows EXCEPT ![req[w].node].name = req[w].name] /\ room' = room
    BY <1>4 DEF RenameCommit
  <2>2. DOMAIN rows' = DOMAIN rows
    BY <1>1, <2>1 DEF IsTable
  <2>3. ASSUME NEW n \in DOMAIN rows
        PROVE  /\ rows'[n].type = rows[n].type /\ rows'[n].blob = rows[n].blob
               /\ rows'[n].size = rows[n].size
    BY <1>1, <2>1 DEF IsTable, Row
  <2> QED
    BY <1>1, <2>1, <2>2, <2>3 DEF SameFiles, Delta
<1>5. CASE DeleteCommit(w)
  <2> DEFINE stamped == StillMatched(req[w])
             weight == Weight(rows, stamped)
             t == Stamp(rows, stamped)
  <2>1. /\ rows' = Charge(t, StrictAncestorIds(req[w].path), Negate(weight))
        /\ room' = ChargeRoom(room, Negate(weight))
    BY <1>5 DEF DeleteCommit
  <2>2. stamped \in SUBSET DOMAIN rows
    BY DEF StillMatched, Matched, Live
  <2>3. weight \in [size : Nat, files : Nat, folders : Nat]
    BY <1>1, <2>2, WeightType
  <2>4. IsTable(t) /\ SameFiles(rows, t)
    BY <1>1, <2>2, StampTable, StampSameFiles
  <2> HIDE DEF weight, t
  <2>5. SameFiles(rows, rows')
    BY <2>1, <2>4, ChargeSameFiles, SameFilesTransitive
  <2>6. room'.size <= room.size
    BY <1>1, <2>1, <2>3 DEF ChargeRoom, Negate, Delta
  <2> QED
    BY <2>5, <2>6
<1>6. CASE MoveCommit(w)
  <2>1. req[w] \in MoveReq
    BY <1>1, <1>6, RequestKind DEF MoveCommit
  <2> DEFINE r == req[w]
             t == Relocate(rows, StillMatched(r), r.node, r.dest,
                           Append(r.destPath, r.node), Len(r.path))
             off == Charge(t, StrictAncestorIds(r.path), Negate(r.delta))
  <2>2. rows' = Charge(off, AncestorIds(r.destPath), r.delta)
    BY <1>6 DEF MoveCommit, Transfer
  <2>3. /\ r.node \in Node /\ r.dest \in Node \cup {Root} /\ r.delta \in Delta
        /\ Append(r.destPath, r.node) \in Seq(Node) /\ Len(r.path) \in Nat
    BY <2>1 DEF MoveReq
  <2>4. IsTable(t) /\ SameFiles(rows, t)
    BY <1>1, <2>3, RelocateTable, RelocateSameFiles
  <2>5. Negate(r.delta) \in Delta
    BY <2>3 DEF Negate, Delta
  <2> HIDE DEF t
  <2>6. IsTable(off) /\ SameFiles(rows, off)
    BY <2>4, <2>5, ChargeTable, ChargeSameFiles, SameFilesTransitive
  <2> HIDE DEF off
  <2>7. SameFiles(rows, rows')
    BY <2>2, <2>6, ChargeSameFiles, SameFilesTransitive
  <2>8. room' = room
    BY <1>1, <1>6, <2>1, MoveKeeps
  <2> QED
    BY <1>1, <2>7, <2>8 DEF Delta
<1> QED
  BY <1>2, <1>3, <1>4, <1>5, <1>6
  DEF TreeStep, Create, Rename, Delete, Move, CreateResolve, RenameResolve, DeleteResolve,
      DeletePick, MoveResolve, MoveResolveDest, MovePick, Fail
=============================================================================
