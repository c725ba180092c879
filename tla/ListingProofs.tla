--------------------------- MODULE ListingProofs ---------------------------
(***************************************************************************)
(* Proofs about Listing: for every number of rows, every page size and     *)
(* every bound, the rows that nobody touched while the pages were read are *)
(* listed once and in order, and the reader's own answered change is       *)
(* shown.                                                                  *)
(*                                                                         *)
(* The inductive invariant says the same of the pages a fetch has so far   *)
(* as of the cached ones: each holds, of the rows untouched since the      *)
(* first was read, exactly those between the cursor it began at and the    *)
(* one it ended at.  What an answered change needs is that the pages which *)
(* will be shown next were begun after it.                                 *)
(***************************************************************************)
EXTENDS Listing, FiniteSetTheorems, SequenceTheorems, TLAPS

-----------------------------------------------------------------------------
(* The inductive invariant *)

Row == [at : {"absent", "here", "gone", "away"}, name : Name]
Cursor == ({0, 1} \X Name) \cup {Top}
Page == [rows : Seq(Node \X Name), next : Cursor]
Query == [status : {"pending", "ok", "404", "410", "failed"}, pages : Seq(Page), stale : BOOLEAN]
Fetch == [kind : {"none", "refetch", "more"}, left : Nat, got : Seq(Page), found : BOOLEAN,
          since : SUBSET Node]

ListingTypeOK ==
  /\ rows \in [Node -> Row] /\ query \in Query /\ fetch \in Fetch
  /\ own \in SUBSET Node /\ since \in SUBSET Node /\ mine \in SUBSET Node
  /\ overtaken \in BOOLEAN

(* Two rows of the folder never share a name. *)
NamesApart == \A m, n \in Here : rows[m].name = rows[n].name => m = n

(* The listing's key of row n of table t, and where it stands to a cursor. *)
RowKey(t, n) == <<IF n \in Folders THEN 0 ELSE 1, t[n].name>>
After(cursor, k) == cursor = Top \/ Before(cursor, k)
Reaches(cursor, k) == cursor = Top \/ ~Before(cursor, k)

Lists(page, n) == \E j \in DOMAIN page.rows : page.rows[j][1] = n

(* The page read from cursor start lists, of the rows outside S, those of  *)
(* table t from there to its own cursor, as they are and in order.         *)
PageRight(t, page, start, S) ==
  /\ \A n \in Node \ S :
       Lists(page, n) <=> /\ t[n].at = "here"
                          /\ After(start, RowKey(t, n)) /\ Reaches(page.next, RowKey(t, n))
  /\ \A j \in DOMAIN page.rows :
       page.rows[j][1] \notin S => page.rows[j][2] = t[page.rows[j][1]].name
  /\ \A j, k \in DOMAIN page.rows :
       j < k /\ page.rows[j][1] \notin S /\ page.rows[k][1] \notin S
         => Before(RowKey(t, page.rows[j][1]), RowKey(t, page.rows[k][1]))

Start(pages, i) == IF i = 1 THEN Top ELSE pages[i - 1].next

(* Each page begins where the one before it ended, and further on.         *)
PagesRight(t, pages, S) ==
  /\ \A i \in DOMAIN pages : PageRight(t, pages[i], Start(pages, i), S)
  /\ \A i, j \in DOMAIN pages :
       i < j => pages[i].next # Top
                /\ (pages[j].next = Top \/ Before(pages[i].next, pages[j].next))

(* The pages that will be shown next know what the reader was answered.    *)
AnswersKnown ==
  /\ fetch.kind = "refetch" => mine \cap fetch.since = {}
  /\ fetch.kind = "more" /\ ~overtaken => mine \cap fetch.since = {}
  /\ fetch.kind = "none" /\ query.status = "ok" /\ ~overtaken => mine \cap since = {}

ListingInv ==
  /\ ListingTypeOK /\ NamesApart /\ AnswersKnown
  /\ PagesRight(rows, query.pages, since)
  /\ PagesRight(rows, fetch.got, fetch.since)
  /\ query.status = "ok" => query.pages # <<>>
  /\ fetch.kind # "none" /\ fetch.got # <<>> => NextCursor(fetch.got) # Top
  /\ fetch.found => fetch.kind # "none"

-----------------------------------------------------------------------------
(* Finite sets in a strict order *)

(* R orders the members of S strictly, one after the other. *)
Orders(R, S) ==
  /\ \A x \in S : <<x, x>> \notin R
  /\ \A x, y \in S : x # y => <<x, y>> \in R \/ <<y, x>> \in R
  /\ \A x, y, z \in S : <<x, y>> \in R /\ <<y, z>> \in R => <<x, z>> \in R

UpTo(R, S, x) == {y \in S : <<x, y>> \notin R}
FirstBy(R, S, P) == {x \in S : Cardinality(UpTo(R, S, x)) <= P}

(* A finite set can be listed in order: an element's place is the number   *)
(* of those that do not come after it.                                     *)
LEMMA OrderExists ==
  ASSUME NEW S, IsFiniteSet(S), NEW R, Orders(R, S)
  PROVE  \E s \in [1..Cardinality(S) -> S] :
           \A i, j \in DOMAIN s : i < j => <<s[i], s[j]>> \in R
<1> DEFINE N == Cardinality(S)
           rank == [x \in S |-> Cardinality(UpTo(R, S, x))]
<1>1. N \in Nat
  BY FS_CardinalityType
<1>2. \A x \in S : IsFiniteSet(UpTo(R, S, x)) /\ rank[x] \in 1..N
  <2> TAKE x \in S
  <2>1. UpTo(R, S, x) \subseteq S /\ x \in UpTo(R, S, x)
    BY DEF UpTo, Orders
  <2>2. IsFiniteSet(UpTo(R, S, x)) /\ Cardinality(UpTo(R, S, x)) <= N
    BY <2>1, FS_Subset
  <2>3. Cardinality(UpTo(R, S, x)) \in Nat /\ Cardinality(UpTo(R, S, x)) # 0
    BY <2>1, <2>2, FS_CardinalityType, FS_EmptySet
  <2> QED
    BY <1>1, <2>2, <2>3
<1>3. ASSUME NEW x \in S, NEW y \in S, <<x, y>> \in R
      PROVE  rank[x] < rank[y]
  <2>1. UpTo(R, S, x) \subseteq UpTo(R, S, y) /\ y \in UpTo(R, S, y) /\ y \notin UpTo(R, S, x)
    BY <1>3 DEF UpTo, Orders
  <2>2. /\ Cardinality(UpTo(R, S, x)) <= Cardinality(UpTo(R, S, y))
        /\ Cardinality(UpTo(R, S, x)) # Cardinality(UpTo(R, S, y))
    BY <1>2, <2>1, FS_Subset
  <2> QED
    BY <1>1, <1>2, <2>2
<1> HIDE DEF N
<1>4. rank \in [S -> 1..N]
  <2>1. rank = [x \in S |-> rank[x]]
    OBVIOUS
  <2> HIDE DEF rank
  <2> QED
    BY <1>2, <2>1
<1> HIDE DEF rank
<1>5. \A x \in S : rank[x] \in Nat
  BY <1>1, <1>2
<1>6. ASSUME NEW x \in S, NEW y \in S, x # y
      PROVE  rank[x] # rank[y]
  <2>1. <<x, y>> \in R \/ <<y, x>> \in R
    BY <1>6 DEF Orders
  <2> QED
    BY <1>3, <1>5, <2>1
<1>7. rank \in Injection(S, 1..N)
  BY <1>4, <1>6 DEF Injection, IsInjective
<1>8. rank \in Surjection(S, 1..N)
  <2>1. IsFiniteSet(1..N) /\ Cardinality(1..N) = N
    BY <1>1, FS_Interval
  <2> QED
    BY <1>7, <2>1, FS_Injection DEF N
<1>9. \A k \in 1..N : \E x \in S : rank[x] = k
  BY <1>8 DEF Surjection
<1> DEFINE s == [k \in 1..N |-> CHOOSE x \in S : rank[x] = k]
<1>10. \A k \in 1..N : s[k] \in S /\ rank[s[k]] = k
  BY <1>9
<1>11. s \in [1..N -> S]
  BY <1>10
<1>12. DOMAIN s = 1..N
  OBVIOUS
<1> HIDE DEF s
<1>13. ASSUME NEW i \in 1..N, NEW j \in 1..N, i < j
       PROVE  <<s[i], s[j]>> \in R
  <2>1. s[i] \in S /\ s[j] \in S /\ rank[s[i]] = i /\ rank[s[j]] = j
    BY <1>10
  <2>2. i \in Nat /\ j \in Nat
    BY <1>1
  <2>3. s[i] # s[j] /\ <<s[j], s[i]>> \notin R
    BY <1>3, <1>13, <2>1, <2>2
  <2> QED
    BY <2>1, <2>3 DEF Orders
<1> QED
  BY <1>11, <1>12, <1>13 DEF N

(* A list in order holds every element. *)
LEMMA OrderHoldsAll ==
  ASSUME NEW S, IsFiniteSet(S), NEW R, Orders(R, S),
         NEW s \in [1..Cardinality(S) -> S],
         \A i, j \in DOMAIN s : i < j => <<s[i], s[j]>> \in R
  PROVE  \A x \in S : \E i \in 1..Cardinality(S) : s[i] = x
<1> DEFINE N == Cardinality(S)
<1>1. N \in Nat /\ IsFiniteSet(1..N) /\ Cardinality(1..N) = N
  BY FS_CardinalityType, FS_Interval
<1>2. \A i, j \in 1..N : s[i] = s[j] => i = j
  <2> TAKE i, j \in 1..N
  <2>1. i < j \/ j < i \/ i = j
    BY <1>1
  <2>2. DOMAIN s = 1..N /\ s[i] \in S /\ s[j] \in S
    OBVIOUS
  <2> QED
    BY <2>1, <2>2 DEF Orders
<1>3. s \in Injection(1..N, S)
  BY <1>2 DEF Injection, IsInjective
<1>4. s \in Surjection(1..N, S)
  <2> HIDE DEF N
  <2>1. Cardinality(S) = N
    BY DEF N
  <2> QED
    BY <1>1, <1>3, <2>1, FS_Injection
<1> QED
  BY <1>4 DEF Surjection

(* The first P of S: whatever comes before one of them is one of them, and *)
(* there is one unless S is empty.                                         *)
LEMMA FirstByFacts ==
  ASSUME NEW S, IsFiniteSet(S), NEW R, Orders(R, S), NEW P \in Nat \ {0}
  PROVE  /\ \A x \in FirstBy(R, S, P), y \in S : <<y, x>> \in R => y \in FirstBy(R, S, P)
         /\ S # {} => FirstBy(R, S, P) # {}
<1>1. \A x \in S : IsFiniteSet(UpTo(R, S, x)) /\ Cardinality(UpTo(R, S, x)) \in Nat
  BY FS_Subset, FS_CardinalityType DEF UpTo
<1>2. ASSUME NEW x \in FirstBy(R, S, P), NEW y \in S, <<y, x>> \in R
      PROVE  y \in FirstBy(R, S, P)
  <2>1. x \in S /\ Cardinality(UpTo(R, S, x)) <= P
    BY DEF FirstBy
  <2>2. UpTo(R, S, y) \subseteq UpTo(R, S, x)
    BY <1>2, <2>1 DEF UpTo, Orders
  <2>3. Cardinality(UpTo(R, S, y)) <= Cardinality(UpTo(R, S, x))
    BY <1>1, <2>1, <2>2, FS_Subset
  <2>4. Cardinality(UpTo(R, S, y)) <= P
    BY <1>1, <2>1, <2>3
  <2> QED
    BY <2>4 DEF FirstBy
<1>3. ASSUME S # {}
      PROVE  FirstBy(R, S, P) # {}
  <2>1. PICK s \in [1..Cardinality(S) -> S] :
               \A i, j \in DOMAIN s : i < j => <<s[i], s[j]>> \in R
    BY OrderExists
  <2>2. Cardinality(S) \in Nat /\ Cardinality(S) # 0
    BY <1>3, FS_CardinalityType, FS_EmptySet
  <2>3. 1 \in 1..Cardinality(S) /\ DOMAIN s = 1..Cardinality(S) /\ s[1] \in S
    BY <2>2
  <2>4. \A x \in S : \E i \in 1..Cardinality(S) : s[i] = x
    BY ZenonT(60), <2>1, OrderHoldsAll
  <2>5. UpTo(R, S, s[1]) = {s[1]}
    <3>1. ASSUME NEW y \in S, y # s[1]
          PROVE  <<s[1], y>> \in R
      <4>1. PICK i \in 1..Cardinality(S) : s[i] = y
        BY <2>4, <3>1
      <4>2. 1 < i
        BY <2>2, <3>1, <4>1
      <4> QED
        BY <2>1, <2>3, <4>1, <4>2
    <3> QED
      BY <2>3, <3>1 DEF UpTo, Orders
  <2>6. Cardinality(UpTo(R, S, s[1])) = 1
    BY <2>5, FS_Singleton
  <2> QED
    BY <2>3, <2>6 DEF FirstBy
<1> QED
  BY <1>2, <1>3

-----------------------------------------------------------------------------
(* The listing's order *)

Point(k) == k[1] \in Nat /\ k[2] \in Nat

(* Before is a strict order of keys, and decides between two names.        *)
LEMMA BeforeOrders ==
  ASSUME NEW k, NEW l, NEW m, Point(k), Point(l), Point(m)
  PROVE  /\ ~Before(k, k)
         /\ Before(k, l) /\ Before(l, m) => Before(k, m)
         /\ k[2] # l[2] => Before(k, l) \/ Before(l, k)
         /\ Before(k, l) => ~Before(l, k)
         /\ Before(k, l) /\ ~Before(k, m) => Before(m, l)
         /\ ~Before(k, l) /\ ~Before(l, m) => ~Before(k, m)
BY DEF Point, Before

(* The keys of a table, and the cursors, are points of that order.         *)
LEMMA Points ==
  /\ \A t : \A n \in Node : t[n].name \in Name => Point(RowKey(t, n)) /\ RowKey(t, n) \in Cursor
                                                  /\ RowKey(t, n) # Top
  /\ \A c \in Cursor : c # Top => Point(c)
<1>1. ASSUME NEW t, NEW n \in Node, t[n].name \in Name
      PROVE  Point(RowKey(t, n)) /\ RowKey(t, n) \in Cursor /\ RowKey(t, n) # Top
  <2>1. RowKey(t, n) \in {0, 1} \X Name /\ t[n].name \in Nat
    BY <1>1, ListingAssumption DEF RowKey
  <2>2. RowKey(t, n)[1] \in Nat /\ RowKey(t, n)[2] \in Nat
    BY <2>1 DEF RowKey
  <2>3. RowKey(t, n) \in {0, 1} \X Nat
    BY <2>1, ListingAssumption
  <2> QED
    BY <2>1, <2>2, <2>3, ListingAssumption DEF Point, Cursor
<1>2. ASSUME NEW c \in Cursor, c # Top
      PROVE  Point(c)
  <2>1. c \in {0, 1} \X Name
    BY <1>2 DEF Cursor
  <2>2. c[1] \in {0, 1} /\ c[2] \in Name
    BY <2>1
  <2>3. Name \subseteq Nat
    BY ListingAssumption
  <2>4. c[1] \in Nat
    BY <2>2
  <2>5. c[2] \in Nat
    BY <2>2, <2>3
  <2> QED
    BY <2>4, <2>5 DEF Point
<1> QED
  BY <1>1, <1>2

ByKey(t) == {p \in Node \X Node : Before(RowKey(t, p[1]), RowKey(t, p[2]))}

(* The rows of a folder are finitely many, and their keys order them.      *)
LEMMA KeysOrder ==
  ASSUME NEW t, \A n \in Node : t[n].name \in Name, NEW S \in SUBSET Node,
         \A m, n \in S : t[m].name = t[n].name => m = n
  PROVE  IsFiniteSet(S) /\ Orders(ByKey(t), S)
<1>1. IsFiniteSet(Node)
  BY ListingAssumption, FS_Union DEF Node
<1>2. IsFiniteSet(S)
  BY <1>1, FS_Subset
<1>3. \A m, n \in Node : <<m, n>> \in ByKey(t) <=> Before(RowKey(t, m), RowKey(t, n))
  BY DEF ByKey
<1>4. \A n \in S : Point(RowKey(t, n))
  BY Points
<1>5. \A m, n \in S : m # n => RowKey(t, m)[2] # RowKey(t, n)[2]
  BY DEF RowKey
<1>6. ASSUME NEW x \in S, NEW y \in S, NEW z \in S
      PROVE  /\ <<x, x>> \notin ByKey(t)
             /\ x # y => <<x, y>> \in ByKey(t) \/ <<y, x>> \in ByKey(t)
             /\ <<x, y>> \in ByKey(t) /\ <<y, z>> \in ByKey(t) => <<x, z>> \in ByKey(t)
  BY <1>3, <1>4, <1>5, BeforeOrders
<1> QED
  BY <1>2, <1>6 DEF Orders

-----------------------------------------------------------------------------
(* A page *)

(* The page read after a cursor is right about every row, goes further     *)
(* than the cursor, and is a page.                                         *)
LEMMA PageAfterRight ==
  ASSUME ListingTypeOK, NamesApart, NEW start \in Cursor
  PROVE  /\ PageAfter(start) \in Page
         /\ PageRight(rows, PageAfter(start), start, {})
         /\ PageAfter(start).next = Top \/ After(start, PageAfter(start).next)
<1> DEFINE B == Below(start)
           R == ByKey(rows)
           F == FirstBy(R, B, PageSize)
           N == Cardinality(F)
           s == InOrder(F)
           page == PageAfter(start)
<1>1. \A n \in Node : rows[n].name \in Name /\ Key(n) = RowKey(rows, n)
  BY DEF ListingTypeOK, Query, Row, Key, RowKey
<1>2. B \in SUBSET Node /\ \A n \in Node : n \in B <=> rows[n].at = "here" /\ After(start, RowKey(rows, n))
  BY <1>1 DEF Below, Here, After
<1>3. IsFiniteSet(B) /\ Orders(R, B)
  <2>1. B \subseteq Here
    BY DEF Below
  <2> HIDE DEF B
  <2> QED
    BY <1>1, <1>2, <2>1, KeysOrder DEF NamesApart
<1>4. \A m, n \in Node : <<m, n>> \in R <=> Before(Key(m), Key(n))
  BY <1>1 DEF ByKey
<1> HIDE DEF B, R
<1>5. FirstOf(B) = F
  <2>1. ASSUME NEW n \in B
        PROVE  {m \in B : ~Before(Key(n), Key(m))} = UpTo(R, B, n)
    BY <1>2, <1>4 DEF UpTo
  <2> QED
    BY <2>1 DEF FirstOf, FirstBy
<1>6. F \subseteq B /\ IsFiniteSet(F) /\ Orders(R, F) /\ N \in Nat
  <2>1. F \subseteq B
    BY DEF FirstBy
  <2> HIDE DEF F
  <2> QED
    BY <1>3, <2>1, FS_Subset, FS_CardinalityType DEF Orders
<1>7. /\ \A x \in F, y \in B : <<y, x>> \in R => y \in F
      /\ B # {} => F # {}
  BY <1>3, FirstByFacts, ListingAssumption
<1> HIDE DEF F
<1>8. /\ s \in [1..N -> F]
      /\ \A i, j \in DOMAIN s : i < j => Before(Key(s[i]), Key(s[j]))
  <2>1. PICK q \in [1..N -> F] : \A i, j \in DOMAIN q : i < j => <<q[i], q[j]>> \in R
    BY <1>6, OrderExists
  <2>2. \A i, j \in DOMAIN q : i < j => Before(Key(q[i]), Key(q[j]))
    BY <1>2, <1>4, <1>6, <2>1
  <2> HIDE DEF N
  <2>3. \E x \in [1..N -> F] : \A i, j \in DOMAIN x : i < j => Before(Key(x[i]), Key(x[j]))
    BY <2>1, <2>2
  <2> QED
    BY <2>3 DEF InOrder, N
<1> HIDE DEF s
<1>9. \A x \in F : \E i \in 1..N : s[i] = x
  <2>1. \A i, j \in DOMAIN s : i < j => <<s[i], s[j]>> \in R
    BY <1>2, <1>4, <1>6, <1>8
  <2> QED
    BY <1>6, <1>8, <2>1, OrderHoldsAll
<1>10. page = [rows |-> [i \in DOMAIN s |-> <<s[i], rows[s[i]].name>>],
               next |-> IF F # B THEN Key(s[N]) ELSE Top]
  BY <1>5 DEF PageAfter, s, N, B
<1> HIDE DEF page, N
<1>11. /\ DOMAIN page.rows = 1..N
       /\ \A i \in 1..N : page.rows[i] = <<s[i], rows[s[i]].name>> /\ s[i] \in F /\ s[i] \in Node
       /\ page.next = IF F # B THEN Key(s[N]) ELSE Top
  BY <1>2, <1>6, <1>8, <1>10
<1>12. F # B => N \in 1..N
  <2>1. F # B => F # {}
    BY <1>6, <1>7
  <2>2. F # {} => N # 0
    BY <1>6, FS_EmptySet DEF N
  <2> QED
    BY <1>6, <2>1, <2>2 DEF N
<1>13. page.next \in Cursor /\ (page.next = Top \/ After(start, page.next))
  <2>1. CASE F # B
    <3>1. s[N] \in B /\ s[N] \in Node
      BY <1>2, <1>6, <1>11, <1>12, <2>1
    <3>2. Key(s[N]) \in Cursor /\ After(start, Key(s[N]))
      BY <1>1, <1>2, <3>1, Points
    <3> QED
      BY <1>11, <2>1, <3>2
  <2>2. CASE F = B
    BY <1>11, <2>2 DEF Cursor
  <2> QED
    BY <2>1, <2>2
<1>14. page \in Page
  <2>1. page.rows \in Seq(Node \X Name)
    <3>1. ASSUME NEW i \in 1..N
          PROVE  page.rows[i] \in Node \X Name
      <4>1. page.rows[i] = <<s[i], rows[s[i]].name>> /\ s[i] \in Node
        BY <1>11
      <4>2. rows[s[i]].name \in Name
        BY <1>1, <4>1
      <4> QED
        BY <4>1, <4>2
    <3>2. page.rows = [i \in 1..N |-> page.rows[i]]
      BY <1>10, <1>8
    <3>3. page.rows \in [1..N -> Node \X Name]
      BY <3>1, <3>2
    <3> QED
      BY <1>6, <3>3 DEF N
  <2>2. page = [rows |-> page.rows, next |-> page.next]
    BY <1>10
  <2> QED
    BY <1>13, <2>1, <2>2 DEF Page
<1>15. \A n \in Node : Lists(page, n) <=> n \in F
  <2>1. \A n : Lists(page, n) <=> \E i \in 1..N : s[i] = n
    BY <1>11 DEF Lists
  <2> QED
    BY <1>9, <1>11, <2>1
<1>16. \A n \in B : n \in F <=> Reaches(page.next, RowKey(rows, n))
  <2>1. CASE F = B
    BY <1>11, <2>1 DEF Reaches
  <2>2. ASSUME F # B, NEW n \in B
        PROVE  n \in F <=> Reaches(page.next, RowKey(rows, n))
    <3> DEFINE last == s[N]
    <3>1. last \in F /\ last \in Node /\ n \in Node /\ last \in B
      BY <1>2, <1>6, <1>11, <1>12, <2>2
    <3> HIDE DEF last
    <3>2. page.next = RowKey(rows, last) /\ page.next # Top
      BY <1>1, <1>11, <2>2, <3>1, Points DEF last
    <3>3. n \in F => ~Before(Key(last), Key(n))
      <4> SUFFICES ASSUME n \in F
                   PROVE  ~Before(Key(last), Key(n))
        OBVIOUS
      <4>1. PICK i \in 1..N : s[i] = n
        BY <1>9
      <4>2. i < N \/ i = N
        BY <1>6 DEF N
      <4>3. Before(Key(n), Key(last)) \/ n = last
        BY <1>8, <1>12, <2>2, <4>1, <4>2 DEF last
      <4>4. Point(Key(n)) /\ Point(Key(last))
        BY <1>1, <3>1, Points
      <4> QED
        BY <4>3, <4>4, BeforeOrders
    <3>4. n \notin F => Before(Key(last), Key(n))
      BY <1>3, <1>4, <1>7, <3>1 DEF Orders
    <3> QED
      BY <1>1, <3>1, <3>2, <3>3, <3>4 DEF Reaches
  <2> QED
    BY <2>1, <2>2
<1>17. PageRight(rows, page, start, {})
  <2>1. \A n \in Node :
          Lists(page, n) <=> /\ rows[n].at = "here"
                             /\ After(start, RowKey(rows, n)) /\ Reaches(page.next, RowKey(rows, n))
    BY <1>2, <1>6, <1>15, <1>16
  <2>2. \A j \in DOMAIN page.rows : page.rows[j][2] = rows[page.rows[j][1]].name
    BY <1>11
  <2>3. \A j, k \in DOMAIN page.rows :
          j < k => Before(RowKey(rows, page.rows[j][1]), RowKey(rows, page.rows[k][1]))
    BY <1>1, <1>8, <1>11
  <2> QED
    BY <2>1, <2>2, <2>3 DEF PageRight
<1> QED
  BY <1>13, <1>14, <1>17 DEF page

-----------------------------------------------------------------------------
(* Pages one after the other *)

(* A page stays right about the rows that are not touched since.           *)
LEMMA PagesKept ==
  ASSUME NEW t, NEW u, NEW S, NEW T, S \subseteq T,
         \A n \in Node \ T : u[n] = t[n],
         NEW pages \in Seq(Page), PagesRight(t, pages, S)
  PROVE  PagesRight(u, pages, T)
<1>1. \A n \in Node \ T : RowKey(u, n) = RowKey(t, n) /\ u[n].at = t[n].at /\ u[n].name = t[n].name
  BY DEF RowKey
<1>2. ASSUME NEW i \in DOMAIN pages
      PROVE  PageRight(u, pages[i], Start(pages, i), T)
  <2> DEFINE page == pages[i]
             start == Start(pages, i)
  <2>1. PageRight(t, page, start, S)
    BY DEF PagesRight
  <2>2. \A j \in DOMAIN page.rows : page.rows[j][1] \in Node
    <3>1. page \in Page
      BY LenProperties, ElementOfSeq
    <3>2. page.rows \in Seq(Node \X Name)
      BY <3>1 DEF Page
    <3> HIDE DEF page
    <3>3. \A j \in DOMAIN page.rows : page.rows[j] \in Node \X Name
      BY <3>2, LenProperties, ElementOfSeq
    <3> QED
      BY <3>3
  <2> HIDE DEF page, start
  <2>3. \A n \in Node \ T :
          Lists(page, n) <=> /\ u[n].at = "here"
                             /\ After(start, RowKey(u, n)) /\ Reaches(page.next, RowKey(u, n))
    BY <1>1, <2>1 DEF PageRight
  <2>4. \A j \in DOMAIN page.rows :
          page.rows[j][1] \notin T => page.rows[j][2] = u[page.rows[j][1]].name
    BY <1>1, <2>1, <2>2 DEF PageRight
  <2>5. \A j, k \in DOMAIN page.rows :
          j < k /\ page.rows[j][1] \notin T /\ page.rows[k][1] \notin T
            => Before(RowKey(u, page.rows[j][1]), RowKey(u, page.rows[k][1]))
    BY <1>1, <2>1, <2>2 DEF PageRight
  <2> QED
    BY <2>3, <2>4, <2>5 DEF PageRight, page, start
<1> QED
  BY <1>2 DEF PagesRight

(* The pages' cursors are cursors. *)
LEMMA PageCursors ==
  ASSUME NEW pages \in Seq(Page)
  PROVE  /\ Len(pages) \in Nat /\ DOMAIN pages = 1..Len(pages)
         /\ \A i \in 1..Len(pages) : pages[i] \in Page /\ pages[i].next \in Cursor
         /\ pages # <<>> => Len(pages) \in 1..Len(pages) /\ NextCursor(pages) = pages[Len(pages)].next
         /\ NextCursor(pages) \in Cursor
<1>1. Len(pages) \in Nat /\ DOMAIN pages = 1..Len(pages)
  BY LenProperties
<1>2. \A i \in 1..Len(pages) : pages[i] \in Page /\ pages[i].next \in Cursor
  <2>1. \A i \in 1..Len(pages) : pages[i] \in Page
    BY ElementOfSeq
  <2> QED
    BY <2>1 DEF Page
<1>3. pages # <<>> => Len(pages) \in 1..Len(pages)
  BY <1>1, EmptySeq
<1>4. pages # <<>> => NextCursor(pages) = pages[Len(pages)].next
  BY DEF NextCursor, Last
<1>5. pages = <<>> => NextCursor(pages) = Top
  BY DEF NextCursor
<1> QED
  BY <1>1, <1>2, <1>3, <1>4, <1>5 DEF Cursor

(* One more page, begun where the last one ended. *)
LEMMA OnePageMore ==
  ASSUME NEW t, NEW S, NEW pages \in Seq(Page), PagesRight(t, pages, S),
         pages # <<>> => NextCursor(pages) # Top,
         NEW page \in Page, PageRight(t, page, NextCursor(pages), S),
         page.next = Top \/ After(NextCursor(pages), page.next)
  PROVE  /\ Append(pages, page) \in Seq(Page) /\ Append(pages, page) # <<>>
         /\ PagesRight(t, Append(pages, page), S)
<1> DEFINE N == Len(pages)
           all == Append(pages, page)
<1>1. /\ all \in Seq(Page) /\ DOMAIN all = 1..(N + 1) /\ all # <<>> /\ N \in Nat
      /\ \A i \in 1..N : all[i] = pages[i]
      /\ all[N + 1] = page
  <2>1. all \in Seq(Page) /\ Len(all) = N + 1 /\ all # <<>>
    BY AppendProperties
  <2>2. DOMAIN all = 1..(N + 1)
    BY <2>1, LenProperties
  <2>3. N \in Nat
    BY LenProperties
  <2>4. (\A i \in 1..N : all[i] = pages[i]) /\ all[N + 1] = page
    BY AppendProperties
  <2> QED
    BY <2>1, <2>2, <2>3, <2>4
<1>2. /\ \A i \in 1..N : pages[i].next \in Cursor
      /\ N # 0 => N \in 1..N /\ pages # <<>> /\ NextCursor(pages) = pages[N].next
      /\ N = 0 => NextCursor(pages) = Top
      /\ DOMAIN pages = 1..N
  <2>1. N # 0 => pages # <<>>
    BY EmptySeq
  <2>2. N = 0 => pages = <<>>
    BY EmptySeq
  <2> QED
    BY <2>1, <2>2, PageCursors DEF NextCursor
<1> HIDE DEF all, N
<1>3. ASSUME NEW i \in 1..(N + 1)
      PROVE  PageRight(t, all[i], Start(all, i), S)
  <2>1. CASE i \in 1..N
    <3>1. Start(all, i) = Start(pages, i)
      <4>1. i # 1 => i - 1 \in 1..N
        BY <1>1, <2>1
      <4> QED
        BY <1>1, <4>1 DEF Start
    <3> QED
      BY <1>1, <1>2, <2>1, <3>1 DEF PagesRight
  <2>2. CASE i = N + 1
    <3>1. Start(all, i) = NextCursor(pages)
      <4>1. i # 1 => i - 1 = N /\ N # 0
        BY <1>1, <2>2
      <4>2. i = 1 => N = 0
        BY <1>1, <2>2
      <4> QED
        BY <1>1, <1>2, <4>1, <4>2 DEF Start
    <3> QED
      BY <1>1, <2>2, <3>1
  <2> QED
    BY <1>1, <2>1, <2>2
<1>4. ASSUME NEW i \in 1..(N + 1), NEW j \in 1..(N + 1), i < j
      PROVE  all[i].next # Top /\ (all[j].next = Top \/ Before(all[i].next, all[j].next))
  <2>1. i \in 1..N
    BY <1>1, <1>4
  <2>2. CASE j \in 1..N
    BY <1>1, <1>2, <1>4, <2>1, <2>2 DEF PagesRight
  <2>3. CASE j = N + 1
    <3>1. N \in 1..N /\ NextCursor(pages) = pages[N].next /\ NextCursor(pages) # Top
      BY <1>1, <1>2, <2>1
    <3>2. pages[i].next # Top /\ (i = N \/ Before(pages[i].next, pages[N].next))
      <4>1. i = N \/ i < N
        BY <1>1, <2>1
      <4> QED
        BY <1>2, <2>1, <3>1, <4>1 DEF PagesRight
    <3>3. page.next = Top \/ Before(pages[N].next, page.next)
      BY <3>1 DEF After
    <3>4. page.next = Top \/ Before(pages[i].next, page.next)
      <4>1. page.next \in Cursor
        BY DEF Page
      <4>2. page.next # Top => Point(page.next)
        BY <4>1, Points
      <4>3. Point(pages[i].next) /\ Point(pages[N].next)
        BY <1>2, <2>1, <3>1, <3>2, Points
      <4> QED
        BY <3>2, <3>3, <4>2, <4>3, BeforeOrders
    <3> QED
      BY <1>1, <2>1, <2>3, <3>2, <3>4
  <2> QED
    BY <1>1, <2>2, <2>3
<1>5. PagesRight(t, all, S)
  BY <1>1, <1>3, <1>4 DEF PagesRight
<1> QED
  BY <1>1, <1>5 DEF all

-----------------------------------------------------------------------------
(* What right pages say of the listing *)

(* Every nonempty set of natural numbers has a least one. *)
LEMMA LeastNumber ==
  ASSUME NEW T \in SUBSET Nat, T # {}
  PROVE  \E m \in T : \A k \in T : m <= k
<1> DEFINE F == {0..k : k \in T}
<1>1. \A k \in T : 0..k \in SUBSET Nat /\ IsFiniteSet(0..k)
  BY FS_Interval
<1>2. F \subseteq FiniteSubsetsOf(Nat) /\ F # {}
  BY <1>1 DEF FiniteSubsetsOf
<1>3. PICK x \in F : \A y \in F : ~(<<y, x>> \in StrictSubsetOrdering(Nat))
  <2> HIDE DEF F
  <2> QED
    BY <1>2, FS_StrictSubsetOrderingWellFounded, WFMin
<1>4. PICK m \in T : x = 0..m
  OBVIOUS
<1>5. ASSUME NEW k \in T, ~(m <= k)
      PROVE  FALSE
  <2>1. 0..k \subseteq 0..m /\ m \in 0..m /\ m \notin 0..k
    BY <1>5
  <2>2. <<0..k, 0..m>> \in StrictSubsetOrdering(Nat)
    BY <2>1, <1>1 DEF StrictSubsetOrdering
  <2> QED
    BY <1>3, <1>4, <2>2
<1> QED
  BY <1>5

(* A place of the listing is a page and a place on it, and holds a row.    *)
LEMMA Places ==
  ASSUME ListingTypeOK, NEW p \in Listed
  PROVE  /\ p[1] \in 1..Len(query.pages) /\ p[1] \in Nat
         /\ p[2] \in DOMAIN query.pages[p[1]].rows /\ p[2] \in Nat
         /\ At(p) = query.pages[p[1]].rows[p[2]] /\ At(p)[1] \in Node
<1>1. query.pages \in Seq(Page)
  BY DEF ListingTypeOK, Query
<1>2. PICK i \in DOMAIN query.pages : p \in {i} \X DOMAIN query.pages[i].rows
  BY DEF Listed
<1>3. p[1] = i /\ p[2] \in DOMAIN query.pages[i].rows
  BY <1>2
<1>4. i \in 1..Len(query.pages) /\ i \in Nat /\ query.pages[i].rows \in Seq(Node \X Name)
  <2>1. i \in 1..Len(query.pages) /\ Len(query.pages) \in Nat /\ query.pages[i] \in Page
    BY <1>1, PageCursors
  <2> QED
    BY <2>1 DEF Page
<1> DEFINE r == query.pages[i].rows
<1>5. r \in Seq(Node \X Name) /\ p[2] \in DOMAIN r
  BY <1>3, <1>4
<1> HIDE DEF r
<1>6. p[2] \in Nat /\ r[p[2]] \in Node \X Name
  <2>1. DOMAIN r = 1..Len(r) /\ Len(r) \in Nat
    BY <1>5, LenProperties
  <2> QED
    BY <1>5, <2>1, ElementOfSeq
<1>7. At(p) = r[p[2]]
  BY <1>3 DEF At, r
<1>8. At(p)[1] \in Node
  BY <1>6, <1>7
<1> QED
  BY <1>3, <1>4, <1>6, <1>7, <1>8 DEF At

(* Two places are one when their coordinates are, and what is at a place   *)
(* is a row and a name.                                                    *)
LEMMA PairsAtPlaces ==
  ASSUME ListingTypeOK
  PROVE  /\ \A p, q \in Listed : p[1] = q[1] /\ p[2] = q[2] => p = q
         /\ \A p \in Listed : \A n, x : At(p)[1] = n /\ At(p)[2] = x => At(p) = <<n, x>>
<1>1. ASSUME NEW p \in Listed, NEW q \in Listed, p[1] = q[1], p[2] = q[2]
      PROVE  p = q
  <2>1. PICK i \in DOMAIN query.pages : p \in {i} \X DOMAIN query.pages[i].rows
    BY DEF Listed
  <2>2. PICK j \in DOMAIN query.pages : q \in {j} \X DOMAIN query.pages[j].rows
    BY DEF Listed
  <2>3. p = <<p[1], p[2]>> /\ q = <<q[1], q[2]>>
    BY <2>1, <2>2
  <2> QED
    BY <1>1, <2>3
<1>2. ASSUME NEW p \in Listed
      PROVE  At(p) \in Node \X Name
  <2>1. /\ query.pages \in Seq(Page) /\ p[1] \in 1..Len(query.pages)
        /\ p[2] \in DOMAIN query.pages[p[1]].rows
    BY Places DEF ListingTypeOK, Query
  <2> DEFINE r == query.pages[p[1]].rows
  <2>2. r \in Seq(Node \X Name)
    <3>1. query.pages[p[1]] \in Page
      BY <2>1, PageCursors
    <3> QED
      BY <3>1 DEF Page
  <2>3. At(p) = r[p[2]] /\ p[2] \in DOMAIN r
    BY <2>1 DEF At
  <2> HIDE DEF r
  <2> QED
    BY <2>2, <2>3, LenProperties, ElementOfSeq
<1> QED
  BY <1>1, <1>2

(* What a page that lists an untouched row says of its place between the   *)
(* cursors before and after.                                               *)
LEMMA ListedOnPage ==
  ASSUME ListingTypeOK, PagesRight(rows, query.pages, since),
         NEW i \in 1..Len(query.pages), NEW n \in Node \ since, Lists(query.pages[i], n)
  PROVE  /\ n \in Here /\ Reaches(query.pages[i].next, Key(n))
         /\ After(Start(query.pages, i), Key(n))
<1>1. PageRight(rows, query.pages[i], Start(query.pages, i), since)
  BY PageCursors DEF PagesRight, ListingTypeOK, Query
<1>2. Key(n) = RowKey(rows, n)
  BY DEF Key, RowKey
<1> QED
  BY <1>1, <1>2 DEF PageRight, Here

(* Untouched rows stand in order.                                          *)
LEMMA InOrderListed ==
  ASSUME ListingTypeOK, PagesRight(rows, query.pages, since),
         NEW p \in Listed, NEW q \in Listed, Above(p, q),
         At(p)[1] \notin since, At(q)[1] \notin since
  PROVE  Before(Key(At(p)[1]), Key(At(q)[1]))
<1> DEFINE pages == query.pages
           m == At(p)[1]
           n == At(q)[1]
<1>1. pages \in Seq(Page) /\ \A x \in Node : rows[x].name \in Name /\ Key(x) = RowKey(rows, x)
  BY DEF ListingTypeOK, Query, Row, Key, RowKey
<1>2. m \in Node \ since /\ n \in Node \ since
  BY Places
<1>3. /\ p[1] \in 1..Len(pages) /\ q[1] \in 1..Len(pages) /\ p[1] \in Nat /\ q[1] \in Nat
      /\ p[2] \in DOMAIN pages[p[1]].rows /\ pages[p[1]].rows[p[2]][1] = m
      /\ q[2] \in DOMAIN pages[q[1]].rows /\ pages[q[1]].rows[q[2]][1] = n
  <2>1. /\ p[1] \in 1..Len(pages) /\ p[1] \in Nat
        /\ p[2] \in DOMAIN pages[p[1]].rows /\ pages[p[1]].rows[p[2]][1] = m
    BY Places
  <2>2. /\ q[1] \in 1..Len(pages) /\ q[1] \in Nat
        /\ q[2] \in DOMAIN pages[q[1]].rows /\ pages[q[1]].rows[q[2]][1] = n
    BY Places
  <2> QED
    BY <2>1, <2>2
<1>4. Lists(pages[p[1]], m) /\ Lists(pages[q[1]], n)
  <2> HIDE DEF m, n, pages
  <2>1. Lists(pages[p[1]], m)
    BY <1>3 DEF Lists
  <2>2. Lists(pages[q[1]], n)
    BY <1>3 DEF Lists
  <2> QED
    BY <2>1, <2>2
<1> DEFINE i == p[1]
           j == q[1]
<1>5. CASE i = j
  <2>1. PageRight(rows, pages[i], Start(pages, i), since) /\ p[2] < q[2]
    BY <1>1, <1>3, <1>5, PageCursors DEF PagesRight, Above
  <2> HIDE DEF m, n, pages
  <2>2. Before(RowKey(rows, m), RowKey(rows, n))
    BY <1>2, <1>3, <1>5, <2>1 DEF PageRight
  <2> QED
    BY <1>1, <1>2, <2>2 DEF m, n
<1>6. CASE i < j
  <2>1. /\ n \in Here /\ After(Start(pages, j), Key(n)) /\ Reaches(pages[i].next, Key(m))
    BY <1>2, <1>3, <1>4, ListedOnPage
  <2>2. j - 1 \in 1..Len(pages) /\ j # 1 /\ j - 1 < j /\ (i = j - 1 \/ i < j - 1)
    BY <1>1, <1>3, <1>6, PageCursors
  <2>3. /\ pages[i].next # Top /\ pages[j - 1].next # Top
        /\ i = j - 1 \/ Before(pages[i].next, pages[j - 1].next)
    BY <1>1, <1>3, <1>6, <2>2, PageCursors DEF PagesRight
  <2>4. Before(pages[j - 1].next, Key(n)) /\ ~Before(pages[i].next, Key(m))
    BY <2>1, <2>2, <2>3 DEF Start, After, Reaches
  <2>5. Point(pages[i].next) /\ Point(pages[j - 1].next) /\ Point(Key(m)) /\ Point(Key(n))
    BY <1>1, <1>2, <1>3, <2>2, <2>3, Points, PageCursors
  <2>6. Before(pages[i].next, Key(n))
    BY <2>3, <2>4, <2>5, BeforeOrders
  <2> QED
    BY <2>4, <2>5, <2>6, BeforeOrders
<1> QED
  BY <1>3, <1>5, <1>6 DEF Above

(* The listing reaches what one of its pages reaches, and no further.      *)
LEMMA ReachesAsFar ==
  ASSUME ListingTypeOK, PagesRight(rows, query.pages, since), query.pages # <<>>,
         NEW n \in Node
  PROVE  /\ \A i \in 1..Len(query.pages) : Reaches(query.pages[i].next, Key(n)) => Covers(n)
         /\ Covers(n) => \E i \in 1..Len(query.pages) :
                           Reaches(query.pages[i].next, Key(n)) /\ After(Start(query.pages, i), Key(n))
<1> DEFINE pages == query.pages
           N == Len(pages)
<1>1. pages \in Seq(Page) /\ Point(Key(n))
  <2>1. rows[n].name \in Name /\ Key(n) = RowKey(rows, n)
    BY DEF ListingTypeOK, Query, Row, Key, RowKey
  <2> QED
    BY <2>1, Points DEF ListingTypeOK, Query
<1>2. /\ N \in Nat /\ DOMAIN pages = 1..N /\ N \in 1..N /\ NextCursor(pages) = pages[N].next
      /\ \A i \in 1..N : pages[i].next \in Cursor
  BY <1>1, PageCursors
<1>3. Covers(n) <=> Reaches(pages[N].next, Key(n))
  BY <1>2 DEF Covers, Reaches
<1> HIDE DEF N
<1>4. ASSUME NEW i \in 1..N, Reaches(pages[i].next, Key(n))
      PROVE  Reaches(pages[N].next, Key(n))
  <2>1. CASE i < N
    <3>1. pages[i].next # Top /\ (pages[N].next = Top \/ Before(pages[i].next, pages[N].next))
      BY <1>2, <2>1 DEF PagesRight
    <3>2. Point(pages[i].next) /\ (pages[N].next # Top => Point(pages[N].next))
      BY <1>2, <3>1, Points
    <3> QED
      BY <1>1, <1>4, <3>1, <3>2, BeforeOrders DEF Reaches
  <2>2. CASE i = N
    BY <1>4, <2>2
  <2> QED
    BY <1>2, <2>1, <2>2
<1>5. ASSUME Reaches(pages[N].next, Key(n))
      PROVE  \E i \in 1..N : Reaches(pages[i].next, Key(n)) /\ After(Start(pages, i), Key(n))
  <2> DEFINE T == {i \in 1..N : Reaches(pages[i].next, Key(n))}
  <2>1. T \in SUBSET Nat /\ T # {}
    BY <1>2, <1>5
  <2>2. PICK i \in T : \A k \in T : i <= k
    <3> HIDE DEF T
    <3> QED
      BY <2>1, LeastNumber
  <2>3. i = 1 \/ (i - 1 \in 1..N /\ i - 1 \notin T)
    BY <1>2, <2>2
  <2>4. After(Start(pages, i), Key(n))
    BY <2>3 DEF Start, After, Reaches
  <2> QED
    BY <2>2, <2>4
<1> QED
  BY <1>3, <1>4, <1>5 DEF N

(* An untouched row is listed exactly when it is there and the listing     *)
(* reaches it, in one place, and under its name.                           *)
LEMMA UntouchedListed ==
  ASSUME ListingTypeOK, PagesRight(rows, query.pages, since), query.pages # <<>>,
         NEW n \in Node \ since
  PROVE  /\ Mentioned(n) <=> n \in Here /\ Covers(n)
         /\ \A p \in Listed : At(p)[1] = n => At(p) = <<n, rows[n].name>>
         /\ \A p, q \in Listed : At(p)[1] = n /\ At(q)[1] = n => p = q
<1> DEFINE pages == query.pages
<1>1. pages \in Seq(Page) /\ DOMAIN pages = 1..Len(pages)
  BY PageCursors DEF ListingTypeOK, Query
<1>2. Mentioned(n) <=> \E i \in 1..Len(pages) : Lists(pages[i], n)
  <2>1. ASSUME NEW p \in Listed, At(p)[1] = n
        PROVE  \E i \in 1..Len(pages) : Lists(pages[i], n)
    BY <2>1, Places DEF Lists
  <2>2. ASSUME NEW i \in 1..Len(pages), Lists(pages[i], n)
        PROVE  Mentioned(n)
    <3>1. PICK j \in DOMAIN pages[i].rows : pages[i].rows[j][1] = n
      BY <2>2 DEF Lists
    <3>2. <<i, j>> \in Listed
      BY <1>1 DEF Listed
    <3>3. At(<<i, j>>)[1] = n
      BY <3>1 DEF At
    <3> QED
      BY <3>2, <3>3 DEF Mentioned
  <2> QED
    BY <2>1, <2>2 DEF Mentioned
<1>3. Mentioned(n) <=> n \in Here /\ Covers(n)
  <2>1. ASSUME NEW i \in 1..Len(pages), Lists(pages[i], n)
        PROVE  n \in Here /\ Covers(n)
    BY <2>1, ListedOnPage, ReachesAsFar
  <2>2. ASSUME n \in Here, Covers(n)
        PROVE  \E i \in 1..Len(pages) : Lists(pages[i], n)
    <3>1. PICK i \in 1..Len(pages) :
                 Reaches(pages[i].next, Key(n)) /\ After(Start(pages, i), Key(n))
      BY <2>2, ReachesAsFar
    <3>2. PageRight(rows, pages[i], Start(pages, i), since)
      BY <1>1 DEF PagesRight
    <3>3. Lists(pages[i], n)
      <4>1. Key(n) = RowKey(rows, n) /\ rows[n].at = "here"
        BY <2>2 DEF Key, RowKey, Here
      <4> QED
        BY <3>1, <3>2, <4>1 DEF PageRight
    <3> QED
      BY <3>3
  <2> QED
    BY <1>2, <2>1, <2>2
<1>4. ASSUME NEW p \in Listed, At(p)[1] = n
      PROVE  At(p) = <<n, rows[n].name>>
  <2>1. /\ p[1] \in 1..Len(pages) /\ p[2] \in DOMAIN pages[p[1]].rows
        /\ At(p) = pages[p[1]].rows[p[2]]
    BY Places
  <2>2. PageRight(rows, pages[p[1]], Start(pages, p[1]), since)
    BY <1>1, <2>1 DEF PagesRight
  <2>3. At(p)[2] = rows[n].name
    BY <1>4, <2>1, <2>2 DEF PageRight
  <2> QED
    BY <1>4, <2>3, PairsAtPlaces
<1>5. ASSUME NEW p \in Listed, NEW q \in Listed, At(p)[1] = n, At(q)[1] = n
      PROVE  p = q
  <2>1. ~Before(Key(n), Key(n))
    <3>1. rows[n].name \in Name /\ Key(n) = RowKey(rows, n)
      BY DEF ListingTypeOK, Query, Row, Key, RowKey
    <3> QED
      BY <3>1, Points, BeforeOrders
  <2>2. ~Above(p, q) /\ ~Above(q, p)
    BY <1>5, <2>1, InOrderListed
  <2>3. p[1] \in Nat /\ p[2] \in Nat /\ q[1] \in Nat /\ q[2] \in Nat
    BY Places
  <2>4. p[1] = q[1] /\ p[2] = q[2]
    BY <2>2, <2>3 DEF Above
  <2> QED
    BY <2>4, PairsAtPlaces
<1> QED
  BY <1>3, <1>4, <1>5

(* The two properties, from the invariant.                                 *)
LEMMA InvGivesSteady == ListingInv => SteadyRowsListedOnce
<1> SUFFICES ASSUME ListingInv, query.status = "ok"
             PROVE  /\ \A n \in Node \ since :
                         Cardinality({p \in Listed : At(p)[1] = n})
                           = IF n \in Here /\ Covers(n) THEN 1 ELSE 0
                    /\ \A p, q \in Listed :
                         Above(p, q) /\ {At(p)[1], At(q)[1]} \cap since = {}
                           => Before(Key(At(p)[1]), Key(At(q)[1]))
  BY DEF SteadyRowsListedOnce
<1>1. ListingTypeOK /\ PagesRight(rows, query.pages, since) /\ query.pages # <<>>
  BY DEF ListingInv
<1>2. ASSUME NEW n \in Node \ since
      PROVE  Cardinality({p \in Listed : At(p)[1] = n}) = IF n \in Here /\ Covers(n) THEN 1 ELSE 0
  <2> DEFINE places == {p \in Listed : At(p)[1] = n}
  <2>1. places # {} <=> n \in Here /\ Covers(n)
    BY <1>1, UntouchedListed DEF Mentioned
  <2>2. \A p, q \in places : p = q
    BY <1>1, UntouchedListed
  <2> HIDE DEF places
  <2>3. CASE places = {}
    BY <2>1, <2>3, FS_EmptySet DEF places
  <2>4. CASE places # {}
    <3>1. PICK p \in places : TRUE
      BY <2>4
    <3>2. places = {p}
      BY <2>2, <3>1
    <3> QED
      BY <2>1, <2>4, <3>2, FS_Singleton DEF places
  <2> QED
    BY <2>3, <2>4
<1>3. ASSUME NEW p \in Listed, NEW q \in Listed,
             Above(p, q), {At(p)[1], At(q)[1]} \cap since = {}
      PROVE  Before(Key(At(p)[1]), Key(At(q)[1]))
  BY <1>1, <1>3, InOrderListed
<1> QED
  BY <1>2, <1>3

(* What the reader was answered is untouched since the pages were begun.   *)
LEMMA InvGivesOwn == ListingInv => OwnChangeShown
<1> SUFFICES ASSUME ListingInv, query.status = "ok", fetch.kind = "none", ~overtaken,
                    NEW n \in mine
             PROVE  IF n \in Here /\ Covers(n) THEN Shown(n) ELSE ~Mentioned(n)
  BY DEF OwnChangeShown
<1>1. ListingTypeOK /\ PagesRight(rows, query.pages, since) /\ query.pages # <<>>
  BY DEF ListingInv
<1>2. n \in Node \ since
  BY DEF ListingInv, ListingTypeOK, AnswersKnown
<1>3. Mentioned(n) => Shown(n)
  BY <1>1, <1>2, UntouchedListed DEF Mentioned, Shown
<1> QED
  BY <1>1, <1>2, <1>3, UntouchedListed

-----------------------------------------------------------------------------
(* Each action keeps the invariant *)

(* No page is wrong when there is none. *)
LEMMA NoPages ==
  ASSUME NEW t, NEW S
  PROVE  PagesRight(t, <<>>, S) /\ <<>> \in Seq(Page)
BY EmptySeq DEF PagesRight

(* No fetch is under way: no page, no row touched, nothing resolved.       *)
LEMMA QuietFacts ==
  /\ Quiet \in Fetch /\ Quiet.kind = "none" /\ Quiet.got = <<>> /\ Quiet.since = {}
  /\ ~Quiet.found
BY NoPages DEF Quiet, Fetch

(* A refetch is the quiet fetch with the number of pages to get.           *)
LEMMA RefetchFrom ==
  ASSUME NEW n \in Nat, NEW f, f = [Quiet EXCEPT !.kind = "refetch", !.left = n]
  PROVE  f \in Fetch /\ f.kind = "refetch" /\ f.got = <<>> /\ f.since = {} /\ ~f.found
<1>1. ASSUME NEW q \in Fetch
      PROVE  LET g == [q EXCEPT !.kind = "refetch", !.left = n] IN
             /\ g \in Fetch /\ g.kind = "refetch" /\ g.got = q.got /\ g.since = q.since
             /\ g.found = q.found
  BY DEF Fetch
<1> QED
  BY <1>1, QuietFacts

(* A refetch begins with no page.                                          *)
LEMMA RefetchFacts ==
  ASSUME query \in Query
  PROVE  /\ Refetch \in Fetch /\ Refetch.kind = "refetch" /\ Refetch.got = <<>>
         /\ Refetch.since = {} /\ ~Refetch.found
<1>1. query.pages \in Seq(Page) /\ Len(query.pages) \in Nat
  BY LenProperties DEF Query
<1> DEFINE left == IF query.pages = <<>> THEN 1 ELSE Len(query.pages)
<1>2. Refetch = [Quiet EXCEPT !.kind = "refetch", !.left = left]
  BY DEF Refetch
<1>3. left \in Nat
  BY <1>1
<1> HIDE DEF left
<1> QED
  BY <1>2, <1>3, RefetchFrom

(* The parts of the invariant that speak of the fetch, when the rows and   *)
(* the cached pages are left alone and a fetch begins or ends.             *)
LEMMA FetchKeeps ==
  ASSUME ListingInv, UNCHANGED <<rows, since>>, own' \in SUBSET Node,
         query' \in Query, query'.pages = query.pages, fetch' \in Fetch,
         mine' \in SUBSET Node, overtaken' \in BOOLEAN,
         query'.status = "ok" => query.pages # <<>>,
         PagesRight(rows, fetch'.got, fetch'.since),
         fetch'.kind # "none" /\ fetch'.got # <<>> => NextCursor(fetch'.got) # Top,
         fetch'.found => fetch'.kind # "none",
         AnswersKnown'
  PROVE  ListingInv'
<1>1. ListingTypeOK'
  BY DEF ListingInv, ListingTypeOK
<1>2. NamesApart'
  BY DEF ListingInv, NamesApart, Here
<1>3. PagesRight(rows', query'.pages, since') /\ PagesRight(rows', fetch'.got, fetch'.since)
  BY DEF ListingInv
<1>4. /\ query'.status = "ok" => query'.pages # <<>>
      /\ fetch'.kind # "none" /\ fetch'.got # <<>> => NextCursor(fetch'.got) # Top
      /\ fetch'.found => fetch'.kind # "none"
  OBVIOUS
<1> QED
  BY <1>1, <1>2, <1>3, <1>4 DEF ListingInv

(* A fetch that fails leaves the cached pages and their listing behind an  *)
(* error's screen.                                                         *)
LEMMA FailKeeps ==
  ASSUME ListingInv, NEW status \in {"404", "410", "failed"}, Fail(status),
         UNCHANGED <<rows, own, since, mine, overtaken>>
  PROVE  ListingInv'
<1>1. /\ query \in Query /\ mine \in SUBSET Node /\ overtaken \in BOOLEAN
      /\ own \in SUBSET Node
  BY DEF ListingInv, ListingTypeOK
<1>2. query' \in Query /\ query'.pages = query.pages /\ query'.status = status
  BY <1>1 DEF Fail, Query
<1>3. fetch' = Quiet
  BY DEF Fail
<1>4. AnswersKnown'
  BY <1>2, <1>3, QuietFacts DEF AnswersKnown
<1> QED
  BY <1>1, <1>2, <1>3, <1>4, QuietFacts, NoPages, FetchKeeps

(* Resolve: the folder is found, or the fetch fails.                       *)
LEMMA ResolveKeeps ==
  ASSUME ListingInv, Resolve
  PROVE  ListingInv'
<1>1. /\ query \in Query /\ fetch \in Fetch /\ mine \in SUBSET Node /\ overtaken \in BOOLEAN
      /\ own \in SUBSET Node
  BY DEF ListingInv, ListingTypeOK
<1>2. UNCHANGED <<rows, own, since, mine, overtaken>>
  BY DEF Resolve, server
<1>3. CASE Answer = "ok"
  <2>1. fetch' = [fetch EXCEPT !.found = TRUE] /\ query' = query
    BY <1>3 DEF Resolve
  <2>2. /\ fetch' \in Fetch /\ fetch'.kind = fetch.kind /\ fetch'.got = fetch.got
        /\ fetch'.since = fetch.since
    BY <1>1, <2>1 DEF Fetch
  <2>3. AnswersKnown'
    BY <1>2, <2>1, <2>2 DEF ListingInv, AnswersKnown
  <2>4. /\ PagesRight(rows, fetch'.got, fetch'.since)
        /\ fetch'.kind # "none" /\ fetch'.got # <<>> => NextCursor(fetch'.got) # Top
        /\ query'.status = "ok" => query.pages # <<>>
        /\ fetch'.kind # "none"
    BY <2>1, <2>2 DEF ListingInv, Resolve
  <2> QED
    BY <1>1, <1>2, <2>1, <2>2, <2>3, <2>4, FetchKeeps
<1>4. CASE Answer # "ok"
  <2>1. Answer \in {"404", "410"} /\ Fail(Answer)
    BY <1>4 DEF Resolve, Answer
  <2> QED
    BY <1>2, <2>1, FailKeeps
<1> QED
  BY <1>3, <1>4

(* RequestFails: the fetch fails.                                          *)
LEMMA RequestFailsKeeps ==
  ASSUME ListingInv, RequestFails
  PROVE  ListingInv'
BY FailKeeps DEF RequestFails, server

(* ListChildren: one page more, and with the last one they are all shown.  *)
LEMMA ListChildrenKeeps ==
  ASSUME ListingInv, ListChildren
  PROVE  ListingInv'
<1> DEFINE page == PageAfter(NextCursor(fetch.got))
           got == Append(fetch.got, page)
<1>1. /\ ListingTypeOK /\ NamesApart /\ AnswersKnown
      /\ query \in Query /\ fetch \in Fetch /\ mine \in SUBSET Node /\ overtaken \in BOOLEAN
      /\ own \in SUBSET Node
      /\ fetch.got \in Seq(Page) /\ PagesRight(rows, fetch.got, fetch.since)
      /\ fetch.got # <<>> => NextCursor(fetch.got) # Top
      /\ fetch.kind # "none"
  BY DEF ListingInv, ListingTypeOK, Fetch, ListChildren
<1>2. NextCursor(fetch.got) \in Cursor
  BY <1>1, PageCursors
<1>3. /\ page \in Page /\ PageRight(rows, page, NextCursor(fetch.got), {})
      /\ page.next = Top \/ After(NextCursor(fetch.got), page.next)
  BY <1>1, <1>2, PageAfterRight
<1> HIDE DEF page
<1>4. PageRight(rows, page, NextCursor(fetch.got), fetch.since)
  BY <1>3 DEF PageRight
<1>5. got \in Seq(Page) /\ got # <<>> /\ PagesRight(rows, got, fetch.since)
  BY <1>1, <1>3, <1>4, OnePageMore
<1> HIDE DEF got
<1>6. UNCHANGED <<rows, own, mine>>
  BY DEF ListChildren, server
<1>7. CASE fetch.left > 1 /\ NextCursor(got) # Top
  <2>1. /\ fetch' = [fetch EXCEPT !.got = got, !.left = @ - 1, !.found = FALSE]
        /\ UNCHANGED <<query, since, overtaken>>
    BY <1>7 DEF ListChildren, got, page
  <2>2. /\ fetch'.kind = fetch.kind /\ fetch'.got = got /\ fetch'.since = fetch.since
        /\ fetch' \in Fetch /\ ~fetch'.found
    <3>1. fetch.left - 1 \in Nat
      BY <1>1, <1>7 DEF Fetch
    <3>2. \A n \in Nat, x \in Seq(Page) :
            LET f == [fetch EXCEPT !.got = x, !.left = n, !.found = FALSE] IN
            f \in Fetch /\ f.kind = fetch.kind /\ f.got = x /\ f.since = fetch.since /\ ~f.found
      BY <1>1 DEF Fetch
    <3> QED
      BY <1>5, <2>1, <3>1, <3>2
  <2>3. AnswersKnown'
    BY <1>1, <1>6, <2>1, <2>2 DEF AnswersKnown
  <2>4. query'.status = "ok" => query.pages # <<>>
    BY <2>1 DEF ListingInv
  <2> QED
    BY <1>1, <1>5, <1>6, <1>7, <2>1, <2>2, <2>3, <2>4, FetchKeeps
<1>8. CASE ~(fetch.left > 1 /\ NextCursor(got) # Top)
  <2>1. /\ query' = [status |-> "ok", pages |-> got, stale |-> FALSE]
        /\ since' = fetch.since /\ fetch' = Quiet
        /\ overtaken' = (overtaken /\ fetch.kind = "more")
    BY <1>8 DEF ListChildren, got, page
  <2>2. query' \in Query /\ query'.pages = got /\ query'.status = "ok" /\ since' \in SUBSET Node
    BY <1>1, <1>5, <2>1 DEF Query, Fetch
  <2>3. ListingTypeOK'
    BY <1>1, <1>6, <2>1, <2>2, QuietFacts DEF ListingTypeOK
  <2>4. NamesApart'
    BY <1>1, <1>6 DEF NamesApart, Here
  <2>5. AnswersKnown'
    <3>1. ~overtaken' => mine \cap fetch.since = {}
      BY <1>1, <2>1 DEF AnswersKnown, Fetch
    <3> QED
      BY <1>6, <2>1, <3>1, QuietFacts DEF AnswersKnown
  <2>6. PagesRight(rows', query'.pages, since') /\ PagesRight(rows', fetch'.got, fetch'.since)
    BY <1>5, <1>6, <2>1, <2>2, QuietFacts, NoPages
  <2>7. /\ query'.pages # <<>>
        /\ fetch'.kind = "none" /\ ~fetch'.found
    BY <1>5, <2>1, <2>2, QuietFacts
  <2> QED
    BY <2>3, <2>4, <2>5, <2>6, <2>7 DEF ListingInv
<1> QED
  BY <1>7, <1>8

(* Age: what is cached has grown stale, and is as right as before.         *)
LEMMA AgeKeeps ==
  ASSUME ListingInv, Age
  PROVE  ListingInv'
<1>1. /\ query \in Query /\ fetch \in Fetch /\ mine \in SUBSET Node /\ overtaken \in BOOLEAN
      /\ own \in SUBSET Node
  BY DEF ListingInv, ListingTypeOK
<1>2. UNCHANGED <<rows, own, fetch, since, mine, overtaken>>
  BY DEF Age, server
<1>3. query' \in Query /\ query'.pages = query.pages /\ query'.status = query.status
  BY <1>1 DEF Age, Query
<1>4. AnswersKnown'
  BY <1>2, <1>3 DEF ListingInv, AnswersKnown
<1>5. /\ PagesRight(rows, fetch'.got, fetch'.since)
      /\ fetch'.kind # "none" /\ fetch'.got # <<>> => NextCursor(fetch'.got) # Top
      /\ fetch'.found => fetch'.kind # "none"
      /\ query'.status = "ok" => query.pages # <<>>
  BY <1>2, <1>3 DEF ListingInv
<1> QED
  BY <1>1, <1>2, <1>3, <1>4, <1>5, FetchKeeps

(* A refetch begins with no page, so after everything that was answered.   *)
LEMMA RefetchKeeps ==
  ASSUME ListingInv, UNCHANGED <<rows, since>>, own' \in SUBSET Node, fetch' = Refetch,
         query' \in Query, query'.pages = query.pages,
         query'.status = "ok" => query.pages # <<>>,
         mine' \in SUBSET Node, overtaken' \in BOOLEAN
  PROVE  ListingInv'
<1>1. query \in Query
  BY DEF ListingInv, ListingTypeOK
<1>2. /\ fetch' \in Fetch /\ fetch'.kind = "refetch" /\ fetch'.got = <<>> /\ fetch'.since = {}
      /\ ~fetch'.found
  BY <1>1, RefetchFacts
<1>3. AnswersKnown'
  BY <1>2 DEF AnswersKnown
<1>4. PagesRight(rows, fetch'.got, fetch'.since)
  BY <1>2, NoPages
<1> QED
  BY <1>2, <1>3, <1>4, FetchKeeps

(* Focus: a refetch.                                                       *)
LEMMA FocusKeeps ==
  ASSUME ListingInv, Focus
  PROVE  ListingInv'
<1>1. /\ query \in Query /\ mine \in SUBSET Node /\ overtaken \in BOOLEAN
      /\ own \in SUBSET Node
  BY DEF ListingInv, ListingTypeOK
<1>2. UNCHANGED <<rows, own, since, mine, overtaken>> /\ fetch' = Refetch
  BY DEF Focus, server
<1> DEFINE status == IF query.pages = <<>> THEN "pending" ELSE query.status
<1>3. query' = [query EXCEPT !.status = status]
  BY DEF Focus
<1>4. status \in {"pending", "ok", "404", "410", "failed"} /\ (status = "ok" => query.pages # <<>>)
  BY <1>1 DEF Query
<1> HIDE DEF status
<1>5. query' \in Query /\ query'.pages = query.pages /\ query'.status = status
  BY <1>1, <1>3, <1>4 DEF Query
<1> QED
  BY <1>1, <1>2, <1>4, <1>5, RefetchKeeps

(* LoadMore: the fetch has what is shown, and what changed under it; if it *)
(* cancels a refetch, that is remembered.                                  *)
LEMMA LoadMoreKeeps ==
  ASSUME ListingInv, LoadMore
  PROVE  ListingInv'
<1>1. /\ query \in Query /\ query.pages \in Seq(Page) /\ fetch \in Fetch
      /\ since \in SUBSET Node /\ mine \in SUBSET Node /\ overtaken \in BOOLEAN
      /\ own \in SUBSET Node
  BY DEF ListingInv, ListingTypeOK, Query
<1>2. UNCHANGED <<rows, own, query, since, mine>>
  BY DEF LoadMore, server
<1>3. /\ fetch' = [Quiet EXCEPT !.kind = "more", !.left = 1, !.got = query.pages, !.since = since]
      /\ overtaken' = (overtaken \/ fetch.kind = "refetch")
      /\ query.status = "ok" /\ NextCursor(query.pages) # Top /\ fetch.kind # "more"
  BY DEF LoadMore
<1>4. /\ fetch' \in Fetch /\ fetch'.kind = "more" /\ fetch'.got = query.pages
      /\ fetch'.since = since /\ ~fetch'.found
  <2> DEFINE pages == query.pages
             f == fetch'
  <2>1. f = [Quiet EXCEPT !.kind = "more", !.left = 1, !.got = pages, !.since = since]
    BY <1>3
  <2>2. pages \in Seq(Page) /\ since \in SUBSET Node
    BY <1>1
  <2> HIDE DEF pages, f
  <2>3. f \in Fetch /\ f.kind = "more" /\ f.got = pages /\ f.since = since /\ ~f.found
    BY <2>1, <2>2 DEF Quiet, Fetch
  <2> QED
    BY <2>3 DEF f, pages
<1>5. AnswersKnown'
  <2>1. ~overtaken' => fetch.kind = "none" /\ ~overtaken
    BY <1>1, <1>3 DEF Fetch
  <2>2. ~overtaken' => mine \cap since = {}
    BY <1>3, <2>1 DEF ListingInv, AnswersKnown
  <2> QED
    BY <1>2, <1>4, <2>2 DEF AnswersKnown
<1>6. /\ PagesRight(rows, fetch'.got, fetch'.since)
      /\ fetch'.kind # "none" /\ fetch'.got # <<>> => NextCursor(fetch'.got) # Top
      /\ fetch'.found => fetch'.kind # "none"
      /\ query'.status = "ok" => query.pages # <<>>
  BY <1>2, <1>3, <1>4 DEF ListingInv
<1>7. overtaken' \in BOOLEAN
  BY <1>1, <1>3
<1> QED
  BY <1>1, <1>2, <1>4, <1>5, <1>6, <1>7, FetchKeeps

(* OwnAnswer: the refetch begins after the change that was answered.       *)
LEMMA OwnAnswerKeeps ==
  ASSUME ListingInv, OwnAnswer
  PROVE  ListingInv'
<1>1. query \in Query /\ own \in SUBSET Node /\ mine \in SUBSET Node
  BY DEF ListingInv, ListingTypeOK
<1>2. /\ query' = [query EXCEPT !.stale = TRUE] /\ fetch' = Refetch /\ own' = {}
      /\ mine' = mine \cup own /\ overtaken' = FALSE /\ UNCHANGED <<rows, since>>
  BY DEF OwnAnswer, Invalidate
<1>3. query' \in Query /\ query'.pages = query.pages /\ query'.status = query.status
  BY <1>1, <1>2 DEF Query
<1>4. query'.status = "ok" => query.pages # <<>>
  BY <1>3 DEF ListingInv
<1> QED
  BY <1>1, <1>2, <1>3, <1>4, RefetchKeeps

(* OwnLost: nothing the invariant speaks of.                               *)
LEMMA OwnLostKeeps ==
  ASSUME ListingInv, OwnLost
  PROVE  ListingInv'
<1>1. own' = {} /\ UNCHANGED <<rows, query, fetch, since, mine, overtaken>>
  BY DEF OwnLost
<1>2. ListingTypeOK' /\ NamesApart' /\ AnswersKnown'
  BY <1>1 DEF ListingInv, ListingTypeOK, NamesApart, Here, AnswersKnown
<1> QED
  BY <1>1, <1>2 DEF ListingInv

(* Withdraw: nothing the invariant speaks of.                              *)
LEMMA WithdrawKeeps ==
  ASSUME ListingInv, Withdraw
  PROVE  ListingInv'
<1>1. UNCHANGED <<rows, query, fetch, own, since, mine, overtaken>>
  BY DEF Withdraw
<1>2. ListingTypeOK' /\ NamesApart' /\ AnswersKnown'
  BY <1>1 DEF ListingInv, ListingTypeOK, NamesApart, Here, AnswersKnown
<1> QED
  BY <1>1, <1>2 DEF ListingInv

(* What a fetch has so far counts the rows that change meanwhile.          *)
LEMMA MeanwhileFacts ==
  ASSUME fetch \in Fetch, NEW S \in SUBSET Node
  PROVE  /\ Meanwhile(S) \in Fetch /\ Meanwhile(S).kind = fetch.kind
         /\ Meanwhile(S).got = fetch.got /\ Meanwhile(S).found = fetch.found
         /\ Meanwhile(S).since = IF fetch.got = <<>> THEN {} ELSE fetch.since \cup S
<1>1. ASSUME NEW T \in SUBSET Node
      PROVE  LET f == [fetch EXCEPT !.since = T] IN
             /\ f \in Fetch /\ f.kind = fetch.kind /\ f.got = fetch.got
             /\ f.found = fetch.found /\ f.since = T
  BY DEF Fetch
<1> DEFINE T == IF fetch.got = <<>> THEN {} ELSE fetch.since \cup S
<1>2. T \in SUBSET Node /\ Meanwhile(S) = [fetch EXCEPT !.since = T]
  BY DEF Fetch, Meanwhile
<1> HIDE DEF T
<1>3. /\ Meanwhile(S) \in Fetch /\ Meanwhile(S).kind = fetch.kind
      /\ Meanwhile(S).got = fetch.got /\ Meanwhile(S).found = fetch.found
      /\ Meanwhile(S).since = T
  BY <1>1, <1>2
<1> QED
  BY <1>3 DEF T

(* Rows that change count as touched, for the pages shown and for those a  *)
(* fetch has.                                                              *)
LEMMA TouchKeeps ==
  ASSUME ListingInv, NEW S \in SUBSET Node, rows' \in [Node -> Row], NamesApart',
         \A n \in Node \ S : rows'[n] = rows[n],
         Touch(S), fetch' = Meanwhile(S), own' \in SUBSET Node, UNCHANGED <<query, overtaken>>
  PROVE  ListingInv'
<1>1. /\ query \in Query /\ query.pages \in Seq(Page) /\ fetch \in Fetch /\ fetch.got \in Seq(Page)
      /\ since \in SUBSET Node /\ mine \in SUBSET Node /\ overtaken \in BOOLEAN
  BY DEF ListingInv, ListingTypeOK, Query, Fetch
<1>2. since' = since \cup S /\ mine' = mine \ S
  BY DEF Touch
<1>3. /\ fetch' \in Fetch /\ fetch'.kind = fetch.kind /\ fetch'.got = fetch.got
      /\ fetch'.found = fetch.found
      /\ fetch'.since = IF fetch.got = <<>> THEN {} ELSE fetch.since \cup S
  BY <1>1, MeanwhileFacts
<1>4. ListingTypeOK'
  BY <1>1, <1>2, <1>3 DEF ListingTypeOK
<1>5. AnswersKnown'
  <2>1. fetch'.since \subseteq fetch.since \cup S
    BY <1>3
  <2> QED
    BY <1>2, <1>3, <2>1 DEF ListingInv, AnswersKnown
<1>6. PagesRight(rows', query'.pages, since')
  <2>1. PagesRight(rows, query.pages, since) /\ since \subseteq since \cup S
    BY DEF ListingInv
  <2>2. \A n \in Node \ (since \cup S) : rows'[n] = rows[n]
    OBVIOUS
  <2> QED
    BY <1>1, <1>2, <2>1, <2>2, PagesKept
<1>7. PagesRight(rows', fetch'.got, fetch'.since)
  <2>1. CASE fetch.got = <<>>
    BY <1>3, <2>1, NoPages
  <2>2. CASE fetch.got # <<>>
    <3>1. PagesRight(rows, fetch.got, fetch.since) /\ fetch.since \subseteq fetch.since \cup S
      BY DEF ListingInv
    <3>2. \A n \in Node \ (fetch.since \cup S) : rows'[n] = rows[n]
      OBVIOUS
    <3> QED
      BY <1>1, <1>3, <2>2, <3>1, <3>2, PagesKept
  <2> QED
    BY <2>1, <2>2
<1>8. /\ query'.status = "ok" => query'.pages # <<>>
      /\ fetch'.kind # "none" /\ fetch'.got # <<>> => NextCursor(fetch'.got) # Top
      /\ fetch'.found => fetch'.kind # "none"
  BY <1>3 DEF ListingInv
<1> QED
  BY <1>4, <1>5, <1>6, <1>7, <1>8 DEF ListingInv

(* A change leaves the names of the folder apart: a new name, and a row    *)
(* that comes in, meet the unique index.                                   *)
LEMMA ChangeKeeps ==
  ASSUME ListingInv, NEW n \in Node, NEW row, Change(n, row), own' \in SUBSET Node
  PROVE  ListingInv'
<1>1. rows \in [Node -> Row] /\ NamesApart
  BY DEF ListingInv, ListingTypeOK
<1>2. /\ row \in Changed(n) /\ rows' = [rows EXCEPT ![n] = row]
      /\ Touch({n}) /\ fetch' = Meanwhile({n}) /\ UNCHANGED <<query, overtaken>>
  BY DEF Change
<1>3. row \in Row /\ (row.at = "here" => \A m \in Here : m # n => rows[m].name # row.name)
  <2>1. CASE \E name \in Name : Free(name) /\ row = [at |-> "here", name |-> name]
    BY <2>1 DEF Free, Row
  <2>2. CASE \E a \in {"gone", "away"} : row = [rows[n] EXCEPT !.at = a]
    BY <1>1, <2>2 DEF Row
  <2>3. CASE Free(rows[n].name) /\ row = [rows[n] EXCEPT !.at = "here"]
    BY <1>1, <2>3 DEF Free, Row
  <2> QED
    BY <1>2, <2>1, <2>2, <2>3 DEF Changed
<1>4. /\ rows' \in [Node -> Row] /\ rows'[n] = row
      /\ \A m \in Node \ {n} : rows'[m] = rows[m]
  BY <1>1, <1>2, <1>3
<1>5. NamesApart'
  <2>1. ASSUME NEW x \in Node, NEW y \in Node, rows'[x].at = "here", rows'[y].at = "here",
               rows'[x].name = rows'[y].name
        PROVE  x = y
    BY <1>1, <1>3, <1>4, <2>1 DEF NamesApart, Here
  <2> QED
    BY <2>1 DEF NamesApart, Here
<1> QED
  BY <1>2, <1>4, <1>5, TouchKeeps

(* DeleteFolder: every row of the folder is touched.                       *)
LEMMA DeleteFolderKeeps ==
  ASSUME ListingInv, DeleteFolder
  PROVE  ListingInv'
<1>1. rows \in [Node -> Row] /\ own \in SUBSET Node
  BY DEF ListingInv, ListingTypeOK
<1>2. /\ rows' = [n \in Node |-> IF n \in Here THEN [rows[n] EXCEPT !.at = "gone"] ELSE rows[n]]
      /\ Touch(Here) /\ fetch' = Meanwhile(Here) /\ UNCHANGED <<query, own, overtaken>>
  BY DEF DeleteFolder
<1>3. \A n \in Node : [rows[n] EXCEPT !.at = "gone"] \in Row /\ [rows[n] EXCEPT !.at = "gone"].at = "gone"
  BY <1>1 DEF Row
<1>4. /\ rows' \in [Node -> Row]
      /\ \A n \in Node : rows'[n].at # "here"
      /\ \A n \in Node \ Here : rows'[n] = rows[n]
  BY <1>1, <1>2, <1>3 DEF Here
<1>5. NamesApart'
  BY <1>4 DEF NamesApart, Here
<1>6. Here \in SUBSET Node
  BY DEF Here
<1> QED
  BY <1>1, <1>2, <1>4, <1>5, <1>6, TouchKeeps

-----------------------------------------------------------------------------
(* The theorems *)

(* The folder starts with names apart, and the screen with nothing.        *)
LEMMA ListingInvInit == ListingInit => ListingInv
<1> SUFFICES ASSUME ListingInit
             PROVE  ListingInv
  OBVIOUS
<1> DEFINE some == CHOOSE x \in Name : TRUE
<1>1. /\ query = [status |-> "pending", pages |-> <<>>, stale |-> TRUE] /\ fetch = Refetch
      /\ own = {} /\ since = {} /\ mine = {} /\ overtaken = FALSE
  BY DEF ListingInit
<1>2. some \in Name
  BY ListingAssumption
<1>3. rows = [n \in Node |-> IF n \in DOMAIN Initial THEN [at |-> "here", name |-> Initial[n]]
                             ELSE [at |-> "absent", name |-> some]]
  BY DEF ListingInit
<1> HIDE DEF some
<1>4. rows \in [Node -> Row]
  <2>1. \A n \in DOMAIN Initial : Initial[n] \in Name
    BY ListingAssumption
  <2> QED
    BY <1>2, <1>3, <2>1 DEF Row
<1>5. NamesApart
  <2>1. \A m, n \in DOMAIN Initial : Initial[m] = Initial[n] => m = n
    BY ListingAssumption
  <2>2. \A n \in Here : n \in DOMAIN Initial /\ rows[n].name = Initial[n]
    BY <1>3 DEF Here
  <2> QED
    BY <2>1, <2>2 DEF NamesApart
<1>6. query \in Query /\ query.pages = <<>> /\ query.status = "pending"
  BY <1>1, NoPages DEF Query
<1>7. /\ fetch \in Fetch /\ fetch.kind = "refetch" /\ fetch.got = <<>> /\ fetch.since = {}
      /\ ~fetch.found
  BY <1>1, <1>6, RefetchFacts
<1>8. ListingTypeOK
  BY <1>1, <1>4, <1>6, <1>7 DEF ListingTypeOK
<1>9. AnswersKnown
  BY <1>1, <1>7 DEF AnswersKnown
<1>10. PagesRight(rows, query.pages, since) /\ PagesRight(rows, fetch.got, fetch.since)
  BY <1>6, <1>7, NoPages
<1> QED
  BY <1>5, <1>6, <1>7, <1>8, <1>9, <1>10 DEF ListingInv

(* Every step keeps the invariant.                                         *)
LEMMA ListingInvStep == ListingInv /\ [ListingNext]_vars => ListingInv'
<1> SUFFICES ASSUME ListingInv, [ListingNext]_vars
             PROVE  ListingInv'
  OBVIOUS
<1>1. CASE Resolve
  BY <1>1, ResolveKeeps
<1>2. CASE ListChildren
  BY <1>2, ListChildrenKeeps
<1>3. CASE RequestFails
  BY <1>3, RequestFailsKeeps
<1>4. CASE Age
  BY <1>4, AgeKeeps
<1>5. CASE Focus
  BY <1>5, FocusKeeps
<1>6. CASE LoadMore
  BY <1>6, LoadMoreKeeps
<1>7. ASSUME NEW n \in Node, NEW row \in Changed(n), OthersChange(n, row) \/ OwnChange(n, row)
      PROVE  ListingInv'
  <2>1. Change(n, row) /\ own' \in SUBSET Node
    BY <1>7 DEF OthersChange, OwnChange, ListingInv, ListingTypeOK
  <2> QED
    BY <2>1, ChangeKeeps
<1>8. CASE OwnAnswer
  BY <1>8, OwnAnswerKeeps
<1>9. CASE OwnLost
  BY <1>9, OwnLostKeeps
<1>10. CASE DeleteFolder
  BY <1>10, DeleteFolderKeeps
<1>11. CASE Withdraw
  BY <1>11, WithdrawKeeps
<1>12. CASE UNCHANGED vars
  <2>1. UNCHANGED <<rows, query, fetch, own, since, mine, overtaken>>
    BY <1>12 DEF vars
  <2>2. ListingTypeOK' /\ NamesApart' /\ AnswersKnown'
    BY <2>1 DEF ListingInv, ListingTypeOK, NamesApart, Here, AnswersKnown
  <2> QED
    BY <2>1, <2>2 DEF ListingInv
<1> QED
  BY <1>1, <1>2, <1>3, <1>4, <1>5, <1>6, <1>7, <1>8, <1>9, <1>10, <1>11, <1>12
     DEF ListingNext

(* The invariant holds.                                                    *)
LEMMA ListingInvAlways == ListingSpec => []ListingInv
<1> QED
  BY ListingInvInit, ListingInvStep, PTL DEF ListingSpec

(* However rows come and go between two pages, a row that nobody touched   *)
(* since the first of them was read is listed once, in order, when it is   *)
(* in the folder and the pages reach it, and not otherwise                 *)
(* (listChildren's keyset cursor, useBrowse's pages).                      *)
THEOREM SteadyRowsListedOnceAlways == ListingSpec => []SteadyRowsListedOnce
<1> QED
  BY ListingInvAlways, InvGivesSteady, PTL

(* Once the reader's own change is answered and no fetch is under way, the *)
(* listing shows it, unless a "Load more" cancelled its refetch            *)
(* (useInvalidateBrowse after every mutation).                             *)
THEOREM OwnChangeShownAlways == ListingSpec => []OwnChangeShown
<1> QED
  BY ListingInvAlways, InvGivesOwn, PTL

=============================================================================
