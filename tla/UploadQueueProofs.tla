----------------------- MODULE UploadQueueProofs -----------------------
(***************************************************************************)
(* Theorems about the upload queue, for any number of files, any number of *)
(* drops and batches of any size.                                          *)
(*                                                                         *)
(* What each request of a run is for is spread over its place in the batch,*)
(* the answer to presign, the row and its controller.  QueueInv ties these *)
(* together; it is inductive, and the properties are read off it.          *)
(***************************************************************************)
EXTENDS UploadQueue, FiniteSetTheorems, SequenceTheorems, TLAPS

-----------------------------------------------------------------------------
(* The inductive invariant *)

(* What run r has to do with: not yet batched, or in the batch under way.  *)
Mine(r) == runs[r].left \cup ToSet(runs[r].live)

(* What run r may yet have signed. *)
Unsigned(r) ==
  runs[r].left \cup IF runs[r].step = "presign" THEN ToSet(runs[r].live) ELSE {}

(* Run r handles each file once, and whatever it was answered about a      *)
(* place of its batch is for the file at that place.                       *)
RunWell(r) ==
  /\ runs[r].at \in 1..(Len(runs[r].live) + 1)
  /\ IsInjective(runs[r].live)
  /\ runs[r].left \cap ToSet(runs[r].live) = {}
  /\ runs[r].step \in {"presign", "put", "complete"} => runs[r].at \in DOMAIN runs[r].live
  /\ runs[r].step = "presign" => runs[r].at = 1 /\ runs[r].targets = <<>>
  /\ runs[r].step \in {"unused", "done"} => Ahead(r) = {}
  /\ runs[r].step \in {"put", "complete"} => runs[r].at \in DOMAIN runs[r].targets
  /\ \A i \in DOMAIN runs[r].targets :
       /\ i \in DOMAIN runs[r].live
       /\ runs[r].targets[i] \in DOMAIN reserved
       /\ reserved[runs[r].targets[i]] = runs[r].live[i]

(* No file is in two runs. *)
Apart == \A r, q \in Runs : r # q => Mine(r) \cap Mine(q) = {}

(* No file is signed twice. *)
SignedOnce ==
  /\ IsInjective(reserved)
  /\ \A r \in Runs : Unsigned(r) \cap ToSet(reserved) = {}

(* The row of a file that a run has ahead of it, and its controller. *)
RowAhead(r, f) ==
  CASE At(r, f, "put")      -> signal[f] = "armed" /\ status[f] = "uploading"
    [] At(r, f, "complete") -> status[f] = "uploading"
    [] OTHER                -> \/ signal[f] = "armed" /\ status[f] = "pending"
                               \/ signal[f] = "aborted" /\ status[f] = "cancelled"

RowWell(f) ==
  /\ status[f] = "absent" => f \notin created \cup ToSet(reserved) /\ \A r \in Runs : f \notin Mine(r)
  /\ f \in created => status[f] \in {"complete", "error"}
  /\ status[f] \in {"pending", "uploading"} => \E r \in Runs : f \in Ahead(r)
  /\ \A r \in Runs : f \in Ahead(r) => RowAhead(r, f)

(* The rows, their controllers, and what the runs have ahead: the part of  *)
(* QueueTypeOK that is about them included.                                *)
RowsWell ==
  /\ status \in [File -> Status] /\ cleared \subseteq {f \in File : status[f] \in Settled}
  /\ signal \in [File -> {"none", "armed", "aborted"}]
  /\ \A f \in File : signal[f] # "none" <=> \E r \in Runs : f \in Ahead(r)
  /\ \A f \in File : RowWell(f)

(* The runs, what they were answered, and what is reserved. *)
RunsWell ==
  /\ runs \in [Runs -> Run]
  /\ \A r \in Runs : RunWell(r)
  /\ Apart
  /\ SignedOnce

(* The server and storage. *)
ServerWell ==
  /\ reserved \in Seq(File) /\ Len(reserved) <= Files
  /\ stored \in [Blob -> File \cup {NoFile}]
  /\ created \subseteq File
  /\ PutToOwnReservation

QueueInv == RowsWell /\ RunsWell /\ ServerWell

-----------------------------------------------------------------------------
(* Files in order *)

(* The files are finitely many natural numbers. *)
LEMMA FilesFinite ==
  ASSUME NEW S \in SUBSET File
  PROVE  S \in SUBSET Nat /\ IsFiniteSet(S) /\ Cardinality(S) \in Nat
<1>1. IsFiniteSet(File) /\ File \in SUBSET Nat
  BY QueueAssumption, FS_Interval DEF File
<1>2. IsFiniteSet(S)
  BY <1>1, FS_Subset
<1> QED
  BY <1>1, <1>2, FS_CardinalityType

(* A set of files can be listed in order: a file's place is the number of  *)
(* files that are not after it.                                            *)
LEMMA OrderExists ==
  ASSUME NEW S \in SUBSET File
  PROVE  \E s \in [1..Cardinality(S) -> S] : \A i, j \in DOMAIN s : i < j => s[i] < s[j]
<1> DEFINE UpTo(f) == {x \in S : x <= f}
           N == Cardinality(S)
           rank == [f \in S |-> Cardinality(UpTo(f))]
<1>1. S \in SUBSET Nat /\ IsFiniteSet(S) /\ N \in Nat
  BY FilesFinite
<1>2. \A f \in S : IsFiniteSet(UpTo(f)) /\ rank[f] \in 1..N
  <2> TAKE f \in S
  <2>1. IsFiniteSet(UpTo(f)) /\ Cardinality(UpTo(f)) <= N
    BY <1>1, FS_Subset
  <2>2. Cardinality(UpTo(f)) \in Nat
    BY <2>1, FS_CardinalityType
  <2>3. UpTo(f) # {}
    BY <1>1
  <2>4. Cardinality(UpTo(f)) # 0
    BY <2>1, <2>3, FS_EmptySet
  <2> QED
    BY <1>1, <2>1, <2>2, <2>4
<1>11. \A f \in S : rank[f] \in Nat
  <2>1. 1..N \subseteq Nat
    BY <1>1
  <2> QED
    BY <1>2, <2>1
<1>3. ASSUME NEW f \in S, NEW g \in S, f < g
      PROVE  rank[f] < rank[g]
  <2>1. UpTo(f) \in SUBSET UpTo(g) /\ g \in UpTo(g) /\ g \notin UpTo(f)
    <3>1. \A x \in S : x \in Nat
      BY <1>1
    <3>2. \A x \in S : x <= f => x <= g
      BY <1>3, <3>1
    <3>3. g <= g /\ ~(g <= f)
      BY <1>3, <3>1
    <3> QED
      BY <3>2, <3>3
  <2>2. Cardinality(UpTo(f)) <= Cardinality(UpTo(g)) /\ Cardinality(UpTo(f)) # Cardinality(UpTo(g))
    <3> HIDE DEF UpTo
    <3> QED
      BY <1>2, <2>1, FS_Subset
  <2> QED
    BY <1>1, <1>2, <2>2
<1>4. rank \in Injection(S, 1..N)
  <2>1. rank \in [S -> 1..N]
    <3>1. rank = [f \in S |-> rank[f]]
      OBVIOUS
    <3> HIDE DEF rank
    <3> QED
      BY <1>2, <3>1
  <2>2. ASSUME NEW f \in S, NEW g \in S, f # g
        PROVE  rank[f] # rank[g]
    <3> HIDE DEF rank
    <3>1. f < g \/ g < f
      BY <1>1, <2>2
    <3>2. rank[f] \in Nat /\ rank[g] \in Nat
      BY <1>11
    <3> QED
      BY <1>3, <3>1, <3>2
  <2> HIDE DEF rank, N
  <2> QED
    BY <2>1, <2>2 DEF Injection, IsInjective
<1>5. rank \in Surjection(S, 1..N)
  <2>1. IsFiniteSet(1..N) /\ Cardinality(1..N) = N
    BY <1>1, FS_Interval
  <2> HIDE DEF rank
  <2> QED
    BY <1>4, <2>1, FS_Injection
<1>6. \A k \in 1..N : \E f \in S : rank[f] = k
  <2> HIDE DEF rank, N
  <2> QED
    BY <1>5 DEF Surjection
<1> DEFINE s == [k \in 1..N |-> CHOOSE f \in S : rank[f] = k]
<1>7. \A k \in 1..N : s[k] \in S /\ rank[s[k]] = k
  <2> HIDE DEF rank, N
  <2> QED
    BY <1>6
<1>8. s \in [1..N -> S]
  <2> HIDE DEF rank, N
  <2> QED
    BY <1>7
<1>9. ASSUME NEW i \in 1..N, NEW j \in 1..N, i < j
      PROVE  s[i] < s[j]
  <2>1. s[i] \in S /\ s[j] \in S /\ rank[s[i]] = i /\ rank[s[j]] = j
    BY <1>7
  <2> HIDE DEF s, rank
  <2>2. s[i] # s[j] /\ ~(s[j] < s[i])
    <3>1. i \in Nat /\ j \in Nat
      BY <1>1
    <3> QED
      BY <1>3, <1>9, <2>1, <3>1
  <2>3. s[i] \in Nat /\ s[j] \in Nat
    BY <1>1, <2>1
  <2> QED
    BY <2>2, <2>3
<1>10. DOMAIN s = 1..N
  OBVIOUS
<1> HIDE DEF s
<1> QED
  BY <1>8, <1>9, <1>10

(* InOrder(S) lists every file of S once, and no other. *)
LEMMA InOrderLists ==
  ASSUME NEW S \in SUBSET File
  PROVE  /\ InOrder(S) \in Seq(File)
         /\ IsInjective(InOrder(S))
         /\ ToSet(InOrder(S)) = S
<1> DEFINE N == Cardinality(S)
           s == InOrder(S)
<1>1. S \in SUBSET Nat /\ IsFiniteSet(S) /\ N \in Nat
  BY FilesFinite
<1>2. s \in [1..N -> S] /\ \A i, j \in DOMAIN s : i < j => s[i] < s[j]
  BY OrderExists DEF InOrder
<1> HIDE DEF s
<1>3. s \in Seq(File)
  <2>1. s \in [1..N -> File]
    BY <1>2
  <2> HIDE DEF N
  <2> QED
    BY <1>1, <2>1
<1>4. \A i, j \in 1..N : s[i] = s[j] => i = j
  <2> TAKE i, j \in 1..N
  <2>1. i < j \/ j < i \/ i = j
    BY <1>1
  <2>2. s[i] \in Nat /\ s[j] \in Nat
    BY <1>1, <1>2
  <2> QED
    BY <1>2, <2>1, <2>2
<1>5. s \in Injection(1..N, S)
  BY <1>2, <1>4 DEF Injection, IsInjective
<1>6. s \in Surjection(1..N, S)
  <2>1. IsFiniteSet(1..N) /\ Cardinality(1..N) = N
    BY <1>1, FS_Interval
  <2> QED
    BY <1>1, <1>5, <2>1, FS_Injection
<1>7. ToSet(s) = S
  BY <1>2, <1>6 DEF ToSet, Surjection
<1> QED
  BY <1>2, <1>3, <1>4, <1>7 DEF s, IsInjective

-----------------------------------------------------------------------------
(* What a run has ahead of it *)

(* Ahead is part of Mine, and a run at a request has that file ahead.      *)
LEMMA AheadFacts ==
  ASSUME runs \in [Runs -> Run], NEW r \in Runs
  PROVE  /\ Ahead(r) \subseteq Mine(r) /\ Mine(r) \subseteq File
         /\ \A f, step : At(r, f, step) /\ runs[r].at \in Nat \ {0} => f \in Ahead(r)
<1>1. runs[r].left \subseteq File /\ runs[r].live \in Seq(File) /\ runs[r].at \in Nat
  BY DEF Run
<1>2. DOMAIN runs[r].live = 1..Len(runs[r].live)
  BY <1>1, LenProperties
<1>3. Len(runs[r].live) \in Nat
  BY <1>1, LenProperties
<1>4. \A i \in DOMAIN runs[r].live : runs[r].live[i] \in File
  BY <1>1, <1>2, ElementOfSeq
<1>5. \A f, step : At(r, f, step) /\ runs[r].at \in Nat \ {0} => f \in Ahead(r)
  BY <1>1, <1>2, <1>3 DEF At, Ahead
<1> QED
  BY <1>1, <1>4, <1>5 DEF Ahead, Mine, ToSet

(* A run that a step leaves alone is as it was. *)
LEMMA RunFrame ==
  ASSUME NEW q \in Runs, runs'[q] = runs[q]
  PROVE  /\ Ahead(q)' = Ahead(q) /\ Mine(q)' = Mine(q) /\ Unsigned(q)' = Unsigned(q)
         /\ \A f, step : At(q, f, step)' <=> At(q, f, step)
BY DEF Ahead, Mine, Unsigned, At

(* Run r settles the rows S, which it has ahead of it, and goes on with    *)
(* the others, none of which is at a request: the rows stay well.          *)
LEMMA SettleKeeps ==
  ASSUME RowsWell, Apart, runs \in [Runs -> Run], created \subseteq File,
         NEW r \in Runs, NEW S \in SUBSET Ahead(r), NEW to \in Settled,
         Settle(S, to), cleared' = cleared,
         \A q \in Runs \ {r} : runs'[q] = runs[q],
         Ahead(r)' = Ahead(r) \ S, Mine(r)' \subseteq Mine(r),
         runs'[r].step \notin {"put", "complete"},
         \A f \in Ahead(r) \ S : ~At(r, f, "put") /\ ~At(r, f, "complete"),
         created' \subseteq created \cup S,
         \A f \in created' \ created : status[f] = "uploading" /\ to \in {"complete", "error"},
         ToSet(reserved') \subseteq ToSet(reserved) \cup Mine(r)
  PROVE  RowsWell'
<1>1. \A q \in Runs \ {r} : Ahead(q)' = Ahead(q) /\ Mine(q)' = Mine(q)
  BY RunFrame
<1>2. \A q \in Runs : Ahead(q) \subseteq Mine(q) /\ Mine(q) \subseteq File
  BY AheadFacts
<1>3. S \subseteq File /\ \A q \in Runs \ {r} : Ahead(q) \cap S = {}
  BY <1>2 DEF Apart
<1>4. /\ status' = [f \in File |-> IF f \in S \ cleared THEN to ELSE status[f]]
      /\ signal' = [f \in File |-> IF f \in S THEN "none" ELSE signal[f]]
  BY DEF Settle, Patch, Release
<1>5. status' \in [File -> Status] /\ signal' \in [File -> {"none", "armed", "aborted"}]
  BY <1>4 DEF RowsWell, Status
<1>6. \A f \in cleared : f \in File /\ status[f] \in Settled
  BY DEF RowsWell
<1>7. cleared' \subseteq {f \in File : status'[f] \in Settled}
  BY <1>4, <1>6
<1>8. \A f \in File : (\E q \in Runs : f \in Ahead(q)') <=> f \notin S /\ \E q \in Runs : f \in Ahead(q)
  BY <1>1, <1>3
<1>9. \A f \in File : signal'[f] # "none" <=> \E q \in Runs : f \in Ahead(q)'
  BY <1>4, <1>8 DEF RowsWell
<1>10. ASSUME NEW f \in File
       PROVE  RowWell(f)'
  <2>1. RowWell(f)
    BY DEF RowsWell
  <2>2. \A q \in Runs : f \in Ahead(q) => status[f] \in {"pending", "uploading", "cancelled"}
    BY <2>1 DEF RowWell, RowAhead
  <2>3. f \in S => f \in Mine(r) /\ status[f] \in {"pending", "uploading", "cancelled"}
    BY <1>2, <2>2
  <2>4. ASSUME status'[f] = "absent"
        PROVE  f \notin created' \cup ToSet(reserved') /\ \A q \in Runs : f \notin Mine(q)'
    <3>1. status[f] = "absent" /\ f \notin S
      BY <1>4, <1>6, <2>3, <2>4 DEF Settled
    <3>2. f \notin created \cup ToSet(reserved) /\ \A q \in Runs : f \notin Mine(q)
      BY <2>1, <3>1 DEF RowWell
    <3> QED
      BY <1>1, <3>1, <3>2
  <2>5. ASSUME f \in created'
        PROVE  status'[f] \in {"complete", "error"}
    <3>1. CASE f \in created
      <4>1. status[f] \in {"complete", "error"}
        BY <2>1, <3>1 DEF RowWell
      <4> QED
        BY <1>4, <2>3, <4>1
    <3>2. CASE f \notin created
      <4>1. f \in S /\ status[f] = "uploading" /\ to \in {"complete", "error"}
        BY <2>5, <3>2
      <4>2. f \notin cleared
        BY <1>6, <4>1 DEF Settled
      <4> QED
        BY <1>4, <4>1, <4>2
    <3> QED
      BY <3>1, <3>2
  <2>6. ASSUME status'[f] \in {"pending", "uploading"}
        PROVE  \E q \in Runs : f \in Ahead(q)'
    <3>1. status[f] = status'[f] /\ f \notin S
      BY <1>4, <1>6, <2>6 DEF Settled
    <3> QED
      BY <1>8, <2>1, <2>6, <3>1 DEF RowWell
  <2>7. ASSUME NEW q \in Runs, f \in Ahead(q)'
        PROVE  RowAhead(q, f)'
    <3>1. f \in Ahead(q) /\ f \notin S
      BY <1>1, <1>3, <2>7
    <3>2. status'[f] = status[f] /\ signal'[f] = signal[f]
      BY <1>4, <3>1
    <3>3. RowAhead(q, f)
      BY <2>1, <3>1 DEF RowWell
    <3>4. CASE q = r
      <4>1. ~At(r, f, "put")' /\ ~At(r, f, "complete")'
        BY DEF At
      <4>2. ~At(r, f, "put") /\ ~At(r, f, "complete")
        BY <3>1, <3>4
      <4> QED
        BY <3>2, <3>3, <3>4, <4>1, <4>2 DEF RowAhead
    <3>5. CASE q # r
      <4>1. (At(q, f, "put")' <=> At(q, f, "put")) /\ (At(q, f, "complete")' <=> At(q, f, "complete"))
        BY <3>5, RunFrame
      <4> QED
        BY <3>2, <3>3, <4>1 DEF RowAhead
    <3> QED
      BY <3>4, <3>5
  <2> QED
    BY <2>4, <2>5, <2>6, <2>7 DEF RowWell
<1> QED
  BY <1>5, <1>7, <1>9, <1>10 DEF RowsWell

(* A step of run r that signs nothing and takes on no file keeps the runs  *)
(* well if it keeps r well.                                                *)
LEMMA RunKeeps ==
  ASSUME RunsWell, NEW r \in Runs, reserved' = reserved,
         runs' \in [Runs -> Run], \A q \in Runs \ {r} : runs'[q] = runs[q],
         RunWell(r)', Mine(r)' \subseteq Mine(r), Unsigned(r)' \subseteq Unsigned(r)
  PROVE  RunsWell'
<1>1. \A q \in Runs \ {r} : Mine(q)' = Mine(q) /\ Unsigned(q)' = Unsigned(q)
  BY RunFrame
<1>2. \A q \in Runs : RunWell(q)'
  <2> TAKE q \in Runs
  <2>1. CASE q # r
    <3>1. runs'[q] = runs[q] /\ RunWell(q) /\ Ahead(q)' = Ahead(q)
      BY <2>1, RunFrame DEF RunsWell
    <3> QED
      BY <3>1 DEF RunWell
  <2> QED
    BY <2>1
<1>3. Apart'
  <2>1. \A q \in Runs : Mine(q)' \subseteq Mine(q)
    BY <1>1
  <2> QED
    BY <2>1 DEF RunsWell, Apart
<1>4. SignedOnce'
  <2>1. \A q \in Runs : Unsigned(q)' \subseteq Unsigned(q)
    BY <1>1
  <2> QED
    BY <2>1 DEF RunsWell, SignedOnce
<1> QED
  BY <1>2, <1>3, <1>4 DEF RunsWell


(* The runs are well after a step that does not touch them. *)
LEMMA RunsFrame ==
  ASSUME RunsWell, runs' = runs, reserved' = reserved
  PROVE  RunsWell'
<1>1. \A q \in Runs : /\ Ahead(q)' = Ahead(q) /\ Mine(q)' = Mine(q) /\ Unsigned(q)' = Unsigned(q)
  BY RunFrame
<1>2. ASSUME NEW q \in Runs
      PROVE  RunWell(q)'
  <2>1. RunWell(q) /\ Ahead(q)' = Ahead(q)
    BY <1>1 DEF RunsWell
  <2> QED
    BY <2>1 DEF RunWell
<1>3. Apart' /\ SignedOnce'
  BY <1>1 DEF RunsWell, Apart, SignedOnce
<1> QED
  BY <1>2, <1>3 DEF RunsWell

(* The rows are well after a step that touches none of them and no run.    *)
LEMMA RowsFrame ==
  ASSUME RowsWell, UNCHANGED <<status, signal, runs, reserved, created>>,
         cleared' \subseteq {f \in File : status[f] \in Settled}
  PROVE  RowsWell'
<1>1. \A q \in Runs : /\ Ahead(q)' = Ahead(q) /\ Mine(q)' = Mine(q)
                      /\ \A f, s : At(q, f, s)' <=> At(q, f, s)
  BY RunFrame
<1>2. ASSUME NEW f \in File
      PROVE  RowWell(f)'
  <2>1. RowWell(f)
    BY DEF RowsWell
  <2>2. \A q \in Runs : RowAhead(q, f) => RowAhead(q, f)'
    BY <1>1 DEF RowAhead
  <2> QED
    BY <1>1, <2>1, <2>2 DEF RowWell
<1>3. \A f \in File : signal'[f] # "none" <=> \E q \in Runs : f \in Ahead(q)'
  BY <1>1 DEF RowsWell
<1> QED
  BY <1>2, <1>3 DEF RowsWell
(* One row, of a file f that run r has ahead of it, changes, and the run   *)
(* keeps all it had ahead.                                                 *)
LEMMA RowKeeps ==
  ASSUME RowsWell, Apart, runs \in [Runs -> Run],
         NEW r \in Runs, NEW f \in Ahead(r),
         status' \in [File -> Status], signal' \in [File -> {"none", "armed", "aborted"}],
         \A g \in File \ {f} : status'[g] = status[g] /\ signal'[g] = signal[g],
         cleared' = cleared, f \in cleared => status'[f] = status[f],
         signal'[f] # "none", status'[f] \in {"pending", "uploading", "cancelled"},
         RowAhead(r, f)',
         \A q \in Runs \ {r} : runs'[q] = runs[q],
         Ahead(r)' = Ahead(r), Mine(r)' = Mine(r),
         \A g \in Ahead(r) \ {f} : RowAhead(r, g)',
         created' = created,
         ToSet(reserved') \subseteq ToSet(reserved) \cup Mine(r)
  PROVE  RowsWell'
<1>1. \A q \in Runs : Ahead(q)' = Ahead(q) /\ Mine(q)' = Mine(q)
  BY RunFrame
<1>2. \A q \in Runs : Ahead(q) \subseteq Mine(q) /\ Mine(q) \subseteq File
  BY AheadFacts
<1>3. f \in File /\ f \in Mine(r) /\ \A q \in Runs \ {r} : f \notin Ahead(q)
  BY <1>2 DEF Apart
<1>4. RowWell(f) /\ f \notin created
  <2>1. RowWell(f)
    BY <1>3 DEF RowsWell
  <2> QED
    BY <2>1 DEF RowWell, RowAhead
<1>5. cleared' \subseteq {g \in File : status'[g] \in Settled}
  BY DEF RowsWell
<1>6. \A g \in File : signal'[g] # "none" <=> \E q \in Runs : g \in Ahead(q)'
  BY <1>1 DEF RowsWell
<1>7. ASSUME NEW g \in File
      PROVE  RowWell(g)'
  <2>1. RowWell(g)
    BY DEF RowsWell
  <2>2. status'[g] = "absent" =>
          g \notin created' \cup ToSet(reserved') /\ \A q \in Runs : g \notin Mine(q)'
    <3>1. status'[g] = "absent" => g # f /\ status[g] = "absent"
      OBVIOUS
    <3> QED
      BY <1>1, <2>1, <3>1 DEF RowWell
  <2>3. g \in created' => status'[g] \in {"complete", "error"}
    BY <1>4, <2>1 DEF RowWell
  <2>4. status'[g] \in {"pending", "uploading"} => \E q \in Runs : g \in Ahead(q)'
    <3>1. CASE g = f
      BY <1>1, <3>1
    <3>2. CASE g # f
      BY <1>1, <2>1, <3>2 DEF RowWell
    <3> QED
      BY <3>1, <3>2
  <2>5. ASSUME NEW q \in Runs, g \in Ahead(q)'
        PROVE  RowAhead(q, g)'
    <3>1. CASE q = r
      BY <2>5, <3>1
    <3>2. CASE q # r
      <4>1. g # f /\ g \in Ahead(q) /\ RowAhead(q, g)
        BY <1>1, <1>3, <2>1, <2>5, <3>2 DEF RowWell
      <4>2. (At(q, g, "put")' <=> At(q, g, "put")) /\ (At(q, g, "complete")' <=> At(q, g, "complete"))
        BY <3>2, RunFrame
      <4>3. status'[g] = status[g] /\ signal'[g] = signal[g]
        BY <4>1
      <4> QED
        BY <4>1, <4>2, <4>3 DEF RowAhead
    <3> QED
      BY <3>1, <3>2
  <2> QED
    BY <2>2, <2>3, <2>4, <2>5 DEF RowWell
<1> QED
  BY <1>5, <1>6, <1>7 DEF RowsWell

-----------------------------------------------------------------------------
(* One file after the other *)

(* A run that is at a file goes on with the next: it has that file behind  *)
(* it and everything else where it was.                                    *)
LEMMA AdvanceKeeps ==
  ASSUME RunsWell, ServerWell, NEW r \in Runs, NEW f,
         runs[r].at <= Len(runs[r].live), f = runs[r].live[runs[r].at],
         runs' = Advanced(r), reserved' = reserved
  PROVE  /\ RunsWell'
         /\ f \in Ahead(r) /\ Ahead(r)' = Ahead(r) \ {f} /\ Mine(r)' \subseteq Mine(r)
         /\ runs'[r].step = "next" /\ \A q \in Runs \ {r} : runs'[q] = runs[q]
         /\ \A g \in Ahead(r) \ {f} : ~At(r, g, "put") /\ ~At(r, g, "complete")
<1> DEFINE x == runs[r]
           n == Len(x.live)
<1>1. x \in Run /\ RunWell(r)
  BY DEF RunsWell
<1>2. x.left \subseteq File /\ x.live \in Seq(File) /\ x.targets \in Seq(Blob) /\ x.at \in Nat
  BY <1>1 DEF Run
<1>3. n \in Nat /\ DOMAIN x.live = 1..n
  BY <1>2, LenProperties
<1>4. x.at \in 1..n
  BY <1>1, <1>2, <1>3 DEF RunWell
<1>5. /\ runs'[r] = [x EXCEPT !.step = "next", !.at = x.at + 1]
      /\ \A q \in Runs \ {r} : runs'[q] = runs[q]
      /\ runs' \in [Runs -> Run]
  <2>1. [x EXCEPT !.step = "next", !.at = x.at + 1] \in Run
    <3>1. x.at + 1 \in Nat
      BY <1>2
    <3> HIDE DEF x
    <3> QED
      BY <1>1, <3>1 DEF Run
  <2>2. runs' = [runs EXCEPT ![r] = [x EXCEPT !.step = "next", !.at = x.at + 1]]
    BY DEF Advanced, RunsWell
  <2> HIDE DEF x
  <2> QED
    BY <2>1, <2>2 DEF RunsWell
<1>6. /\ runs'[r].left = x.left /\ runs'[r].live = x.live /\ runs'[r].targets = x.targets
      /\ runs'[r].at = x.at + 1 /\ runs'[r].step = "next"
  BY <1>1, <1>5 DEF Run
<1>7. Mine(r)' = Mine(r) /\ Unsigned(r)' \subseteq Unsigned(r)
  BY <1>6 DEF Mine, Unsigned
<1>8. Ahead(r)' = x.left \cup {x.live[i] : i \in {j \in 1..n : j >= x.at + 1}}
  BY <1>3, <1>6 DEF Ahead
<1>9. Ahead(r) = x.left \cup {x.live[i] : i \in {j \in 1..n : j >= x.at}}
  BY <1>3 DEF Ahead
<1>10. f \in Ahead(r) /\ f \notin x.left
  BY <1>1, <1>3, <1>4, <1>9 DEF RunWell, ToSet
<1>11. \A i \in 1..n : x.live[i] = f => i = x.at
  BY <1>1, <1>3, <1>4 DEF RunWell, IsInjective
<1>12. Ahead(r)' = Ahead(r) \ {f}
  <2>1. \A i \in 1..n : (i >= x.at + 1) <=> (i >= x.at /\ i # x.at)
    BY <1>3, <1>4
  <2>2. f \notin {x.live[i] : i \in {j \in 1..n : j >= x.at + 1}}
    BY <1>11, <2>1
  <2> HIDE DEF x, n
  <2> QED
    BY <1>8, <1>9, <1>10, <2>1, <2>2
<1>13. RunWell(r)'
  <2>1. runs'[r].at \in 1..(Len(runs'[r].live) + 1)
    BY <1>3, <1>4, <1>6
  <2> HIDE DEF x
  <2> QED
    BY <1>1, <1>6, <2>1 DEF RunWell, x
<1>14. RunsWell'
  BY <1>5, <1>7, <1>13, RunKeeps
<1>15. \A g, step : At(r, g, step) => g = f
  BY DEF At
<1> QED
  BY <1>5, <1>6, <1>7, <1>10, <1>12, <1>14, <1>15

(* Run r settles the file that it is at, and goes on. *)
LEMMA SettleOneKeeps ==
  ASSUME QueueInv, NEW r \in Runs, NEW f, NEW to \in Settled,
         runs[r].at <= Len(runs[r].live), f = runs[r].live[runs[r].at],
         runs' = Advanced(r), Settle({f}, to),
         UNCHANGED <<cleared, reserved, stored>>,
         created' \subseteq created \cup {f},
         \A g \in created' \ created : status[g] = "uploading" /\ to \in {"complete", "error"}
  PROVE  QueueInv'
<1>1. RowsWell /\ RunsWell /\ ServerWell
  BY DEF QueueInv
<1>2. /\ RunsWell'
      /\ f \in Ahead(r) /\ Ahead(r)' = Ahead(r) \ {f} /\ Mine(r)' \subseteq Mine(r)
      /\ runs'[r].step = "next" /\ \A q \in Runs \ {r} : runs'[q] = runs[q]
      /\ \A g \in Ahead(r) \ {f} : ~At(r, g, "put") /\ ~At(r, g, "complete")
  BY <1>1, AdvanceKeeps
<1>3. {f} \in SUBSET Ahead(r) /\ f \in File
  BY <1>1, <1>2, AheadFacts DEF RunsWell
<1>4. RowsWell'
  BY <1>1, <1>2, <1>3, SettleKeeps DEF RunsWell, ServerWell
<1>5. ServerWell'
  BY <1>1, <1>3 DEF ServerWell, PutToOwnReservation
<1> QED
  BY <1>2, <1>4, <1>5 DEF QueueInv

(* Run r takes its next step for the file that it is at, and stays there.  *)
LEMMA StepKeeps ==
  ASSUME RunsWell, ServerWell, NEW r \in Runs, NEW step \in {"put", "complete"},
         runs[r].step \in {"next", "put"}, runs[r].at \in DOMAIN runs[r].targets,
         runs' = [runs EXCEPT ![r].step = step], reserved' = reserved
  PROVE  /\ RunsWell'
         /\ Ahead(r)' = Ahead(r) /\ Mine(r)' = Mine(r)
         /\ \A g, s : At(r, g, s)' <=> /\ s = step /\ runs[r].at <= Len(runs[r].live)
                                       /\ g = runs[r].live[runs[r].at]
         /\ \A q \in Runs \ {r} : runs'[q] = runs[q]
<1> DEFINE x == runs[r]
<1>1. x \in Run /\ RunWell(r)
  BY DEF RunsWell
<1>2. /\ runs'[r] = [x EXCEPT !.step = step]
      /\ \A q \in Runs \ {r} : runs'[q] = runs[q]
      /\ runs' \in [Runs -> Run]
  <2>1. [x EXCEPT !.step = step] \in Run
    BY <1>1 DEF Run
  <2>2. runs' = [runs EXCEPT ![r] = [x EXCEPT !.step = step]]
    BY DEF RunsWell
  <2> HIDE DEF x
  <2> QED
    BY <2>1, <2>2 DEF RunsWell
<1>3. /\ runs'[r].left = x.left /\ runs'[r].live = x.live /\ runs'[r].targets = x.targets
      /\ runs'[r].at = x.at /\ runs'[r].step = step
  BY <1>1, <1>2 DEF Run
<1>4. Mine(r)' = Mine(r) /\ Ahead(r)' = Ahead(r) /\ Unsigned(r)' \subseteq Unsigned(r)
  BY <1>3 DEF Mine, Unsigned, Ahead
<1>5. RunWell(r)'
  <2>1. x.at \in DOMAIN x.live
    BY <1>1 DEF RunWell
  <2> HIDE DEF x
  <2> QED
    BY <1>1, <1>3, <2>1 DEF RunWell, x
<1>6. RunsWell'
  BY <1>2, <1>4, <1>5, RunKeeps
<1>7. \A g, s : At(r, g, s)' <=> /\ s = step /\ x.at <= Len(x.live) /\ g = x.live[x.at]
  BY <1>3 DEF At
<1> QED
  BY <1>2, <1>4, <1>6, <1>7

(* Where a run is at a file, it has it ahead, and a place of its batch that *)
(* has an answer has the blob that was reserved for its file.              *)
LEMMA AtFacts ==
  ASSUME QueueInv, NEW r \in Runs, NEW f, NEW step, At(r, f, step)
  PROVE  /\ f \in File /\ f \in Ahead(r) /\ RowWell(f) /\ RowAhead(r, f)
         /\ runs[r].at \in DOMAIN runs[r].targets =>
              Target(r) \in Blob /\ Target(r) \in DOMAIN reserved /\ reserved[Target(r)] = f
         /\ step \in {"put", "complete"} => runs[r].at \in DOMAIN runs[r].targets
<1>1. runs \in [Runs -> Run] /\ RunWell(r) /\ runs[r].at \in Nat \ {0}
  <2>1. RunWell(r) /\ runs[r] \in Run
    BY DEF QueueInv, RunsWell
  <2> QED
    BY <2>1 DEF QueueInv, RunsWell, RunWell, Run
<1>2. f \in Ahead(r) /\ f \in File
  BY <1>1, AheadFacts
<1>3. RowWell(f) /\ RowAhead(r, f)
  BY <1>2 DEF QueueInv, RowsWell, RowWell
<1>4. ASSUME runs[r].at \in DOMAIN runs[r].targets
      PROVE  Target(r) \in Blob /\ Target(r) \in DOMAIN reserved /\ reserved[Target(r)] = f
  <2>1. Target(r) \in DOMAIN reserved /\ reserved[Target(r)] = f
    BY <1>1, <1>4 DEF RunWell, Target, TargetIndex, At
  <2>2. DOMAIN reserved = 1..Len(reserved) /\ Len(reserved) \in Nat /\ Len(reserved) <= Files
    BY LenProperties DEF QueueInv, ServerWell
  <2> QED
    BY <2>1, <2>2, QueueAssumption DEF Blob, File
<1> QED
  BY <1>1, <1>2, <1>3, <1>4 DEF RunWell, At

(* A row that is not over is not one that was cleared. *)
LEMMA OpenNotCleared ==
  ASSUME RowsWell, NEW f, status[f] \in {"absent", "pending", "uploading"}
  PROVE  f \notin cleared
BY DEF RowsWell, Settled

(* The transfer of a file begins, or there is none: the answer has no      *)
(* entry for it, or it was cancelled meanwhile.                            *)
LEMMA StartTransferKeeps ==
  ASSUME QueueInv, NEW r \in Runs, StartTransfer(r)
  PROVE  QueueInv'
<1>1. PICK f \in File :
        /\ At(r, f, "next")
        /\ CASE ~HasTarget(r) -> runs' = Advanced(r) /\ Settle({f}, "error")
             [] HasTarget(r) /\ Aborted(f) -> runs' = Advanced(r) /\ Settle({f}, "cancelled")
             [] OTHER -> /\ runs' = [runs EXCEPT ![r].step = "put"]
                         /\ Patch({f}, "uploading") /\ UNCHANGED signal
        /\ UNCHANGED <<cleared, reserved, stored, created>>
  BY DEF StartTransfer
<1>2. f \in Ahead(r) /\ RowWell(f) /\ RowAhead(r, f)
  BY <1>1, AtFacts
<1>3. CASE ~HasTarget(r)
  <2>1. runs' = Advanced(r) /\ Settle({f}, "error")
    BY <1>1, <1>3
  <2> QED
    BY <1>1, <2>1, SettleOneKeeps DEF At, Settled
<1>4. CASE HasTarget(r) /\ Aborted(f)
  <2>1. runs' = Advanced(r) /\ Settle({f}, "cancelled")
    BY <1>1, <1>4
  <2> QED
    BY <1>1, <2>1, SettleOneKeeps DEF At, Settled
<1>5. CASE HasTarget(r) /\ ~Aborted(f)
  <2>1. /\ runs' = [runs EXCEPT ![r].step = "put"]
        /\ Patch({f}, "uploading") /\ UNCHANGED signal
    BY <1>1, <1>5
  <2>2. RowsWell /\ RunsWell /\ ServerWell
    BY DEF QueueInv
  <2>3. signal[f] = "armed" /\ status[f] = "pending"
    BY <1>1, <1>2, <1>5 DEF Aborted, RowAhead, At
  <2>4. f \notin cleared
    BY <2>2, <2>3, OpenNotCleared
  <2>5. status' = [status EXCEPT ![f] = "uploading"]
    BY <2>1, <2>2, <2>4 DEF Patch, RowsWell
  <2>6. status' \in [File -> Status] /\ status'[f] = "uploading"
        /\ \A g \in File \ {f} : status'[g] = status[g]
    BY <2>2, <2>5 DEF RowsWell, Status
  <2>7. runs[r].at \in DOMAIN runs[r].targets /\ runs[r].step = "next"
    BY <1>1, <1>5 DEF HasTarget, TargetIndex, At
  <2>8. /\ RunsWell'
        /\ Ahead(r)' = Ahead(r) /\ Mine(r)' = Mine(r)
        /\ \A g, s : At(r, g, s)' <=> /\ s = "put" /\ runs[r].at <= Len(runs[r].live)
                                      /\ g = runs[r].live[runs[r].at]
        /\ \A q \in Runs \ {r} : runs'[q] = runs[q]
    BY <1>1, <2>1, <2>2, <2>7, StepKeeps
  <2>9. RowAhead(r, f)'
    <3>1. At(r, f, "put")'
      BY <1>1, <2>8 DEF At
    <3> QED
      BY <2>1, <2>3, <2>6, <3>1 DEF RowAhead
  <2>10. ASSUME NEW g \in Ahead(r) \ {f}
         PROVE  RowAhead(r, g)'
    <3>1. g \in File /\ RowAhead(r, g)
      BY <2>2, AheadFacts DEF RowsWell, RowWell, RunsWell
    <3>2. ~At(r, g, "put") /\ ~At(r, g, "complete")
      BY <1>1 DEF At
    <3>3. ~At(r, g, "put")' /\ ~At(r, g, "complete")'
      BY <1>1, <2>8 DEF At
    <3>4. status'[g] = status[g] /\ signal'[g] = signal[g]
      BY <2>1, <2>6, <3>1
    <3> QED
      BY <3>1, <3>2, <3>3, <3>4 DEF RowAhead
  <2>11. RowsWell'
    <3>1. \A g \in File \ {f} : status'[g] = status[g] /\ signal'[g] = signal[g]
      BY <2>1, <2>6
    <3>2. signal' \in [File -> {"none", "armed", "aborted"}] /\ signal'[f] # "none"
      BY <2>1, <2>2, <2>3 DEF RowsWell
    <3>3. Apart /\ runs \in [Runs -> Run] /\ ToSet(reserved') \subseteq ToSet(reserved) \cup Mine(r)
      BY <1>1, <2>2 DEF RunsWell
    <3> QED
      BY <1>1, <1>2, <2>2, <2>4, <2>6, <2>8, <2>9, <2>10, <3>1, <3>2, <3>3, RowKeeps
  <2>12. ServerWell'
    BY <1>1, <2>2 DEF ServerWell, PutToOwnReservation
  <2> QED
    BY <2>8, <2>11, <2>12 DEF QueueInv
<1> QED
  BY <1>3, <1>4, <1>5

(* The bytes of a transfer reach the blob that was reserved for its file.  *)
LEMMA BytesStoredKeeps ==
  ASSUME QueueInv, NEW r \in Runs, BytesStored(r)
  PROVE  QueueInv'
<1>1. PICK f \in File :
        /\ At(r, f, "put") /\ stored[Target(r)] = NoFile
        /\ stored' = [stored EXCEPT ![Target(r)] = f]
        /\ UNCHANGED <<status, cleared, signal, runs, reserved, created>>
  BY DEF BytesStored
<1>2. Target(r) \in Blob /\ Target(r) \in DOMAIN reserved /\ reserved[Target(r)] = f
  BY <1>1, AtFacts
<1>3. ServerWell'
  BY <1>1, <1>2 DEF QueueInv, ServerWell, PutToOwnReservation
<1>4. RowsWell' /\ RunsWell'
  <2>1. cleared' \subseteq {g \in File : status[g] \in Settled}
    BY <1>1 DEF QueueInv, RowsWell
  <2> QED
    BY <1>1, <2>1, RowsFrame, RunsFrame DEF QueueInv
<1> QED
  BY <1>3, <1>4 DEF QueueInv

(* A transfer ends: the run asks for the file to be made, or the row says  *)
(* that it failed.                                                         *)
LEMMA PutAnswerKeeps ==
  ASSUME QueueInv, NEW r \in Runs, NEW outcome, PutAnswer(r, outcome)
  PROVE  QueueInv'
<1>1. PICK f \in File :
        /\ At(r, f, "put")
        /\ IF outcome = "ok"
           THEN runs' = [runs EXCEPT ![r].step = "complete"] /\ UNCHANGED <<status, signal>>
           ELSE runs' = Advanced(r) /\ Settle({f}, "error")
        /\ UNCHANGED <<cleared, reserved, stored, created>>
  BY DEF PutAnswer
<1>2. CASE outcome # "ok"
  <2>1. runs' = Advanced(r) /\ Settle({f}, "error")
    BY <1>1, <1>2
  <2> QED
    BY <1>1, <2>1, SettleOneKeeps DEF At, Settled
<1>3. CASE outcome = "ok"
  <2>1. runs' = [runs EXCEPT ![r].step = "complete"] /\ UNCHANGED <<status, signal>>
    BY <1>1, <1>3
  <2>2. RowsWell /\ RunsWell /\ ServerWell
    BY DEF QueueInv
  <2>3. f \in Ahead(r) /\ RowAhead(r, f) /\ runs[r].at \in DOMAIN runs[r].targets
    BY <1>1, AtFacts
  <2>4. signal[f] = "armed" /\ status[f] = "uploading"
    <3>1. ~At(r, f, "complete")
      BY <1>1 DEF At
    <3> QED
      BY <1>1, <2>3, <3>1 DEF RowAhead
  <2>5. runs[r].step = "put"
    BY <1>1 DEF At
  <2>6. /\ RunsWell'
        /\ Ahead(r)' = Ahead(r) /\ Mine(r)' = Mine(r)
        /\ \A g, s : At(r, g, s)' <=> /\ s = "complete" /\ runs[r].at <= Len(runs[r].live)
                                      /\ g = runs[r].live[runs[r].at]
        /\ \A q \in Runs \ {r} : runs'[q] = runs[q]
    BY <1>1, <2>1, <2>2, <2>3, <2>5, StepKeeps
  <2>7. RowAhead(r, f)'
    <3>1. At(r, f, "complete")' /\ ~At(r, f, "put")'
      BY <1>1, <2>6 DEF At
    <3> QED
      BY <2>1, <2>4, <3>1 DEF RowAhead
  <2>8. ASSUME NEW g \in Ahead(r) \ {f}
        PROVE  RowAhead(r, g)'
    <3>1. RowAhead(r, g)
      BY <2>2, AheadFacts DEF RowsWell, RowWell, RunsWell
    <3>2. ~At(r, g, "put") /\ ~At(r, g, "complete")
      BY <1>1 DEF At
    <3>3. ~At(r, g, "put")' /\ ~At(r, g, "complete")'
      BY <1>1, <2>6 DEF At
    <3> QED
      BY <2>1, <3>1, <3>2, <3>3 DEF RowAhead
  <2>9. RowsWell'
    <3>1. /\ status' \in [File -> Status] /\ signal' \in [File -> {"none", "armed", "aborted"}]
          /\ \A g \in File \ {f} : status'[g] = status[g] /\ signal'[g] = signal[g]
          /\ status'[f] = status[f] /\ signal'[f] # "none"
          /\ status'[f] \in {"pending", "uploading", "cancelled"}
      BY <2>1, <2>2, <2>4 DEF RowsWell
    <3>2. Apart /\ runs \in [Runs -> Run] /\ ToSet(reserved') \subseteq ToSet(reserved) \cup Mine(r)
      BY <1>1, <2>2 DEF RunsWell
    <3> QED
      BY <1>1, <2>2, <2>3, <2>6, <2>7, <2>8, <3>1, <3>2, RowKeeps
  <2>10. ServerWell'
    BY <1>1, <2>2 DEF ServerWell, PutToOwnReservation
  <2> QED
    BY <2>6, <2>9, <2>10 DEF QueueInv
<1> QED
  BY <1>2, <1>3

(* Complete is answered, made the file or not: the row of a file that is   *)
(* at complete says uploading, whatever was clicked, so the file's row     *)
(* ends as complete or as failed.                                          *)
LEMMA CompleteAnswerKeeps ==
  ASSUME QueueInv, NEW r \in Runs, NEW outcome, CompleteAnswer(r, outcome)
  PROVE  QueueInv'
<1> DEFINE to == IF outcome = "ok" THEN "complete" ELSE "error"
<1>1. PICK f \in File :
        /\ At(r, f, "complete")
        /\ created' = created \/ created' = created \cup {f}
        /\ runs' = Advanced(r)
        /\ Settle({f}, to)
        /\ UNCHANGED <<cleared, reserved, stored>>
  BY DEF CompleteAnswer
<1>2. status[f] = "uploading"
  <2>1. RowAhead(r, f) /\ ~At(r, f, "put")
    BY <1>1, AtFacts DEF At
  <2> QED
    BY <1>1, <2>1 DEF RowAhead
<1>3. to \in Settled /\ to \in {"complete", "error"}
  BY DEF Settled
<1> HIDE DEF to
<1>4. runs[r].at <= Len(runs[r].live) /\ f = runs[r].live[runs[r].at]
  BY <1>1 DEF At
<1> QED
  BY <1>1, <1>2, <1>3, <1>4, SettleOneKeeps

-----------------------------------------------------------------------------
(* The user *)

(* A cancel of a transfer that is under way settles the row and moves the  *)
(* run on; any other reaches the controller, and the row if it is waiting. *)
LEMMA CancelKeeps ==
  ASSUME QueueInv, NEW f \in File, Cancel(f)
  PROVE  QueueInv'
<1>1. CASE \E r \in Runs : At(r, f, "put") /\ runs' = Advanced(r) /\ Settle({f}, "cancelled")
  <2>1. PICK r \in Runs : At(r, f, "put") /\ runs' = Advanced(r) /\ Settle({f}, "cancelled")
    BY <1>1
  <2> QED
    BY <2>1, SettleOneKeeps DEF At, Settled, Cancel
<1>2. CASE /\ ~\E r \in Runs : At(r, f, "put")
           /\ signal' = [signal EXCEPT ![f] = "aborted"]
           /\ IF status[f] = "pending" THEN Patch({f}, "cancelled") ELSE UNCHANGED status
           /\ UNCHANGED runs
  <2>1. RowsWell /\ RunsWell /\ ServerWell
    BY DEF QueueInv
  <2>2. status[f] \in {"pending", "uploading"} /\ UNCHANGED <<runs, cleared, reserved, stored, created>>
    BY <1>2 DEF Cancel
  <2>3. PICK r \in Runs : f \in Ahead(r)
    BY <2>1, <2>2 DEF RowsWell, RowWell
  <2>4. RowAhead(r, f) /\ ~At(r, f, "put")
    BY <1>2, <2>1, <2>3 DEF RowsWell, RowWell
  <2>5. f \notin cleared
    BY <2>1, <2>2, OpenNotCleared
  <2>6. status' = [status EXCEPT ![f] = IF status[f] = "pending" THEN "cancelled" ELSE status[f]]
    BY <1>2, <2>1, <2>5 DEF Patch, RowsWell
  <2>7. /\ status' \in [File -> Status] /\ signal' \in [File -> {"none", "armed", "aborted"}]
        /\ \A g \in File \ {f} : status'[g] = status[g] /\ signal'[g] = signal[g]
        /\ signal'[f] = "aborted"
        /\ status'[f] = IF status[f] = "pending" THEN "cancelled" ELSE status[f]
    BY <1>2, <2>1, <2>6 DEF RowsWell, Status, Settled
  <2>8. \A q \in Runs : /\ Ahead(q)' = Ahead(q) /\ Mine(q)' = Mine(q)
                        /\ \A g, s : At(q, g, s)' <=> At(q, g, s)
    BY <2>2, RunFrame
  <2>9. RowAhead(r, f)'
    BY <2>2, <2>4, <2>7, <2>8 DEF RowAhead
  <2>10. ASSUME NEW g \in Ahead(r) \ {f}
         PROVE  RowAhead(r, g)'
    <3>1. RowAhead(r, g) /\ g \in File
      BY <2>1, AheadFacts DEF RowsWell, RowWell, RunsWell
    <3>2. status'[g] = status[g] /\ signal'[g] = signal[g]
      BY <2>7, <3>1
    <3> QED
      BY <2>8, <3>1, <3>2 DEF RowAhead
  <2>11. RowsWell'
    <3>1. /\ signal'[f] # "none" /\ status'[f] \in {"pending", "uploading", "cancelled"}
          /\ cleared' = cleared /\ created' = created /\ f \notin cleared
      BY <2>2, <2>5, <2>7
    <3>2. /\ Apart /\ runs \in [Runs -> Run] /\ ToSet(reserved') \subseteq ToSet(reserved) \cup Mine(r)
          /\ \A q \in Runs \ {r} : runs'[q] = runs[q]
      BY <2>1, <2>2 DEF RunsWell
    <3>3. Ahead(r)' = Ahead(r) /\ Mine(r)' = Mine(r)
      BY <2>8
    <3> QED
      BY <2>1, <2>3, <2>7, <2>9, <2>10, <3>1, <3>2, <3>3, RowKeeps
  <2>12. RunsWell' /\ ServerWell'
    BY <2>1, <2>2, RunsFrame DEF ServerWell, PutToOwnReservation
  <2> QED
    BY <2>11, <2>12 DEF QueueInv
<1> QED
  BY <1>1, <1>2 DEF Cancel

(* Clearing takes finished rows off the list, and they are in no run. *)
LEMMA ClearFinishedKeeps ==
  ASSUME QueueInv, ClearFinished
  PROVE  QueueInv'
<1>1. /\ cleared' = {f \in File : status[f] \in Settled}
      /\ UNCHANGED <<status, signal, runs, reserved, stored, created>>
  BY DEF ClearFinished
<1>2. RowsWell' /\ RunsWell'
  BY <1>1, RowsFrame, RunsFrame DEF QueueInv
<1>3. ServerWell'
  BY <1>1 DEF QueueInv, ServerWell, PutToOwnReservation
<1> QED
  BY <1>2, <1>3 DEF QueueInv

(* A drop: its files were in no run, and nothing was reserved for them.    *)
LEMMA EnqueueKeeps ==
  ASSUME QueueInv, NEW r \in Runs, NEW last \in File, NEW refused, Enqueue(r, last, refused)
  PROVE  QueueInv'
<1> DEFINE dropped == {f \in Undropped : f <= last}
           accepted == dropped \ refused
<1>1. /\ runs[r] = Unused
      /\ refused \subseteq dropped
      /\ status' = [f \in File |-> IF f \in refused THEN "error"
                                   ELSE IF f \in dropped THEN "pending" ELSE status[f]]
      /\ signal' = [f \in File |-> IF f \in accepted THEN "armed" ELSE signal[f]]
      /\ runs' = [runs EXCEPT ![r].left = accepted,
                              ![r].step = IF accepted = {} THEN "done" ELSE "next"]
      /\ UNCHANGED <<cleared, reserved, stored, created>>
  BY DEF Enqueue, Refusable
<1>2. RowsWell /\ RunsWell /\ ServerWell
  BY DEF QueueInv
<1>3. \A f \in dropped : f \in File /\ status[f] = "absent"
  BY DEF Undropped
<1> HIDE DEF dropped
<1>4. \A f \in dropped : f \notin created \cup ToSet(reserved) /\ \A q \in Runs : f \notin Mine(q)
  BY <1>2, <1>3 DEF RowsWell, RowWell
<1>5. /\ runs'[r] = [left |-> accepted, live |-> <<>>, targets |-> <<>>, at |-> 1,
                     step |-> IF accepted = {} THEN "done" ELSE "next"]
      /\ \A q \in Runs \ {r} : runs'[q] = runs[q]
      /\ runs' \in [Runs -> Run]
  <2> DEFINE x == [left |-> accepted, live |-> <<>>, targets |-> <<>>, at |-> 1,
                   step |-> IF accepted = {} THEN "done" ELSE "next"]
  <2>1. x \in Run
    BY <1>3 DEF Run
  <2>2. runs' = [runs EXCEPT ![r] = x]
    BY <1>1, <1>2 DEF RunsWell, Unused
  <2> HIDE DEF x
  <2>3. runs'[r] = x /\ \A q \in Runs \ {r} : runs'[q] = runs[q]
    BY <1>2, <2>2 DEF RunsWell
  <2>4. runs' \in [Runs -> Run]
    BY <1>2, <2>1, <2>2 DEF RunsWell
  <2> QED
    BY <2>3, <2>4 DEF x
<1>6. /\ runs'[r].left = accepted /\ runs'[r].live = <<>> /\ runs'[r].targets = <<>>
      /\ runs'[r].at = 1 /\ runs'[r].step = IF accepted = {} THEN "done" ELSE "next"
  BY <1>5
<1>7. Ahead(r)' = accepted /\ Mine(r)' = accepted /\ Unsigned(r)' = accepted
  BY <1>6 DEF Ahead, Mine, Unsigned, ToSet
<1>8. Ahead(r) = {} /\ Mine(r) = {}
  BY <1>1 DEF Ahead, Mine, Unused, ToSet
<1>9. \A q \in Runs \ {r} : Ahead(q)' = Ahead(q) /\ Mine(q)' = Mine(q) /\ Unsigned(q)' = Unsigned(q)
  BY <1>5, RunFrame
<1>10. \A q \in Runs : Ahead(q) \subseteq Mine(q)
  BY <1>2, AheadFacts DEF RunsWell
<1>11. RunsWell'
  <2>1. RunWell(r)'
    <3>1. Len(<<>>) = 0 /\ IsInjective(<<>>)
      BY DEF IsInjective
    <3> QED
      BY <1>6, <1>7, <3>1 DEF RunWell, ToSet
  <2>2. ASSUME NEW q \in Runs \ {r}
        PROVE  RunWell(q)'
    <3>1. runs'[q] = runs[q] /\ RunWell(q) /\ Ahead(q)' = Ahead(q)
      BY <1>2, <1>5, <1>9 DEF RunsWell
    <3> QED
      BY <1>1, <3>1 DEF RunWell
  <2>3. Apart'
    <3>1. \A q \in Runs \ {r} : Mine(q)' \cap Mine(r)' = {}
      BY <1>4, <1>7, <1>9
    <3> QED
      BY <1>2, <1>9, <3>1 DEF RunsWell, Apart
  <2>4. SignedOnce'
    <3>1. \A q \in Runs : Unsigned(q)' \cap ToSet(reserved) = {}
      BY <1>2, <1>4, <1>7, <1>9 DEF RunsWell, SignedOnce
    <3> QED
      BY <1>1, <1>2, <3>1 DEF RunsWell, SignedOnce
  <2> QED
    BY <1>5, <2>1, <2>2, <2>3, <2>4 DEF RunsWell
<1>12. RowsWell'
  <2>1. status' \in [File -> Status] /\ signal' \in [File -> {"none", "armed", "aborted"}]
    BY <1>1, <1>2 DEF RowsWell, Status, Settled
  <2>2. cleared' \subseteq {f \in File : status'[f] \in Settled}
    <3>1. \A f \in cleared : f \in File /\ status[f] \in Settled /\ f \notin dropped
      BY <1>2, <1>3 DEF RowsWell, Settled
    <3>2. \A f \in cleared : f \notin refused /\ status'[f] = status[f]
      BY <1>1, <3>1
    <3> QED
      BY <1>1, <3>1, <3>2
  <2>3. \A f \in File : f \notin dropped =>
          /\ status'[f] = status[f] /\ signal'[f] = signal[f]
          /\ \A q \in Runs : (f \in Ahead(q)' <=> f \in Ahead(q)) /\ (f \in Mine(q)' <=> f \in Mine(q))
    BY <1>1, <1>7, <1>8, <1>9
  <2>4. \A f \in File : f \in dropped =>
          /\ f \in refused => status'[f] = "error" /\ signal'[f] = signal[f]
          /\ f \notin refused => status'[f] = "pending" /\ signal'[f] = "armed"
          /\ \A q \in Runs : (f \in Ahead(q)' <=> q = r /\ f \notin refused)
          /\ \A q \in Runs : f \notin Ahead(q)
    BY <1>1, <1>4, <1>7, <1>9, <1>10
  <2>5. \A f \in File : signal'[f] # "none" <=> \E q \in Runs : f \in Ahead(q)'
    BY <1>2, <2>3, <2>4 DEF RowsWell
  <2>6. ASSUME NEW f \in File
        PROVE  RowWell(f)'
    <3>1. RowWell(f)
      BY <1>2 DEF RowsWell
    <3>2. \A q \in Runs \ {r} : \A s : At(q, f, s)' <=> At(q, f, s)
      BY <1>5, RunFrame
    <3>3. ~At(r, f, "put")' /\ ~At(r, f, "complete")' /\ ~At(r, f, "put") /\ ~At(r, f, "complete")
      BY <1>1, <1>6 DEF At, Unused
    <3>4. CASE f \in dropped
      <4>1. f \notin created' \cup ToSet(reserved')
        BY <1>1, <1>4, <3>4
      <4> QED
        BY <2>4, <3>3, <3>4, <4>1 DEF RowWell, RowAhead
    <3>5. CASE f \notin dropped
      <4>1. ASSUME NEW q \in Runs, f \in Ahead(q)'
            PROVE  RowAhead(q, f)'
        <5>1. RowAhead(q, f)
          BY <2>3, <3>1, <3>5, <4>1 DEF RowWell
        <5>2. /\ At(q, f, "put")' <=> At(q, f, "put")
              /\ At(q, f, "complete")' <=> At(q, f, "complete")
          BY <3>2, <3>3
        <5> QED
          BY <2>3, <3>5, <5>1, <5>2 DEF RowAhead
      <4> QED
        BY <1>1, <2>3, <3>1, <3>5, <4>1 DEF RowWell
    <3> QED
      BY <3>4, <3>5
  <2> QED
    BY <2>1, <2>2, <2>5, <2>6 DEF RowsWell
<1>13. ServerWell'
  BY <1>1, <1>2 DEF ServerWell, PutToOwnReservation
<1> QED
  BY <1>11, <1>12, <1>13 DEF QueueInv

-----------------------------------------------------------------------------
(* Batches *)

(* A run between two batches has nothing ahead but what is not batched.    *)
LEMMA BatchDoneFacts ==
  ASSUME RunsWell, NEW r \in Runs, BatchDone(r)
  PROVE  /\ Ahead(r) = runs[r].left /\ runs[r] \in Run
         /\ \A f, step : ~At(r, f, step)
<1>1. runs[r] \in Run /\ runs[r].live \in Seq(File) /\ runs[r].at \in Nat
  BY DEF RunsWell, Run
<1>2. DOMAIN runs[r].live = 1..Len(runs[r].live) /\ Len(runs[r].live) \in Nat
  BY <1>1, LenProperties
<1>3. \A j \in DOMAIN runs[r].live : ~(j >= runs[r].at)
  BY <1>1, <1>2 DEF BatchDone
<1>4. \A f, step : ~At(r, f, step)
  BY <1>1, <1>2 DEF BatchDone, At
<1> QED
  BY <1>1, <1>3, <1>4 DEF Ahead

(* No row changes when none is settled. *)
LEMMA SettleNone ==
  ASSUME RowsWell, UNCHANGED <<status, signal>>
  PROVE  Settle({}, "error")
BY DEF RowsWell, Settle, Patch, Release

(* A run with nothing left ends. *)
LEMMA FinishKeeps ==
  ASSUME QueueInv, NEW r \in Runs, Finish(r)
  PROVE  QueueInv'
<1> DEFINE x == runs[r]
<1>1. /\ BatchDone(r) /\ x.left = {}
      /\ runs' = [runs EXCEPT ![r].step = "done"]
      /\ UNCHANGED <<status, cleared, signal, reserved, stored, created>>
  BY DEF Finish
<1>2. RowsWell /\ RunsWell /\ ServerWell /\ RunWell(r) /\ runs \in [Runs -> Run]
  BY DEF QueueInv, RunsWell
<1>3. Ahead(r) = {} /\ x \in Run /\ \A f, step : ~At(r, f, step)
  BY <1>1, <1>2, BatchDoneFacts
<1>4. /\ runs'[r] = [x EXCEPT !.step = "done"]
      /\ \A q \in Runs \ {r} : runs'[q] = runs[q]
      /\ runs' \in [Runs -> Run]
  <2>1. [x EXCEPT !.step = "done"] \in Run
    BY <1>3 DEF Run
  <2>2. runs' = [runs EXCEPT ![r] = [x EXCEPT !.step = "done"]]
    BY <1>1, <1>2
  <2> HIDE DEF x
  <2> QED
    BY <1>2, <2>1, <2>2
<1>5. /\ runs'[r].left = x.left /\ runs'[r].live = x.live /\ runs'[r].targets = x.targets
      /\ runs'[r].at = x.at /\ runs'[r].step = "done"
  BY <1>3, <1>4 DEF Run
<1>6. Mine(r)' = Mine(r) /\ Ahead(r)' = Ahead(r) /\ Unsigned(r)' \subseteq Unsigned(r)
  BY <1>5 DEF Mine, Unsigned, Ahead
<1>7. RunWell(r)'
  <2> HIDE DEF x
  <2> QED
    BY <1>1, <1>2, <1>3, <1>5, <1>6 DEF RunWell, x
<1>8. RunsWell'
  BY <1>1, <1>2, <1>4, <1>6, <1>7, RunKeeps
<1>9. RowsWell'
  <2>1. Settle({}, "error") /\ "error" \in Settled /\ Apart /\ created \subseteq File
    BY <1>1, <1>2, SettleNone DEF Settled, RunsWell, ServerWell
  <2>2. {} \in SUBSET Ahead(r) /\ Ahead(r)' = Ahead(r) \ {} /\ runs'[r].step \notin {"put", "complete"}
    BY <1>5, <1>6
  <2> QED
    BY <1>1, <1>2, <1>3, <1>4, <1>6, <2>1, <2>2, SettleKeeps
<1>10. ServerWell'
  BY <1>1, <1>2 DEF ServerWell, PutToOwnReservation
<1> QED
  BY <1>8, <1>9, <1>10 DEF QueueInv

(* The next batch: what was cancelled while it waited is settled, the rest *)
(* is to be signed, in order.                                              *)
LEMMA NextBatchKeeps ==
  ASSUME QueueInv, NEW r \in Runs, NextBatch(r)
  PROVE  QueueInv'
<1> DEFINE x == runs[r]
           batch == Chunk(x.left)
           live == {f \in batch : Wanted(f)}
           step == IF live = {} THEN "next" ELSE "presign"
           y == [left |-> x.left \ batch, live |-> InOrder(live), targets |-> <<>>, at |-> 1,
                 step |-> step]
<1>1. /\ BatchDone(r)
      /\ Settle(batch \ live, "cancelled")
      /\ runs' = [runs EXCEPT ![r] = y]
      /\ UNCHANGED <<cleared, reserved, stored, created>>
  BY DEF NextBatch
<1>2. RowsWell /\ RunsWell /\ ServerWell /\ RunWell(r) /\ runs \in [Runs -> Run]
  BY DEF QueueInv, RunsWell
<1>3. Ahead(r) = x.left /\ x \in Run /\ \A f, s : ~At(r, f, s)
  BY <1>1, <1>2, BatchDoneFacts
<1>4. x.left \subseteq File /\ batch \subseteq x.left /\ live \subseteq batch
  BY <1>3 DEF Run, Chunk
<1>5. step \in {"next", "presign"} /\ (step = "presign" => live # {})
  OBVIOUS
<1> HIDE DEF batch, live, step
<1>6. InOrder(live) \in Seq(File) /\ IsInjective(InOrder(live)) /\ ToSet(InOrder(live)) = live
  BY <1>4, InOrderLists
<1>7. y \in Run
  BY <1>4, <1>5, <1>6 DEF Run
<1>8. /\ runs'[r] = y /\ \A q \in Runs \ {r} : runs'[q] = runs[q]
      /\ runs' \in [Runs -> Run]
  <2> HIDE DEF y
  <2> QED
    BY <1>1, <1>2, <1>7
<1>9. /\ runs'[r].left = x.left \ batch /\ runs'[r].live = InOrder(live)
      /\ runs'[r].targets = <<>> /\ runs'[r].at = 1 /\ runs'[r].step = step
  BY <1>8
<1>10. /\ DOMAIN InOrder(live) = 1..Len(InOrder(live)) /\ Len(InOrder(live)) \in Nat
  BY <1>6, LenProperties
<1>11. Mine(r)' = (x.left \ batch) \cup live /\ Unsigned(r)' \subseteq (x.left \ batch) \cup live
  BY <1>6, <1>9 DEF Mine, Unsigned
<1>12. Ahead(r)' = (x.left \ batch) \cup live
  <2>1. {InOrder(live)[i] : i \in {j \in DOMAIN InOrder(live) : j >= 1}} = ToSet(InOrder(live))
    BY <1>10 DEF ToSet
  <2> QED
    BY <1>6, <1>9, <2>1 DEF Ahead
<1>13. RunWell(r)'
  <2>1. step = "presign" => 1 \in DOMAIN InOrder(live)
    <3>1. live # {} => DOMAIN InOrder(live) # {}
      BY <1>6 DEF ToSet
    <3> QED
      BY <1>5, <1>10, <3>1
  <2>2. 1 \in 1..(Len(InOrder(live)) + 1)
    BY <1>10
  <2>3. (x.left \ batch) \cap live = {}
    BY <1>4
  <2> HIDE DEF x, y
  <2> QED
    BY <1>5, <1>6, <1>9, <2>1, <2>2, <2>3 DEF RunWell
<1>14. RunsWell'
  <2>1. Mine(r)' \subseteq Mine(r) /\ Unsigned(r)' \subseteq Unsigned(r)
    BY <1>4, <1>11 DEF Mine, Unsigned
  <2> QED
    BY <1>1, <1>2, <1>8, <1>13, <2>1, RunKeeps
<1>15. RowsWell'
  <2>1. /\ batch \ live \in SUBSET Ahead(r) /\ Ahead(r)' = Ahead(r) \ (batch \ live)
        /\ Mine(r)' \subseteq Mine(r)
    BY <1>3, <1>4, <1>11, <1>12 DEF Mine
  <2>2. "cancelled" \in Settled /\ Apart /\ created \subseteq File
        /\ runs'[r].step \notin {"put", "complete"}
    BY <1>2, <1>5, <1>9 DEF Settled, RunsWell, ServerWell
  <2> HIDE DEF x, y
  <2> QED
    BY <1>1, <1>2, <1>3, <1>8, <2>1, <2>2, SettleKeeps
<1>16. ServerWell'
  BY <1>1, <1>2 DEF ServerWell, PutToOwnReservation
<1> QED
  BY <1>14, <1>15, <1>16 DEF QueueInv

(* A batch is reserved: its files get blobs of their own, in order, after  *)
(* those there are, and storage holds nothing in these.                    *)
LEMMA Reserves ==
  ASSUME RunsWell, ServerWell, NEW r \in Runs, runs[r].step = "presign",
         reserved' = reserved \o runs[r].live, UNCHANGED <<stored, created>>
  PROVE  /\ ServerWell' /\ IsInjective(reserved')
         /\ ToSet(reserved') = ToSet(reserved) \cup ToSet(runs[r].live)
         /\ \A b \in DOMAIN reserved : b \in DOMAIN reserved' /\ reserved'[b] = reserved[b]
         /\ \A i \in DOMAIN runs[r].live :
              /\ Len(reserved) + i \in DOMAIN reserved' /\ Len(reserved) + i \in Blob
              /\ reserved'[Len(reserved) + i] = runs[r].live[i]
<1> DEFINE s == reserved
           t == runs[r].live
           m == Len(s)
           n == Len(t)
<1>1. s \in Seq(File) /\ t \in Seq(File)
  BY DEF ServerWell, RunsWell, Run
<1>2. DOMAIN s = 1..m /\ DOMAIN t = 1..n /\ m \in Nat /\ n \in Nat
  BY <1>1, LenProperties
<1>3. IsInjective(s) /\ IsInjective(t) /\ ToSet(t) \cap ToSet(s) = {}
  BY DEF RunsWell, RunWell, SignedOnce, Unsigned
<1>4. /\ reserved' \in Seq(File) /\ Len(reserved') = m + n
      /\ \A i \in 1..m + n : reserved'[i] = IF i <= m THEN s[i] ELSE t[i - m]
  <2> HIDE DEF s, t
  <2>1. reserved' = s \o t
    BY DEF s, t
  <2> QED
    BY <1>1, <2>1, ConcatProperties
<1>5. DOMAIN reserved' = 1..m + n
  BY <1>4, LenProperties
<1> HIDE DEF s, t, m, n
<1>6. \A b \in 1..m : b \in 1..m + n /\ reserved'[b] = s[b]
  BY <1>2, <1>4
<1>7. \A i \in 1..n : m + i \in 1..m + n /\ reserved'[m + i] = t[i]
  <2> TAKE i \in 1..n
  <2>1. m + i \in 1..m + n /\ ~(m + i <= m) /\ (m + i) - m = i
    BY <1>2
  <2> QED
    BY <1>4, <2>1
<1>8. \A b \in 1..m + n : b \in 1..m \/ \E i \in 1..n : b = m + i
  <2> TAKE b \in 1..m + n
  <2>1. CASE b <= m
    BY <1>2, <2>1
  <2>2. CASE ~(b <= m)
    <3>1. b - m \in 1..n /\ b = m + (b - m)
      BY <1>2, <2>2
    <3> QED
      BY <3>1
  <2> QED
    BY <2>1, <2>2
<1>9. ToSet(reserved') = ToSet(s) \cup ToSet(t)
  <2>1. ASSUME NEW b \in 1..m + n
        PROVE  reserved'[b] \in ToSet(s) \cup ToSet(t)
    <3>1. CASE b \in 1..m
      BY <1>2, <1>6, <3>1 DEF ToSet
    <3>2. CASE b \notin 1..m
      <4>1. PICK i \in 1..n : b = m + i
        BY <1>8, <3>2
      <4>2. reserved'[b] = t[i]
        BY <1>7, <4>1
      <4> QED
        BY <1>2, <4>2 DEF ToSet
    <3> QED
      BY <3>1, <3>2
  <2>2. ASSUME NEW b \in 1..m
        PROVE  s[b] \in ToSet(reserved')
    BY <1>5, <1>6 DEF ToSet
  <2>3. ASSUME NEW i \in 1..n
        PROVE  t[i] \in ToSet(reserved')
    BY <1>5, <1>7 DEF ToSet
  <2>4. /\ ToSet(reserved') = {reserved'[b] : b \in 1..m + n}
        /\ ToSet(s) = {s[b] : b \in 1..m} /\ ToSet(t) = {t[i] : i \in 1..n}
    BY <1>2, <1>5 DEF ToSet
  <2>5. ToSet(reserved') \subseteq ToSet(s) \cup ToSet(t)
    <3> SUFFICES ASSUME NEW f \in ToSet(reserved') PROVE f \in ToSet(s) \cup ToSet(t)
      OBVIOUS
    <3>1. PICK b \in 1..m + n : f = reserved'[b]
      BY <2>4
    <3> QED
      BY <2>1, <3>1
  <2>6. ToSet(s) \subseteq ToSet(reserved')
    BY <2>2, <2>4
  <2>7. ToSet(t) \subseteq ToSet(reserved')
    BY <2>3, <2>4
  <2> QED
    BY <2>5, <2>6, <2>7
<1>10. \A i \in 1..m, j \in 1..n : s[i] # t[j]
  BY <1>2, <1>3 DEF ToSet
<1>11. \A b, c \in 1..m + n : reserved'[b] = reserved'[c] => b = c
  <2> TAKE b, c \in 1..m + n
  <2>1. CASE b \in 1..m /\ c \in 1..m
    BY <1>2, <1>3, <1>6, <2>1 DEF IsInjective
  <2>2. CASE b \in 1..m /\ c \notin 1..m
    <3>1. PICK j \in 1..n : c = m + j
      BY <1>8, <2>2
    <3>2. reserved'[b] = s[b] /\ reserved'[c] = t[j]
      BY <1>6, <1>7, <2>2, <3>1
    <3> QED
      BY <1>10, <2>2, <3>2
  <2>3. CASE b \notin 1..m /\ c \in 1..m
    <3>1. PICK i \in 1..n : b = m + i
      BY <1>8, <2>3
    <3>2. reserved'[b] = t[i] /\ reserved'[c] = s[c]
      BY <1>6, <1>7, <2>3, <3>1
    <3> QED
      BY <1>10, <2>3, <3>2
  <2>4. CASE b \notin 1..m /\ c \notin 1..m
    <3>1. PICK i \in 1..n, j \in 1..n : b = m + i /\ c = m + j
      BY <1>8, <2>4
    <3>2. t[i] = t[j] => i = j
      BY <1>2, <1>3 DEF IsInjective
    <3> QED
      BY <1>7, <3>1, <3>2
  <2> QED
    BY <2>1, <2>2, <2>3, <2>4
<1>12. IsInjective(reserved')
  BY <1>5, <1>11 DEF IsInjective
<1>13. m + n <= Files
  <2>1. IsFiniteSet(1..m + n) /\ Cardinality(1..m + n) = m + n
    BY <1>2, FS_Interval
  <2>2. IsFiniteSet(File) /\ Cardinality(File) = Files
    BY QueueAssumption, FS_Interval DEF File
  <2>3. reserved' \in [1..m + n -> File]
    BY <1>4, LenProperties
  <2>4. reserved' \in Injection(1..m + n, File)
    BY <1>12, <2>3 DEF Injection
  <2> QED
    BY <2>1, <2>2, <2>4, FS_Injection
<1>14. \A i \in 1..n : m + i \in Blob
  BY <1>2, <1>13, QueueAssumption DEF Blob, File
<1>15. ServerWell'
  <2>1. PutToOwnReservation'
    BY <1>2, <1>5, <1>6 DEF ServerWell, PutToOwnReservation, s
  <2> QED
    BY <1>4, <1>13, <2>1 DEF ServerWell
<1> QED
  BY <1>2, <1>5, <1>6, <1>7, <1>9, <1>12, <1>14, <1>15 DEF s, t, m, n

(* Presign is answered.  All of the batch is reserved or nothing is; if    *)
(* the answer is lost or a refusal, every row of the batch fails, also one *)
(* that was cancelled meanwhile.                                           *)
LEMMA PresignAnswerKeeps ==
  ASSUME QueueInv, NEW r \in Runs, NEW outcome, PresignAnswer(r, outcome)
  PROVE  QueueInv'
<1> DEFINE x == runs[r]
<1>1. /\ x.step = "presign"
      /\ reserved' = IF outcome = "refused" THEN reserved ELSE reserved \o x.live
      /\ IF outcome = "ok"
         THEN /\ runs' = [runs EXCEPT ![r].step = "next",
                            ![r].targets = [i \in DOMAIN x.live |-> Len(reserved) + i]]
              /\ UNCHANGED <<status, signal>>
         ELSE /\ runs' = NextAfterFailure(r)
              /\ Settle(ToSet(x.live), "error")
      /\ UNCHANGED <<cleared, stored, created>>
  BY DEF PresignAnswer
<1>2. RowsWell /\ RunsWell /\ ServerWell /\ RunWell(r) /\ runs \in [Runs -> Run] /\ x \in Run
  BY DEF QueueInv, RunsWell
<1>3. x.left \subseteq File /\ x.live \in Seq(File)
  BY <1>2 DEF Run
<1>4. x.at = 1 /\ 1 \in DOMAIN x.live /\ x.targets = <<>> /\ x.left \cap ToSet(x.live) = {}
  BY <1>1, <1>2 DEF RunWell
<1>5. DOMAIN x.live = 1..Len(x.live) /\ Len(x.live) \in Nat
  BY <1>3, LenProperties
<1>6. Ahead(r) = x.left \cup ToSet(x.live) /\ Mine(r) = x.left \cup ToSet(x.live)
  <2>1. {x.live[i] : i \in {j \in DOMAIN x.live : j >= 1}} = ToSet(x.live)
    BY <1>5 DEF ToSet
  <2> QED
    BY <1>4, <2>1 DEF Ahead, Mine
<1>7. Unsigned(r) = x.left \cup ToSet(x.live)
  BY <1>1 DEF Unsigned
<1>8. \A f : ~At(r, f, "put") /\ ~At(r, f, "complete")
  BY <1>1 DEF At
(* What is reserved afterwards, whatever the answer. *)
<1>9. /\ ServerWell' /\ IsInjective(reserved')
      /\ ToSet(reserved') \subseteq ToSet(reserved) \cup ToSet(x.live)
      /\ \A b \in DOMAIN reserved : b \in DOMAIN reserved' /\ reserved'[b] = reserved[b]
  <2>1. CASE outcome = "refused"
    <3>1. reserved' = reserved
      BY <1>1, <2>1
    <3> QED
      BY <1>1, <1>2, <3>1 DEF ServerWell, PutToOwnReservation, RunsWell, SignedOnce
  <2>2. CASE outcome # "refused"
    <3>1. reserved' = reserved \o x.live
      BY <1>1, <2>2
    <3> QED
      BY <1>1, <1>2, <3>1, Reserves
  <2> QED
    BY <2>1, <2>2
(* The run afterwards. *)
<1>10. /\ \A q \in Runs \ {r} : runs'[q] = runs[q]
       /\ runs' \in [Runs -> Run] /\ RunWell(r)'
       /\ runs'[r].left = x.left /\ runs'[r].step = "next"
       /\ runs'[r].live = IF outcome = "ok" THEN x.live ELSE <<>>
       /\ runs'[r].at = x.at
  <2>1. CASE outcome = "ok"
    <3> DEFINE targets == [i \in DOMAIN x.live |-> Len(reserved) + i]
               y == [x EXCEPT !.step = "next", !.targets = targets]
    <3>1. reserved' = reserved \o x.live /\ runs' = [runs EXCEPT ![r] = y]
      BY <1>1, <1>2, <2>1
    <3>2. \A i \in DOMAIN x.live :
            /\ Len(reserved) + i \in DOMAIN reserved' /\ Len(reserved) + i \in Blob
            /\ reserved'[Len(reserved) + i] = x.live[i]
      BY <1>1, <1>2, <3>1, Reserves
    <3>3. DOMAIN targets = DOMAIN x.live /\ \A i \in DOMAIN x.live : targets[i] = Len(reserved) + i
      OBVIOUS
    <3>4. targets \in Seq(Blob)
      <4>1. targets \in [1..Len(x.live) -> Blob]
        BY <1>5, <3>2
      <4> HIDE DEF targets, x
      <4> QED
        BY <1>5, <4>1
    <3> HIDE DEF targets
    <3>5. y \in Run
      <4> HIDE DEF x
      <4> QED
        BY <1>2, <3>4 DEF Run
    <3>6. /\ y.left = x.left /\ y.live = x.live /\ y.targets = targets /\ y.at = x.at
          /\ y.step = "next"
      BY <1>2 DEF Run
    <3>7. /\ runs'[r] = y /\ \A q \in Runs \ {r} : runs'[q] = runs[q]
          /\ runs' \in [Runs -> Run]
      <4> HIDE DEF y
      <4> QED
        BY <1>2, <3>1, <3>5
    <3>8. RunWell(r)'
      <4>1. \A i \in DOMAIN targets :
              /\ i \in DOMAIN x.live
              /\ targets[i] \in DOMAIN reserved'
              /\ reserved'[targets[i]] = x.live[i]
        BY <3>2, <3>3
      <4>2. IsInjective(x.live) /\ 1 \in 1..(Len(x.live) + 1)
        BY <1>2, <1>5 DEF RunWell
      <4> HIDE DEF x, y
      <4> QED
        BY <1>4, <3>6, <3>7, <4>1, <4>2 DEF RunWell
    <3> HIDE DEF y
    <3> QED
      BY <2>1, <3>6, <3>7, <3>8
  <2>2. CASE outcome # "ok"
    <3> DEFINE y == [x EXCEPT !.step = "next", !.live = <<>>]
    <3>1. runs' = [runs EXCEPT ![r] = y]
      BY <1>1, <1>2, <2>2 DEF NextAfterFailure
    <3>2. y \in Run
      <4>1. <<>> \in Seq(File)
        OBVIOUS
      <4> HIDE DEF x
      <4> QED
        BY <1>2, <4>1 DEF Run
    <3>3. /\ y.left = x.left /\ y.live = <<>> /\ y.targets = x.targets /\ y.at = x.at
          /\ y.step = "next"
      BY <1>2 DEF Run
    <3>4. /\ runs'[r] = y /\ \A q \in Runs \ {r} : runs'[q] = runs[q]
          /\ runs' \in [Runs -> Run]
      <4> HIDE DEF y
      <4> QED
        BY <1>2, <3>1, <3>2
    <3>5. RunWell(r)'
      <4>1. IsInjective(<<>>) /\ Len(<<>>) = 0 /\ ToSet(<<>>) = {} /\ DOMAIN <<>> = {}
        BY DEF IsInjective, ToSet
      <4> HIDE DEF x, y
      <4> QED
        BY <1>4, <3>3, <3>4, <4>1 DEF RunWell
    <3> HIDE DEF y
    <3> QED
      BY <2>2, <3>3, <3>4, <3>5
  <2> QED
    BY <2>1, <2>2
<1>11. /\ Mine(r)' \subseteq Mine(r) /\ Unsigned(r)' = x.left
       /\ Ahead(r)' = IF outcome = "ok" THEN Ahead(r) ELSE Ahead(r) \ ToSet(x.live)
       /\ outcome = "ok" => Mine(r)' = Mine(r)
  <2> HIDE DEF x
  <2>1. Mine(r)' = x.left \cup ToSet(runs'[r].live) /\ Unsigned(r)' = x.left
    BY <1>10 DEF Mine, Unsigned
  <2>2. CASE outcome = "ok"
    <3>1. Ahead(r)' = Ahead(r)
      BY <1>10, <2>2 DEF Ahead, x
    <3> QED
      BY <1>6, <1>10, <2>1, <2>2, <3>1
  <2>3. CASE outcome # "ok"
    <3>1. ToSet(<<>>) = {}
      BY DEF ToSet
    <3>2. Ahead(r)' = x.left
      BY <1>10, <2>3 DEF Ahead
    <3> QED
      BY <1>4, <1>6, <1>10, <2>1, <2>3, <3>1, <3>2
  <2> QED
    BY <2>2, <2>3
<1>12. \A q \in Runs \ {r} : Ahead(q)' = Ahead(q) /\ Mine(q)' = Mine(q) /\ Unsigned(q)' = Unsigned(q)
  BY <1>10, RunFrame
<1>13. RunsWell'
  <2>1. ASSUME NEW q \in Runs \ {r}
        PROVE  RunWell(q)'
    <3>1. runs'[q] = runs[q] /\ RunWell(q) /\ Ahead(q)' = Ahead(q)
      BY <1>2, <1>10, <1>12 DEF RunsWell
    <3>2. \A b \in DOMAIN reserved : b \in DOMAIN reserved' /\ reserved'[b] = reserved[b]
      BY <1>9
    <3> QED
      BY <3>1, <3>2 DEF RunWell
  <2>2. Apart'
    <3>1. \A q \in Runs : Mine(q)' \subseteq Mine(q)
      BY <1>11, <1>12
    <3> QED
      BY <1>2, <3>1 DEF RunsWell, Apart
  <2>3. ASSUME NEW q \in Runs
        PROVE  Unsigned(q)' \cap ToSet(reserved') = {}
    <3>1. Unsigned(q) \cap ToSet(reserved) = {} /\ Unsigned(q)' \subseteq Unsigned(q)
      BY <1>2, <1>7, <1>11, <1>12 DEF RunsWell, SignedOnce
    <3>2. Unsigned(q)' \cap ToSet(x.live) = {}
      <4>1. CASE q = r
        BY <1>4, <1>11, <4>1
      <4>2. CASE q # r
        <5>1. Unsigned(q)' \subseteq Mine(q)
          BY <1>12, <4>2 DEF Unsigned, Mine
        <5>2. Mine(q) \cap Mine(r) = {}
          BY <1>2, <4>2 DEF RunsWell, Apart
        <5> QED
          BY <1>6, <5>1, <5>2
      <4> QED
        BY <4>1, <4>2
    <3> QED
      BY <1>9, <3>1, <3>2
  <2> QED
    BY <1>9, <1>10, <2>1, <2>2, <2>3 DEF RunsWell, SignedOnce
<1>14. RowsWell'
  <2>1. /\ Apart /\ created \subseteq File /\ cleared' = cleared /\ created' = created
        /\ ToSet(reserved') \subseteq ToSet(reserved) \cup Mine(r)
    BY <1>1, <1>2, <1>6, <1>9 DEF RunsWell, ServerWell
  <2>2. CASE outcome = "ok"
    <3> DEFINE f == x.live[1]
    <3>1. f \in Ahead(r) /\ f \in File
      BY <1>2, <1>4, <1>6, AheadFacts DEF ToSet
    <3> HIDE DEF f
    <3>2. \A g \in Ahead(r) : RowAhead(r, g) /\ g \in File
      BY <1>2, AheadFacts DEF RowsWell, RowWell
    <3>3. status' = status /\ signal' = signal
      BY <1>1, <2>2
    <3>4. \A g : ~At(r, g, "put")' /\ ~At(r, g, "complete")'
      BY <1>10 DEF At
    <3>5. \A g \in Ahead(r) : RowAhead(r, g)'
      BY <1>8, <3>2, <3>3, <3>4 DEF RowAhead
    <3>6. signal[f] # "none" /\ status[f] \in {"pending", "uploading", "cancelled"}
      BY <1>8, <3>1, <3>2 DEF RowAhead
    <3>7. /\ status' \in [File -> Status] /\ signal' \in [File -> {"none", "armed", "aborted"}]
          /\ \A g \in File \ {f} : status'[g] = status[g] /\ signal'[g] = signal[g]
          /\ status'[f] = status[f] /\ signal'[f] # "none"
          /\ status'[f] \in {"pending", "uploading", "cancelled"}
      BY <1>2, <3>3, <3>6 DEF RowsWell
    <3>8. Ahead(r)' = Ahead(r) /\ Mine(r)' = Mine(r)
      BY <1>11, <2>2
    <3> HIDE DEF x
    <3> QED
      BY <1>2, <1>10, <2>1, <3>1, <3>5, <3>7, <3>8, RowKeeps
  <2>3. CASE outcome # "ok"
    <3>1. Settle(ToSet(x.live), "error") /\ "error" \in Settled
      BY <1>1, <2>3 DEF Settled
    <3>2. /\ ToSet(x.live) \in SUBSET Ahead(r) /\ Ahead(r)' = Ahead(r) \ ToSet(x.live)
          /\ Mine(r)' \subseteq Mine(r) /\ runs'[r].step \notin {"put", "complete"}
      BY <1>6, <1>10, <1>11, <2>3
    <3> HIDE DEF x
    <3> QED
      BY <1>2, <1>8, <1>10, <2>1, <3>1, <3>2, SettleKeeps
  <2> QED
    BY <2>2, <2>3
<1> QED
  BY <1>9, <1>13, <1>14 DEF QueueInv

-----------------------------------------------------------------------------
(* The theorems *)

(* Before the first drop there is nothing to relate. *)
LEMMA QueueInvInit == QueueInit => QueueInv
<1> SUFFICES ASSUME QueueInit PROVE QueueInv
  OBVIOUS
<1>1. \A r \in Runs : runs[r] = Unused
  BY DEF QueueInit
<1>2. \A r \in Runs : /\ runs[r].left = {} /\ runs[r].live = <<>> /\ runs[r].targets = <<>>
                      /\ runs[r].at = 1 /\ runs[r].step = "unused"
  BY <1>1 DEF Unused
<1>3. Unused \in Run
  BY DEF Unused, Run
<1>4. IsInjective(<<>>) /\ Len(<<>>) = 0 /\ ToSet(<<>>) = {} /\ DOMAIN <<>> = {} /\ <<>> \in Seq(File)
  BY DEF IsInjective, ToSet
<1>5. \A r \in Runs : Ahead(r) = {} /\ Mine(r) = {} /\ Unsigned(r) = {}
  BY <1>2, <1>4 DEF Ahead, Mine, Unsigned
<1>6. RunsWell
  <2>1. \A r \in Runs : RunWell(r)
    BY <1>2, <1>4, <1>5 DEF RunWell
  <2>2. runs \in [Runs -> Run]
    BY <1>3 DEF QueueInit
  <2> QED
    BY <1>4, <1>5, <2>1, <2>2 DEF RunsWell, Apart, SignedOnce, QueueInit
<1>7. RowsWell
  <2>1. \A f \in File : status[f] = "absent" /\ signal[f] = "none" /\ f \notin created
    BY DEF QueueInit
  <2>2. \A f \in File : RowWell(f)
    BY <1>4, <1>5, <2>1 DEF RowWell, QueueInit
  <2> QED
    BY <1>5, <2>1, <2>2 DEF RowsWell, QueueInit, Status
<1>8. ServerWell
  BY <1>4, QueueAssumption DEF ServerWell, QueueInit, PutToOwnReservation
<1> QED
  BY <1>6, <1>7, <1>8 DEF QueueInv

(* Every step keeps the invariant. *)
LEMMA QueueInvStep == QueueInv /\ [QueueNext]_vars => QueueInv'
<1> SUFFICES ASSUME QueueInv, [QueueNext]_vars PROVE QueueInv'
  OBVIOUS
<1>1. ASSUME NEW r \in Runs, NEW last \in File, NEW refused \in SUBSET File, Enqueue(r, last, refused)
      PROVE  QueueInv'
  BY <1>1, EnqueueKeeps
<1>2. ASSUME NEW f \in File, Cancel(f)
      PROVE  QueueInv'
  BY <1>2, CancelKeeps
<1>3. CASE ClearFinished
  BY <1>3, ClearFinishedKeeps
<1>4. ASSUME NEW r \in Runs, RunStep(r)
      PROVE  QueueInv'
  <2>1. CASE NextBatch(r)
    BY <2>1, NextBatchKeeps
  <2>2. CASE StartTransfer(r)
    BY <2>2, StartTransferKeeps
  <2>3. CASE Finish(r)
    BY <2>3, FinishKeeps
  <2>4. ASSUME NEW outcome, PresignAnswer(r, outcome) \/ PutAnswer(r, outcome) \/ CompleteAnswer(r, outcome)
        PROVE  QueueInv'
    BY <2>4, PresignAnswerKeeps, PutAnswerKeeps, CompleteAnswerKeeps
  <2> QED
    BY <1>4, <2>1, <2>2, <2>3, <2>4 DEF RunStep
<1>5. ASSUME NEW r \in Runs, BytesStored(r)
      PROVE  QueueInv'
  BY <1>5, BytesStoredKeeps
<1>6. CASE UNCHANGED vars
  <2>1. /\ UNCHANGED <<status, signal, runs, reserved, created>>
        /\ UNCHANGED <<cleared, stored>>
    BY <1>6 DEF vars
  <2>2. cleared' \subseteq {f \in File : status[f] \in Settled}
    BY <2>1 DEF QueueInv, RowsWell
  <2>3. ServerWell'
    BY <2>1 DEF QueueInv, ServerWell, PutToOwnReservation
  <2> QED
    BY <2>1, <2>2, <2>3, RowsFrame, RunsFrame DEF QueueInv
<1> QED
  BY <1>1, <1>2, <1>3, <1>4, <1>5, <1>6 DEF QueueNext

(* The invariant holds throughout. *)
LEMMA QueueInvAlways == QueueSpec => []QueueInv
BY QueueInvInit, QueueInvStep, PTL DEF QueueSpec

(* Rows, runs and blobs keep their shape, and a file has an                *)
(* AbortController exactly while a run has it ahead of it: none is left    *)
(* behind and none is missing, whatever is cancelled or fails.             *)
THEOREM QueueTypeCorrect == QueueSpec => []QueueTypeOK
<1>1. QueueInv => QueueTypeOK
  BY DEF QueueInv, RowsWell, RunsWell, ServerWell, QueueTypeOK
<1> QED
  BY <1>1, QueueInvAlways, PTL

(* A file whose row says cancelled has not been made and never will be.    *)
THEOREM CancelledIsNotCreatedAlways == QueueSpec => []CancelledIsNotCreated
<1>1. QueueInv => CancelledIsNotCreated
  BY DEF QueueInv, RowsWell, RowWell, CancelledIsNotCreated
<1> QED
  BY <1>1, QueueInvAlways, PTL

(* Bytes only ever go to the blob that was reserved for their file.        *)
THEOREM PutToOwnReservationAlways == QueueSpec => []PutToOwnReservation
<1>1. QueueInv => PutToOwnReservation
  BY DEF QueueInv, ServerWell
<1> QED
  BY <1>1, QueueInvAlways, PTL
=============================================================================
