---------------------------- MODULE SharingProofs ----------------------------
(***************************************************************************)
(* Shares and scopes, for any shares, people, clock, requests of the owner *)
(* and readers, beside any requests of the tree: every request holds what  *)
(* its type says, what a revocation has stamped stands, a grant on a       *)
(* deleted folder never takes the place of one on a live node, and a       *)
(* person's grants make one scope.  They rest on one fact about two        *)
(* tables: the node a share is on has a row for ever, live or deleted,     *)
(* because no request removes a row.                                       *)
(*                                                                         *)
(* That a narrow grant never hides a broad one, and that what is served    *)
(* lies under a share of the caller's, join paths to parents, so they      *)
(* assume that the tree's requests do not overlap or that nothing is moved.*)
(* That a cascade revokes only what lies beneath assumes the latter.       *)
(***************************************************************************)
EXTENDS Sharing, QuietTreeProofs

Known == DOMAIN rows \cup {Root}

(* Whatever names a node or a share names one that has a row. *)
RowsKnown ==
  /\ \A s \in DOMAIN shares : shares[s].node \in Known
  /\ \A o \in Desk :
       /\ desk[o].step = "sharing" => desk[o].wish.node \in Known
       /\ desk[o].step \in {"pathing", "listing", "nesting", "revoking"} =>
            desk[o].share \in DOMAIN shares /\ desk[o].todo \subseteq DOMAIN shares
       /\ desk[o].step = "nesting" => \A s \in desk[o].todo : shares[s].node # Root
  /\ \A c \in Reader : ask[c].step = "locating" =>
       \A s \in ask[c].todo : s \in DOMAIN shares /\ shares[s].node # Root

SharingInv == IInv /\ ShareTypeOK /\ RowsKnown

-----------------------------------------------------------------------------
(* What is held *)

Cascading == {"pathing", "listing", "nesting", "revoking"}

CascadeReq ==
  [step : {"pathing", "listing", "nesting", "revoking"}, share : Share,
   path : Seq(Node), todo : SUBSET Share, targets : SUBSET Share]

SharingReq == [step : {"sharing"}, wish : Wish]

LocatingReq ==
  [step : {"granting", "locating"}, by : Email \cup Share,
   target : Node \cup {Root}, dead : SUBSET Share, todo : SUBSET Share,
   found : SUBSET Found]

ReadingReq ==
  [step : {"reading"}, by : Email \cup Share, target : Node \cup {Root},
   dead : SUBSET Share, scope : Scope]

(* The step a request is at says what it holds. *)
LEMMA DeskKind ==
  ASSUME ShareTypeOK, NEW o \in Desk
  PROVE  /\ desk[o].step = "sharing" => desk[o] \in SharingReq
         /\ desk[o].step \in Cascading => desk[o] \in CascadeReq
<1>1. desk[o] \in SharingReq \cup CascadeReq \cup {Idle}
  BY DEF ShareTypeOK, DeskReq, SharingReq, CascadeReq
<1> QED
  BY <1>1 DEF SharingReq, CascadeReq, Idle, Cascading

(* The same of a read. *)
LEMMA AskKind ==
  ASSUME ShareTypeOK, NEW c \in Reader
  PROVE  /\ ask[c].step \in {"granting", "locating"} => ask[c] \in LocatingReq
         /\ ask[c].step = "reading" => ask[c] \in ReadingReq
<1>1. ask[c] \in LocatingReq \cup ReadingReq \cup {Idle}
  BY DEF ShareTypeOK, AskReq, LocatingReq, ReadingReq
<1> QED
  BY <1>1 DEF LocatingReq, ReadingReq, Idle

(* The path of a share's node. *)
LEMMA SharePath ==
  ASSUME SharingInv, NEW s \in DOMAIN shares
  PROVE  /\ LocationPath(rows, shares[s].node) \in Seq(Node)
         /\ shares[s].node # Root => Locate(s) \in Found /\ shares[s].node \in DOMAIN rows
<1>1. IsTable(rows) /\ s \in Share /\ shares[s].node \in Known
  BY DEF SharingInv, IInv, TypeOK, ShareTypeOK, RowsKnown
<1>2. LocationPath(rows, shares[s].node) \in Seq(Node)
  BY <1>1 DEF Known, LocationPath, IsTable, Row
<1>3. ASSUME shares[s].node # Root
      PROVE  Locate(s) \in Found /\ shares[s].node \in DOMAIN rows
  <2> DEFINE n == shares[s].node
  <2>1. n \in DOMAIN rows /\ n \in Node /\ rows[n].path \in Seq(Node) /\ rows[n].deleted \in BOOLEAN
    BY <1>1, <1>3 DEF Known, IsTable, Row
  <2> QED
    BY <1>1, <2>1 DEF Locate, Found
<1> QED
  BY <1>2, <1>3

-----------------------------------------------------------------------------
(* The steps *)

(* A request of the owner that leaves the shares as they are. *)
LEMMA SitKeeps ==
  ASSUME SharingInv, UNCHANGED shares, NEW o \in Desk, NEW r, Sit(o, r),
         r \in SharingReq \cup CascadeReq \cup {Idle},
         r.step = "sharing" => r.wish.node \in Known,
         r.step \in Cascading => r.share \in DOMAIN shares /\ r.todo \subseteq DOMAIN shares,
         r.step = "nesting" => \A s \in r.todo : shares[s].node # Root
  PROVE  SharingInv'
<1>1. /\ UNCHANGED <<rows, room, req, now, ask>> /\ desk' = [desk EXCEPT ![o] = r]
      /\ desk \in [Desk -> DeskReq \cup {Idle}] /\ r \in DeskReq \cup {Idle}
  BY DEF Sit, SharingInv, ShareTypeOK, DeskReq, SharingReq, CascadeReq
<1>2. IInv'
  BY <1>1, StutterKeeps DEF SharingInv, vars
<1>3. ShareTypeOK'
  BY <1>1 DEF SharingInv, ShareTypeOK
<1>4. \A p \in Desk : desk'[p] = IF p = o THEN r ELSE desk[p]
  BY <1>1
<1>5. RowsKnown'
  BY <1>1, <1>4 DEF SharingInv, RowsKnown, Known, Cascading
<1> QED
  BY <1>2, <1>3, <1>5 DEF SharingInv

(* A request of the owner that ends with a write of the shares: rows are   *)
(* added or stamped, and every share stays on its node.                    *)
LEMMA WriteKeeps ==
  ASSUME SharingInv, NEW o \in Desk, Sit(o, Idle),
         DOMAIN shares' \subseteq Share, shares' \in [DOMAIN shares' -> ShareRow],
         DOMAIN shares \subseteq DOMAIN shares',
         \A s \in DOMAIN shares : shares'[s].node = shares[s].node,
         \A s \in DOMAIN shares' : shares'[s].node \in Known
  PROVE  SharingInv'
<1>1. /\ UNCHANGED <<rows, room, req, now, ask>> /\ desk' = [desk EXCEPT ![o] = Idle]
      /\ desk \in [Desk -> DeskReq \cup {Idle}]
  BY DEF Sit, SharingInv, ShareTypeOK
<1>2. IInv'
  BY <1>1, StutterKeeps DEF SharingInv, vars
<1>3. ShareTypeOK'
  BY <1>1 DEF SharingInv, ShareTypeOK
<1>4. \A p \in Desk : desk'[p] = IF p = o THEN Idle ELSE desk[p]
  BY <1>1
<1>5. Idle.step = "idle"
  BY DEF Idle
<1>6. RowsKnown'
  BY <1>1, <1>4, <1>5 DEF SharingInv, RowsKnown, Known
<1> QED
  BY <1>2, <1>3, <1>6 DEF SharingInv

(* No request of the owner breaks the invariant. *)
LEMMA OwnerKeeps ==
  ASSUME SharingInv, NEW o \in Desk, WriteShare(o) \/ Revoke(o)
  PROVE  SharingInv'
<1>1. /\ ShareTypeOK /\ RowsKnown /\ now \in 0..Horizon
      /\ DOMAIN shares \subseteq Share /\ shares \in [DOMAIN shares -> ShareRow]
      /\ Idle.step = "idle"
  BY DEF SharingInv, ShareTypeOK, Idle
<1>2. ASSUME NEW wish \in Wish, ShareResolve(o, wish)
      PROVE  SharingInv'
  <2> DEFINE r == [step |-> "sharing", wish |-> wish]
  <2>1. r \in SharingReq /\ r.step = "sharing" /\ r.wish = wish
    BY DEF SharingReq
  <2>2. Sit(o, r) /\ UNCHANGED shares /\ wish.node \in Known
    BY <1>2 DEF ShareResolve, Known, Live
  <2> HIDE DEF r
  <2> QED
    BY <2>1, <2>2, SitKeeps DEF Cascading
<1>3. CASE ShareInsert(o)
  <2> DEFINE wish == desk[o].wish
             row == [node |-> wish.node, to |-> wish.to, expires |-> wish.expires,
                     created |-> now, revoked |-> Never]
  <2>1. desk[o] \in SharingReq /\ wish \in Wish /\ wish.node \in Known
    BY <1>1, <1>3, DeskKind DEF ShareInsert, SharingReq, RowsKnown
  <2>2. row \in ShareRow /\ row.node \in Known
    BY <1>1, <2>1, WishAssumption DEF ShareRow
  <2>3. PICK s \in Share \ DOMAIN shares :
          shares' = [t \in DOMAIN shares \cup {s} |-> IF t = s THEN row ELSE shares[t]]
    BY <1>3 DEF ShareInsert
  <2> HIDE DEF row
  <2>4. /\ DOMAIN shares' = DOMAIN shares \cup {s}
        /\ shares' \in [DOMAIN shares' -> ShareRow]
        /\ \A t \in DOMAIN shares : shares'[t] = shares[t]
        /\ \A t \in DOMAIN shares' : shares'[t].node \in Known
    BY <1>1, <2>2, <2>3 DEF RowsKnown
  <2>5. Sit(o, Idle)
    BY <1>3 DEF ShareInsert
  <2> QED
    BY <1>1, <2>3, <2>4, <2>5, WriteKeeps
<1>4. ASSUME NEW s \in Share, NEW cascade \in BOOLEAN, RevokeFind(o, s, cascade)
      PROVE  SharingInv'
  <2> DEFINE nests == cascade /\ shares[s].to # Link /\ shares[s].revoked = Never
             step == IF nests THEN "pathing" ELSE "revoking"
             r == [step |-> step, share |-> s, path |-> <<>>, todo |-> {}, targets |-> {s}]
  <2>1. Sit(o, r) /\ UNCHANGED shares /\ s \in DOMAIN shares
    BY <1>4 DEF RevokeFind
  <2>2. step \in {"pathing", "revoking"} /\ <<>> \in Seq(Node)
    OBVIOUS
  <2> HIDE DEF step
  <2>3. r \in CascadeReq /\ r.step = step /\ r.share = s /\ r.todo = {}
    BY <2>2 DEF CascadeReq
  <2> HIDE DEF r
  <2> QED
    BY <2>1, <2>2, <2>3, SitKeeps
<1>5. CASE RevokePath(o)
  <2> DEFINE path == LocationPath(rows, shares[desk[o].share].node)
             r == [desk[o] EXCEPT !.step = "listing", !.path = path]
  <2>1. /\ desk[o] \in CascadeReq /\ desk[o].share \in DOMAIN shares
        /\ desk[o].todo \subseteq DOMAIN shares
    BY <1>1, <1>5, DeskKind DEF RevokePath, RowsKnown, Cascading
  <2>2. path \in Seq(Node)
    BY <2>1, SharePath
  <2>3. Sit(o, r) /\ UNCHANGED shares
    BY <1>5 DEF RevokePath
  <2> HIDE DEF path
  <2>4. r \in CascadeReq /\ r.step = "listing" /\ r.share = desk[o].share /\ r.todo = desk[o].todo
    BY <2>1, <2>2 DEF CascadeReq
  <2> HIDE DEF r
  <2> QED
    BY <2>1, <2>3, <2>4, SitKeeps
<1>6. CASE RevokeList(o)
  <2> DEFINE todo == {s \in GrantsOf(shares[desk[o].share].to) : shares[s].node # Root}
             r == [desk[o] EXCEPT !.step = "nesting", !.todo = todo]
  <2>1. desk[o] \in CascadeReq /\ desk[o].share \in DOMAIN shares
    BY <1>1, <1>6, DeskKind DEF RevokeList, RowsKnown, Cascading
  <2>2. todo \subseteq DOMAIN shares /\ \A s \in todo : shares[s].node # Root
    BY DEF GrantsOf
  <2>3. Sit(o, r) /\ UNCHANGED shares
    BY <1>6 DEF RevokeList
  <2> HIDE DEF todo
  <2>4. r \in CascadeReq /\ r.step = "nesting" /\ r.share = desk[o].share /\ r.todo = todo
    BY <1>1, <2>1, <2>2 DEF CascadeReq
  <2> HIDE DEF r
  <2> QED
    BY <2>1, <2>2, <2>3, <2>4, SitKeeps
<1>7. CASE RevokeLook(o)
  <2>1. /\ desk[o] \in CascadeReq /\ desk[o].share \in DOMAIN shares
        /\ desk[o].todo \subseteq DOMAIN shares
        /\ \A s \in desk[o].todo : shares[s].node # Root
    BY <1>1, <1>7, DeskKind DEF RevokeLook, RowsKnown, Cascading
  <2>2. PICK s \in desk[o].todo :
          Sit(o, [desk[o] EXCEPT
                    !.todo = @ \ {s},
                    !.targets = IF Nests(Locate(s), desk[o].path) THEN @ \cup {s} ELSE @])
    BY <1>7 DEF RevokeLook
  <2> DEFINE more == IF Nests(Locate(s), desk[o].path) THEN desk[o].targets \cup {s}
                     ELSE desk[o].targets
             r == [desk[o] EXCEPT !.todo = desk[o].todo \ {s}, !.targets = more]
  <2>3. Sit(o, r) /\ UNCHANGED shares
    BY <1>7, <2>1, <2>2 DEF RevokeLook, CascadeReq
  <2>4. more \in SUBSET Share
    BY <1>1, <2>1 DEF CascadeReq
  <2> HIDE DEF more
  <2>5. /\ r \in CascadeReq /\ r.step = desk[o].step /\ r.share = desk[o].share
        /\ r.todo = desk[o].todo \ {s}
    BY <2>1, <2>4 DEF CascadeReq
  <2>6. desk[o].step = "nesting"
    BY <1>7 DEF RevokeLook
  <2> HIDE DEF r
  <2> QED
    BY <2>1, <2>3, <2>5, <2>6, SitKeeps
<1>8. CASE RevokeWrite(o)
  <2>1. shares' = Revoked(desk[o].targets) /\ Sit(o, Idle)
    BY <1>8 DEF RevokeWrite
  <2>2. DOMAIN shares' = DOMAIN shares
    BY <2>1 DEF Revoked
  <2>3. ASSUME NEW s \in DOMAIN shares
        PROVE  shares'[s] \in ShareRow /\ shares'[s].node = shares[s].node
    <3>1. shares[s] \in ShareRow
      BY <1>1
    <3>2. shares'[s] = shares[s] \/ shares'[s] = [shares[s] EXCEPT !.revoked = now]
      BY <2>1 DEF Revoked
    <3> QED
      BY <1>1, <3>1, <3>2 DEF ShareRow
  <2>4. shares' \in [DOMAIN shares' -> ShareRow]
    BY <2>1, <2>2, <2>3 DEF Revoked
  <2> QED
    BY <1>1, <2>1, <2>2, <2>3, <2>4, WriteKeeps DEF RowsKnown
<1> QED
  BY <1>2, <1>3, <1>4, <1>5, <1>6, <1>7, <1>8 DEF WriteShare, Revoke

(* A read that goes on, or ends. *)
LEMMA HearKeeps ==
  ASSUME SharingInv, NEW c \in Reader, NEW r, Hear(c, r),
         r \in LocatingReq \cup ReadingReq \cup {Idle},
         r.step = "locating" => \A s \in r.todo : s \in DOMAIN shares /\ shares[s].node # Root
  PROVE  SharingInv'
<1>1. /\ UNCHANGED <<rows, room, req, shares, now, desk>> /\ ask' = [ask EXCEPT ![c] = r]
      /\ ask \in [Reader -> AskReq \cup {Idle}] /\ r \in AskReq \cup {Idle}
  BY DEF Hear, SharingInv, ShareTypeOK, AskReq, LocatingReq, ReadingReq
<1>2. IInv'
  BY <1>1, StutterKeeps DEF SharingInv, vars
<1>3. ShareTypeOK'
  BY <1>1 DEF SharingInv, ShareTypeOK
<1>4. \A p \in Reader : ask'[p] = IF p = c THEN r ELSE ask[p]
  BY <1>1
<1>5. RowsKnown'
  BY <1>1, <1>4 DEF SharingInv, RowsKnown, Known
<1> QED
  BY <1>2, <1>3, <1>5 DEF SharingInv

(* What a read found has the type of a scope. *)
LEMMA BroadestIsScope ==
  ASSUME NEW found \in SUBSET Found, NEW a \in Broadest(found)
  PROVE  ScopeAt(a) \in Scope
BY DEF Broadest, ScopeAt, Scope, Found

(* No read breaks the invariant. *)
LEMMA ReaderKeeps ==
  ASSUME SharingInv, NEW c \in Reader, Browse(c)
  PROVE  SharingInv'
<1>1. /\ ShareTypeOK /\ RowsKnown /\ DOMAIN shares \subseteq Share
      /\ Idle.step = "idle" /\ Spent \in SUBSET Share
  BY DEF SharingInv, ShareTypeOK, Idle, Spent
<1>2. ASSUME NEW email \in Email, NEW target \in Node \cup {Root}, AskAsUser(c, email, target)
      PROVE  SharingInv'
  <2> DEFINE dead == {s \in Spent : shares[s].to = email}
             r == [step |-> "granting", by |-> email, target |-> target, dead |-> dead,
                   todo |-> {}, found |-> {}]
  <2>1. dead \in SUBSET Share
    BY <1>1
  <2>2. Hear(c, r)
    BY <1>2 DEF AskAsUser
  <2> HIDE DEF dead
  <2>3. r \in LocatingReq /\ r.step = "granting"
    BY <2>1 DEF LocatingReq
  <2> HIDE DEF r
  <2> QED
    BY <2>2, <2>3, HearKeeps
<1>3. ASSUME NEW s \in Share, NEW target \in Node \cup {Root}, AskWithToken(c, s, target)
      PROVE  SharingInv'
  <2> DEFINE r == [step |-> "granting", by |-> s, target |-> target, dead |-> Spent \cap {s},
                   todo |-> {}, found |-> {}]
  <2>1. Hear(c, r)
    BY <1>3 DEF AskWithToken
  <2>2. r \in LocatingReq /\ r.step = "granting"
    BY <1>1 DEF LocatingReq
  <2> HIDE DEF r
  <2> QED
    BY <2>1, <2>2, HearKeeps
<1>4. ASSUME Hear(c, Idle)
      PROVE  SharingInv'
  BY <1>1, <1>4, HearKeeps
<1>5. ASSUME ask[c] \in LocatingReq, NEW scope \in Scope, Reading(c, scope)
      PROVE  SharingInv'
  <2> DEFINE r == [step |-> "reading", by |-> ask[c].by, target |-> ask[c].target,
                   dead |-> ask[c].dead, scope |-> scope]
  <2>1. Hear(c, r)
    BY <1>5 DEF Reading
  <2>2. r \in ReadingReq /\ r.step = "reading"
    BY <1>5 DEF LocatingReq, ReadingReq
  <2> HIDE DEF r
  <2> QED
    BY <2>1, <2>2, HearKeeps
<1>6. CASE GrantWholeRoom(c)
  <2>1. ask[c] \in LocatingReq
    BY <1>1, <1>6, AskKind DEF GrantWholeRoom
  <2>2. PICK s \in Offered(ask[c].by) : Reading(c, WholeRoom(s))
    BY <1>6 DEF GrantWholeRoom
  <2>3. s \in Share
    BY <1>1 DEF Offered, GrantsOf
  <2>4. WholeRoom(s) \in Scope
    <3>1. <<>> \in Seq(Node)
      OBVIOUS
    <3> QED
      BY <2>3, <3>1 DEF WholeRoom, Scope
  <2> QED
    BY <1>5, <2>1, <2>2, <2>4
<1>7. CASE GrantNodes(c)
  <2> DEFINE grants == Offered(ask[c].by)
             r == [ask[c] EXCEPT !.step = "locating", !.todo = grants]
  <2>1. ask[c] \in LocatingReq
    BY <1>1, <1>7, AskKind DEF GrantNodes
  <2>2. \A s \in grants : s \in DOMAIN shares /\ shares[s].node # Root
    BY <1>7 DEF GrantNodes, Offered, GrantsOf
  <2>3. Hear(c, r)
    BY <1>7 DEF GrantNodes
  <2> HIDE DEF grants
  <2>4. r \in LocatingReq /\ r.todo = grants
    BY <1>1, <2>1, <2>2 DEF LocatingReq
  <2> HIDE DEF r
  <2> QED
    BY <2>2, <2>3, <2>4, HearKeeps
<1>8. CASE LocateGrant(c)
  <2>1. /\ ask[c] \in LocatingReq
        /\ \A s \in ask[c].todo : s \in DOMAIN shares /\ shares[s].node # Root
    BY <1>1, <1>8, AskKind DEF LocateGrant, RowsKnown
  <2>2. PICK s \in ask[c].todo :
          LET found == ask[c].found \cup {Locate(s)}
          IN  IF ask[c].todo = {s}
              THEN \E a \in Broadest(found) : Reading(c, ScopeAt(a))
              ELSE Hear(c, [ask[c] EXCEPT !.todo = @ \ {s}, !.found = found])
    BY <1>8 DEF LocateGrant
  <2> DEFINE found == ask[c].found \cup {Locate(s)}
  <2>3. found \in SUBSET Found
    BY <2>1, SharePath DEF LocatingReq
  <2>4. CASE ask[c].todo = {s}
    <3>1. PICK a \in Broadest(found) : Reading(c, ScopeAt(a))
      BY <2>2, <2>4
    <3>2. ScopeAt(a) \in Scope
      BY <2>3, BroadestIsScope
    <3> QED
      BY <1>5, <2>1, <3>1, <3>2
  <2>5. CASE ask[c].todo # {s}
    <3> DEFINE r == [ask[c] EXCEPT !.todo = ask[c].todo \ {s}, !.found = found]
    <3>1. Hear(c, r)
      BY <2>1, <2>2, <2>5 DEF LocatingReq
    <3> HIDE DEF found
    <3>2. r \in LocatingReq /\ r.todo = ask[c].todo \ {s}
      BY <2>1, <2>3 DEF LocatingReq
    <3> HIDE DEF r
    <3> QED
      BY <2>1, <3>1, <3>2, HearKeeps
  <2> QED
    BY <2>4, <2>5
<1> QED
  BY <1>2, <1>3, <1>4, <1>6, <1>7, <1>8 DEF Browse, GrantRefused, Serve, Refuse

(* No request of the tree breaks it: rows are never removed. *)
LEMMA TreeKeepsShares ==
  ASSUME SharingInv, NEW w \in Worker, TreeStep(w), UNCHANGED shareVars
  PROVE  SharingInv'
<1>1. IInv' /\ DOMAIN rows \subseteq DOMAIN rows'
  BY TreeStepKeeps, TreeStepSpares DEF SharingInv, SameFiles
<1>2. ShareTypeOK'
  BY DEF SharingInv, ShareTypeOK, shareVars
<1>3. RowsKnown'
  BY <1>1 DEF SharingInv, RowsKnown, Known, shareVars
<1> QED
  BY <1>1, <1>2, <1>3 DEF SharingInv

(* Nor does the clock. *)
LEMMA TickKeeps ==
  ASSUME SharingInv, Tick
  PROVE  SharingInv'
<1>1. UNCHANGED <<rows, room, req, shares, desk, ask>> /\ now' = now + 1 /\ now < Horizon
  BY DEF Tick
<1>2. IInv'
  BY <1>1, StutterKeeps DEF SharingInv, vars
<1>3. now' \in 0..Horizon
  BY <1>1, ClockAssumption DEF SharingInv, ShareTypeOK
<1>4. ShareTypeOK' /\ RowsKnown'
  BY <1>1, <1>3 DEF SharingInv, ShareTypeOK, RowsKnown, Known
<1> QED
  BY <1>2, <1>4 DEF SharingInv

(* A room starts without shares. *)
LEMMA SharingInitSound ==
  ASSUME SharingInit
  PROVE  SharingInv
<1>1. IInv
  BY InitKeeps DEF SharingInit
<1>2. ShareTypeOK
  BY ClockAssumption DEF SharingInit, ShareTypeOK
<1>3. RowsKnown
  BY DEF SharingInit, RowsKnown, Idle
<1> QED
  BY <1>1, <1>2, <1>3 DEF SharingInv

(* No step breaks the invariant. *)
LEMMA SharingNextSound ==
  ASSUME SharingInv, [SharingNext]_sharingVars
  PROVE  SharingInv'
<1>1. CASE UNCHANGED sharingVars
  <2>1. IInv'
    BY <1>1, StutterKeeps DEF SharingInv, sharingVars, vars
  <2> QED
    BY <1>1, <2>1 DEF SharingInv, sharingVars, ShareTypeOK, RowsKnown, Known
<1> QED
  BY <1>1, TreeKeepsShares, TickKeeps, OwnerKeeps, ReaderKeeps DEF SharingNext, Next

(* So it holds throughout. *)
LEMMA SharingInvAlways == SharingSpec => []SharingInv
<1>1. SharingInit => SharingInv
  BY SharingInitSound
<1>2. SharingInv /\ [SharingNext]_sharingVars => SharingInv'
  BY SharingNextSound
<1> QED
  BY <1>1, <1>2, PTL DEF SharingSpec

-----------------------------------------------------------------------------
(* Theorems *)

(* Shares, the owner's requests and the readers' hold what their types say *)
(* between any two statements: what a read located is a row with a path,   *)
(* even if it was deleted since (resolveForUser, resolveForToken).         *)
THEOREM ShareTypeCorrect == SharingSpec => []ShareTypeOK
<1>1. SharingInv => ShareTypeOK
  BY DEF SharingInv
<1> QED
  BY <1>1, SharingInvAlways, PTL

(* A person whose grants are partly on deleted folders and partly on live  *)
(* nodes has a scope on a live node, whatever the tree's requests and the  *)
(* owner do at the same time (compareBreadth: live first).                 *)
THEOREM DeadNeverShadowsLiveAlways == SharingSpec => []DeadNeverShadowsLive
<1>1. SharingInv => DeadNeverShadowsLive
  <2> SUFFICES ASSUME SharingInv, NEW email \in Verified, NEW s \in GrantsOf(email),
                      NEW sc \in ScopesOf(email), shares[s].node \in Live(rows) \cup {Root}
               PROVE  sc.root \in Live(rows) \cup {Root}
    BY DEF DeadNeverShadowsLive
  <2> DEFINE grants == GrantsOf(email)
             whole == {t \in grants : shares[t].node = Root}
             found == {Locate(t) : t \in grants}
  <2>1. CASE whole # {}
    <3>1. PICK t \in whole : sc = WholeRoom(t)
      BY <2>1 DEF ScopesOf
    <3> QED
      BY <3>1 DEF WholeRoom
  <2>2. CASE whole = {}
    <3>1. PICK a \in Broadest(found) : sc = ScopeAt(a)
      BY <2>2 DEF ScopesOf
    <3>2. PICK t \in grants : a = Locate(t)
      BY <3>1 DEF Broadest
    <3>3. t \in DOMAIN shares /\ shares[t].node # Root /\ shares[s].node # Root
      BY <2>2 DEF GrantsOf
    <3>4. shares[t].node \in DOMAIN rows
      BY <3>3, SharePath
    <3>5. /\ a.node = shares[t].node /\ a.deleted = rows[shares[t].node].deleted
      BY <3>2 DEF Locate
    <3>6. ~Locate(s).deleted
      BY <3>3 DEF Locate, Live
    <3>7. ~a.deleted
      BY <3>1, <3>6 DEF Broadest, Broader
    <3>8. a.node \in Live(rows)
      BY <3>4, <3>5, <3>7 DEF Live
    <3> QED
      BY <3>1, <3>8 DEF ScopeAt
  <2> QED
    BY <2>1, <2>2
<1> QED
  BY <1>1, SharingInvAlways, PTL

(* What a revocation has stamped stays as it was stamped, however later    *)
(* and overlapping revocations cascade (ShareRepository, revokeMany).      *)
THEOREM RevocationStandsAlways == SharingSpec => RevocationStands
<1>1. [SharingNext]_sharingVars =>
        [\A s \in DOMAIN shares : shares[s].revoked # Never => shares'[s] = shares[s]]_sharingVars
  <2> SUFFICES ASSUME SharingNext, NEW s \in DOMAIN shares, shares[s].revoked # Never
               PROVE  shares'[s] = shares[s]
    OBVIOUS
  <2>1. ASSUME NEW o \in Desk, ShareInsert(o)
        PROVE  shares'[s] = shares[s]
    BY <2>1 DEF ShareInsert
  <2>2. ASSUME NEW o \in Desk, RevokeWrite(o)
        PROVE  shares'[s] = shares[s]
    BY <2>2 DEF RevokeWrite, Revoked
  <2>3. CASE UNCHANGED shares
    BY <2>3
  <2> QED
    BY <2>1, <2>2, <2>3
    DEF SharingNext, shareVars, Tick, WriteShare, Revoke, ShareResolve, RevokeFind, RevokePath,
        RevokeList, RevokeLook, Browse, AskAsUser, AskWithToken, GrantRefused, GrantWholeRoom,
        GrantNodes, LocateGrant, Reading, Serve, Refuse, Hear
<1> QED
  BY <1>1, PTL DEF SharingSpec, RevocationStands

-----------------------------------------------------------------------------
(* The order of grants *)

(* Whatever is counted, something counts least. *)
LEMMA LeastBy ==
  ASSUME NEW S, S # {}, NEW f \in [S -> Nat]
  PROVE  \E m \in S : \A k \in S : f[m] <= f[k]
<1>1. {f[k] : k \in S} \in SUBSET Nat /\ {f[k] : k \in S} # {}
  OBVIOUS
<1>2. PICK x \in {f[k] : k \in S} : \A y \in {f[k] : k \in S} : x <= y
  BY <1>1, LeastNatural
<1> QED
  BY <1>2

(* What a grant on a node is compared by. *)
LEMMA LocateKeys ==
  ASSUME SharingInv, NEW s \in DOMAIN shares, shares[s].node # Root
  PROVE  /\ Locate(s).share = s /\ s \in Nat /\ Locate(s).deleted \in BOOLEAN
         /\ Len(Locate(s).path) \in Nat /\ shares[s].created \in Nat
<1>1. Locate(s) \in Found
  BY SharePath
<1>2. s \in Share /\ shares[s] \in ShareRow
  BY DEF SharingInv, ShareTypeOK
<1>3. Locate(s).share = s
  BY DEF Locate
<1> QED
  BY <1>1, <1>2, <1>3, ShareAssumption, ClockAssumption DEF Found, ShareRow

(* Of some grants one is the broadest, and no other is: live or not, path, *)
(* age and id, each in turn, leave those that count least, and no two have *)
(* one id.                                                                 *)
LEMMA OneIsBroadest ==
  ASSUME SharingInv, NEW grants \in SUBSET DOMAIN shares, grants # {},
         \A s \in grants : shares[s].node # Root
  PROVE  \E s \in grants : Broadest({Locate(t) : t \in grants}) = {Locate(s)}
<1> DEFINE at(s) == Locate(s)
           f1 == [s \in grants |-> IF at(s).deleted THEN 1 ELSE 0]
<1>1. \A s \in grants : /\ at(s).share = s /\ s \in Nat /\ at(s).deleted \in BOOLEAN
                        /\ Len(at(s).path) \in Nat /\ shares[s].created \in Nat
  BY LocateKeys
<1> HIDE DEF at
<1>2. PICK m1 \in grants : \A k \in grants : f1[m1] <= f1[k]
  BY LeastBy
<1> DEFINE S2 == {s \in grants : f1[s] = f1[m1]}
           f2 == [s \in S2 |-> Len(at(s).path)]
<1>3. PICK m2 \in S2 : \A k \in S2 : f2[m2] <= f2[k]
  <2>1. m1 \in S2 /\ f2 \in [S2 -> Nat]
    BY <1>1
  <2> HIDE DEF f2, S2
  <2> QED
    BY <2>1, LeastBy
<1> DEFINE S3 == {s \in S2 : f2[s] = f2[m2]}
           f3 == [s \in S3 |-> shares[s].created]
<1>4. PICK m3 \in S3 : \A k \in S3 : f3[m3] <= f3[k]
  <2>1. m2 \in S3 /\ f3 \in [S3 -> Nat]
    BY <1>1
  <2> HIDE DEF f3, S3
  <2> QED
    BY <2>1, LeastBy
<1> DEFINE S4 == {s \in S3 : f3[s] = f3[m3]}
           f4 == [s \in S4 |-> s]
<1>5. PICK s \in S4 : \A k \in S4 : f4[s] <= f4[k]
  <2>1. m3 \in S4 /\ f4 \in [S4 -> Nat]
    BY <1>1
  <2> HIDE DEF f4, S4
  <2> QED
    BY <2>1, LeastBy
<1>6. s \in grants
  OBVIOUS
<1>7. ASSUME NEW t \in grants, t # s
      PROVE  Broader(at(s), at(t))
  <2>1. f1[s] = f1[m1] /\ f1[m1] <= f1[t]
    BY <1>2
  <2>2. t \in S2 => f2[s] = f2[m2] /\ f2[m2] <= f2[t]
    BY <1>3
  <2>3. t \in S3 => f3[s] = f3[m3] /\ f3[m3] <= f3[t]
    BY SMTT(20), <1>4
  <2>4. t \in S4 => s < t
    BY <1>1, <1>5, <1>6, <1>7
  <2>5. (~at(s).deleted /\ at(t).deleted) \/ (at(s).deleted = at(t).deleted /\ t \in S2)
    BY <1>1, <2>1
  <2>6. t \in S2 => Len(at(s).path) < Len(at(t).path)
                      \/ (Len(at(s).path) = Len(at(t).path) /\ t \in S3)
    BY <1>1, <2>2
  <2>7. t \in S3 => shares[s].created < shares[t].created
                      \/ (shares[s].created = shares[t].created /\ t \in S4)
    BY <1>1, <2>3
  <2> HIDE DEF S2, S3, S4
  <2> QED
    BY <1>1, <1>6, <2>4, <2>5, <2>6, <2>7 DEF Broader
<1>8. at(s) \in Broadest({at(t) : t \in grants})
  <2>1. \A b \in {at(t) : t \in grants} \ {at(s)} : Broader(at(s), b)
    BY <1>7
  <2> QED
    BY <1>6, <2>1 DEF Broadest
<1>9. ASSUME NEW b \in Broadest({at(t) : t \in grants}), b # at(s)
      PROVE  FALSE
  <2>1. PICK t \in grants : b = at(t)
    BY DEF Broadest
  <2>2. Broader(at(s), at(t)) /\ Broader(at(t), at(s))
    BY <1>6, <1>7, <1>9, <2>1 DEF Broadest
  <2> QED
    BY SMTT(20), <1>1, <1>6, <2>2 DEF Broader
<1>10. Broadest({at(t) : t \in grants}) = {at(s)}
  BY <1>8, <1>9
<1> QED
  BY <1>6, <1>10 DEF at

(* Somebody who holds a grant has one scope, however many grants there are *)
(* and whatever became of the folders they are on: the order of grants is  *)
(* total, so two page loads cannot differ (compareBreadth, pickBroadest).  *)
THEOREM OneScopePerGranteeAlways == SharingSpec => []OneScopePerGrantee
<1>1. SharingInv => OneScopePerGrantee
  <2> SUFFICES ASSUME SharingInv, NEW email \in Verified, GrantsOf(email) # {}
               PROVE  Cardinality({[root |-> sc.root, path |-> sc.path] : sc \in ScopesOf(email)}) = 1
    BY DEF OneScopePerGrantee
  <2> DEFINE grants == GrantsOf(email)
             whole == {s \in grants : shares[s].node = Root}
             scopes == {[root |-> sc.root, path |-> sc.path] : sc \in ScopesOf(email)}
  <2>1. \E x : scopes = {x}
    <3>1. CASE whole # {}
      <4>1. ScopesOf(email) = {WholeRoom(s) : s \in whole}
        BY <3>1 DEF ScopesOf
      <4>2. \A s : WholeRoom(s).root = Root /\ WholeRoom(s).path = <<>>
        BY DEF WholeRoom
      <4> HIDE DEF whole
      <4>3. /\ ScopesOf(email) # {}
            /\ \A sc \in ScopesOf(email) : sc.root = Root /\ sc.path = <<>>
        BY <3>1, <4>1, <4>2
      <4>4. scopes = {[root |-> Root, path |-> <<>>]}
        BY <4>3
      <4> HIDE DEF scopes
      <4> QED
        BY <4>4
    <3>2. CASE whole = {}
      <4>1. grants \in SUBSET DOMAIN shares /\ \A s \in grants : shares[s].node # Root
        BY <3>2 DEF GrantsOf
      <4>2. PICK s \in grants : Broadest({Locate(t) : t \in grants}) = {Locate(s)}
        BY <4>1, OneIsBroadest
      <4>3. ScopesOf(email) = {ScopeAt(Locate(s))}
        BY <3>2, <4>2 DEF ScopesOf
      <4> DEFINE sc == ScopeAt(Locate(s))
      <4>4. scopes = {[root |-> sc.root, path |-> sc.path]}
        BY <4>3
      <4> HIDE DEF scopes
      <4> QED
        BY <4>4
    <3> HIDE DEF scopes, whole
    <3> QED
      BY <3>1, <3>2
  <2> QED
    BY <2>1, FS_Singleton
<1> QED
  BY <1>1, SharingInvAlways, PTL

-----------------------------------------------------------------------------
(* Shares beside a tree whose paths are right *)

(* What shares and readers do is nothing to the tree. *)
LEMMA SharingIsTree == SharingSpec => Spec
<1>1. SharingInit => Init
  BY DEF SharingInit
<1>2. [SharingNext]_sharingVars => [Next]_vars
  <2>1. ASSUME NEW o \in Desk, WriteShare(o) \/ Revoke(o)
        PROVE  UNCHANGED vars
    BY <2>1 DEF vars, WriteShare, Revoke, ShareResolve, ShareInsert, RevokeFind, RevokePath,
                RevokeList, RevokeLook, RevokeWrite, Sit
  <2>2. ASSUME NEW c \in Reader, Browse(c)
        PROVE  UNCHANGED vars
    BY <2>2 DEF vars, Browse, AskAsUser, AskWithToken, GrantRefused, GrantWholeRoom, GrantNodes,
                LocateGrant, Reading, Serve, Refuse, Hear
  <2> QED
    BY SMTT(20), <2>1, <2>2 DEF SharingNext, Tick, sharingVars, vars
<1> QED
  BY <1>1, <1>2, PTL DEF SharingSpec, Spec

(* Moves do not overlap with anything, or there are none. *)
Unhurried == OneAtATime \/ "move" \notin Ops

(* Every live row, and perhaps some deleted ones, hang together. *)
Hangs == \E L \in SUBSET DOMAIN rows : Rooted(rows, L) /\ Live(rows) \subseteq L

(* Every path names the row it is of, that of a deleted row too. *)
OwnIds == \A n \in DOMAIN rows : n \in AncestorIds(rows[n].path)

SerialPlaces == SerialInv /\ OwnIds
NoMovePlaces == CountsInv /\ OwnIds

(* Both invariants say that live rows hang together. *)
LEMMA SerialHangs ==
  ASSUME SerialInv
  PROVE  IInv /\ Hangs
<1>1. Rooted(rows, Live(rows)) /\ Live(rows) \in SUBSET DOMAIN rows
  BY DEF SerialInv, Orderly, Live
<1> QED
  BY <1>1 DEF SerialInv, Hangs

(* The other one does so of deleted rows as well. *)
LEMMA NoMoveHangs ==
  ASSUME CountsInv
  PROVE  IInv /\ Hangs
BY DEF CountsInv, NoMoveInv, Grounded, Hangs

(* Live rows are where they hang, so only deleted ones need a look. *)
LEMMA OwnIdsOfLive ==
  ASSUME OwnIds, IInv', Hangs',
         \A n \in DOMAIN rows' \ Live(rows') : n \in DOMAIN rows /\ rows'[n].path = rows[n].path
  PROVE  OwnIds'
<1>1. PICK L \in SUBSET DOMAIN rows' : Rooted(rows', L) /\ Live(rows') \subseteq L
  BY DEF Hangs
<1>2. IsTable(rows')
  BY DEF IInv, TypeOK
<1>3. \A n \in Live(rows') : n \in AncestorIds(rows'[n].path)
  BY <1>1, <1>2, PathNamesAncestors
<1> QED
  BY <1>3 DEF OwnIds

(* One request at a time. *)
LEMMA SerialOwnIds ==
  ASSUME OneAtATime, SerialPlaces, NEW w \in Worker, TreeStep(w)
  PROVE  SerialPlaces'
<1>1. SerialInv' /\ IInv' /\ Hangs'
  BY SerialKeeps, SerialHangs, TreeStepKeeps DEF SerialPlaces, SerialInv, Hangs, Orderly, Live
<1>2. Entombed(rows, rows')
  BY TreeStepEntombs DEF SerialPlaces, SerialInv
<1>3. CASE DeleteCommit(w)
  BY <1>1, <1>3, DeleteCommitFacts, OwnIdsOfLive
  DEF SerialPlaces, SerialInv, IInv, TypeOK, StaysPut
<1>4. CASE ~DeleteCommit(w)
  <2>1. DOMAIN rows' \ Live(rows') \subseteq DOMAIN rows \ Live(rows)
    BY <1>4, ReadsOnly, SerialCreate, SerialRename, SerialMove DEF SerialPlaces
  <2> QED
    BY <1>1, <1>2, <2>1, OwnIdsOfLive DEF SerialPlaces, Entombed
<1> QED
  BY <1>3, <1>4

(* No moves. *)
LEMMA NoMoveOwnIds ==
  ASSUME "move" \notin Ops, NoMovePlaces, NEW w \in Worker, TreeStep(w)
  PROVE  NoMovePlaces'
<1>1. CountsInv' /\ StaysPut(rows, rows') /\ IInv
  BY CountsKeep, NoMoveStaysPut DEF NoMovePlaces, CountsInv, NoMoveInv
<1>2. IInv' /\ Hangs'
  BY <1>1 DEF CountsInv, NoMoveInv, Grounded, Hangs
<1>3. DOMAIN rows' \ Live(rows') \subseteq DOMAIN rows
  <2>1. CASE CreateCommit(w)
    <3>1. req[w].path = LocationPath(rows, req[w].parent) /\ IsTable(rows)
      BY <2>1 DEF NoMovePlaces, CountsInv, NoMoveInv, ReadsStand, CreateCommit, IInv, TypeOK
    <3>2. PICK n \in Node \ DOMAIN rows, row \in Row :
            row.deleted = FALSE /\ rows' = Inserted(rows, n, row)
      BY <1>1, <2>1, <3>1, CreateInserts
    <3>3. InsertEffect(rows, n, row, Inserted(rows, n, row))
      BY <3>1, <3>2, InsertedRows
    <3> QED
      BY <3>2, <3>3 DEF InsertEffect
  <2>2. CASE ~CreateCommit(w)
    <3>1. ~MoveCommit(w) /\ IsTable(rows)
      BY DEF NoMovePlaces, CountsInv, NoMoveInv, NoneMoving, MoveCommit, IInv, TypeOK
    <3> QED
      BY <2>2, <3>1, ReadsOnly, RenameCommitFacts, DeleteCommitFacts
  <2> QED
    BY <2>1, <2>2
<1> QED
  BY <1>1, <1>2, <1>3, OwnIdsOfLive DEF NoMovePlaces, StaysPut

(* So every path is of its row throughout, and live rows hang together. *)
LEMMA PlacesAlways ==
  ASSUME Unhurried
  PROVE  Spec => [](OwnIds /\ Hangs)
<1>1. Init => OwnIds
  BY OwnIdAssumption DEF Init, OwnIds
<1>2. CASE OneAtATime
  <2>1. Init => SerialPlaces
    BY <1>1, SerialInit DEF SerialPlaces
  <2>2. SerialPlaces /\ [Next]_vars => SerialPlaces'
    BY <1>2, SerialOwnIds, SerialStutter DEF Next, SerialPlaces, OwnIds, vars
  <2>3. SerialPlaces => OwnIds /\ Hangs
    BY SerialHangs DEF SerialPlaces
  <2> QED
    BY <2>1, <2>2, <2>3, PTL DEF Spec
<1>3. CASE "move" \notin Ops
  <2>1. Init => NoMovePlaces
    BY <1>1, CountsInit DEF NoMovePlaces
  <2>2. NoMovePlaces /\ [Next]_vars => NoMovePlaces'
    BY <1>3, NoMoveOwnIds, CountsStutter DEF Next, NoMovePlaces, OwnIds, vars
  <2>3. NoMovePlaces => OwnIds /\ Hangs
    BY NoMoveHangs DEF NoMovePlaces
  <2> QED
    BY <2>1, <2>2, <2>3, PTL DEF Spec
<1> QED
  BY <1>2, <1>3 DEF Unhurried

(* A grant on a live folder is never hidden by one of the same person's    *)
(* beneath that folder: the shorter path is the broader grant, as long as  *)
(* paths say what parent_id says (compareBreadth).                         *)
THEOREM NarrowNeverHidesBroadUnhurried ==
  ASSUME Unhurried
  PROVE  SharingSpec => []NarrowNeverHidesBroad
<1>1. SharingInv /\ Hangs => NarrowNeverHidesBroad
  <2> SUFFICES ASSUME SharingInv, Hangs, NEW email \in Verified, NEW s \in GrantsOf(email),
                      NEW sc \in ScopesOf(email), shares[s].node \in Live(rows), sc.root # Root
               PROVE  shares[s].node \notin Ancestors(rows, sc.root)
    BY DEF NarrowNeverHidesBroad
  <2> DEFINE grants == GrantsOf(email)
             n == shares[s].node
  <2>1. PICK L \in SUBSET DOMAIN rows : Rooted(rows, L) /\ Live(rows) \subseteq L
    BY DEF Hangs
  <2>2. IsTable(rows) /\ n # Root /\ n \in DOMAIN rows /\ ~rows[n].deleted
    BY NodeAssumption DEF SharingInv, IInv, TypeOK, IsTable, Live
  <2>3. PICK a \in Broadest({Locate(t) : t \in grants}) : sc = ScopeAt(a)
    BY SMTT(20) DEF ScopesOf, WholeRoom
  <2>4. PICK t \in grants : a = Locate(t)
    BY <2>3 DEF Broadest
  <2>5. sc.root = shares[t].node /\ a.path = rows[shares[t].node].path
        /\ a.deleted = rows[shares[t].node].deleted
    BY <2>3, <2>4 DEF ScopeAt, Locate
  <2>6. Locate(s).path = rows[n].path /\ Locate(s).deleted = rows[n].deleted
    BY DEF Locate
  <2>7. a = Locate(s) \/ Broader(a, Locate(s))
    BY <2>3 DEF Broadest
  <2>8. t \in DOMAIN shares /\ shares[t].node # Root
    BY <2>5 DEF GrantsOf
  <2>9. shares[t].node \in DOMAIN rows /\ ~rows[shares[t].node].deleted
    <3>1. shares[t].node \in DOMAIN rows
      BY <2>8, SharePath
    <3> QED
      BY <2>2, <2>5, <2>6, <2>7, <3>1 DEF Broader
  <2>10. Len(rows[shares[t].node].path) <= Len(rows[n].path)
    <3>1. Len(a.path) \in Nat
      BY <2>4, <2>8, LocateKeys
    <3> QED
      BY SMTT(20), <2>2, <2>5, <2>6, <2>7, <2>9, <3>1 DEF Broader
  <2>11. ASSUME n \in Ancestors(rows, shares[t].node)
         PROVE  FALSE
    <3> DEFINE m == shares[t].node
    <3>1. m \in L /\ n \in L /\ n # m
      BY <2>1, <2>2, <2>9, <2>11, PathNamesAncestors DEF Live
    <3>2. Within(rows[m].path, rows[n].path)
      BY <2>1, <2>2, <2>11, <3>1, PathNamesAncestors
    <3>3. /\ rows[m].path \in Seq(Node) /\ rows[n].path \in Seq(Node)
      BY <2>1, <2>2, <3>1, LocationOf
    <3>4. rows[m].path = rows[n].path
      BY <2>10, <3>2, <3>3 DEF Within, IsPrefix
    <3>5. Within(rows[n].path, rows[m].path)
      BY <3>3, <3>4, OwnPath
    <3>6. m \in Ancestors(rows, n)
      BY <2>1, <2>2, <3>1, <3>5, PathNamesAncestors
    <3>7. n \in Ancestors(rows, n)
      BY <2>1, <2>2, <2>11, <3>1, <3>6, AncestorsChain
    <3> QED
      BY <2>1, <2>2, <3>1, <3>7, PathNamesAncestors
  <2> QED
    BY <2>5, <2>11
<1> QED
  BY <1>1, SharingIsTree, PlacesAlways, SharingInvAlways, PTL

-----------------------------------------------------------------------------
(* A cascade in a room without moves *)

(* n hangs together with other rows, and top is above it. *)
NestedIn(table, n, top) ==
  \E L \in SUBSET DOMAIN table :
    /\ Rooted(table, L) /\ n \in L
    /\ top = Root \/ top \in AncestorIds(table[n].path) \ {n}

(* What a cascade has read of the tables, and whom it has found. *)
CascadeStands(r, table, grants) ==
  r.step \in Cascading =>
    /\ r.share \in DOMAIN grants
    /\ r.step \in {"listing", "nesting"} =>
         r.path = LocationPath(table, grants[r.share].node)
    /\ r.step = "nesting" =>
         \A s \in r.todo : /\ s \in DOMAIN grants /\ grants[s].to = grants[r.share].to
                         /\ grants[s].node # Root
    /\ \A s \in r.targets :
         \/ s = r.share
         \/ /\ s \in DOMAIN grants /\ grants[s].to = grants[r.share].to
            /\ grants[s].node # Root
            /\ NestedIn(table, grants[s].node, grants[r.share].node)

CascadeInv ==
  /\ SharingInv /\ NoMoveInv
  /\ \A o \in Desk : CascadeStands(desk[o], rows, shares)

(* What hangs together and stays where it is has the same nodes above it. *)
LEMMA NestedStill ==
  ASSUME NEW t, NEW u, StaysPut(t, u), NEW n, NEW top, NestedIn(t, n, top)
  PROVE  NestedIn(u, n, top)
<1>1. PICK L \in SUBSET DOMAIN t :
        /\ Rooted(t, L) /\ n \in L
        /\ top = Root \/ top \in AncestorIds(t[n].path) \ {n}
  BY DEF NestedIn
<1>2. \A m \in L : u[m].parent = t[m].parent /\ u[m].path = t[m].path
  BY DEF StaysPut
<1>3. L \in SUBSET DOMAIN u
  BY DEF StaysPut
<1>4. \A m \in L : u[m].parent \in L \cup {Root} /\ PathFollowsParent(u, m)
  BY <1>1, <1>2 DEF Rooted, PathFollowsParent, LocationPath
<1>5. Rooted(u, L)
  BY <1>3, <1>4 DEF Rooted
<1> QED
  BY <1>1, <1>2, <1>3, <1>5 DEF NestedIn

(* A live row has above it, by parent_id, what its path says. *)
LEMMA LooksNested ==
  ASSUME SharingInv, OwnIds, Hangs,
         NEW s \in DOMAIN shares, shares[s].node # Root, NEW top \in Known,
         Nests(Locate(s), LocationPath(rows, top))
  PROVE  NestedIn(rows, shares[s].node, top)
<1> DEFINE n == shares[s].node
           path == LocationPath(rows, top)
<1>1. PICK L \in SUBSET DOMAIN rows : Rooted(rows, L) /\ Live(rows) \subseteq L
  BY DEF Hangs
<1>2. IsTable(rows) /\ n \in DOMAIN rows
  BY SharePath DEF SharingInv, IInv, TypeOK
<1>3. n \in L /\ IsStrictPrefix(path, rows[n].path)
  BY <1>1, <1>2 DEF Nests, Locate, Live
<1>4. rows[n].path \in Seq(Node) /\ path \in Seq(Node)
  BY <1>2 DEF IsTable, Row, LocationPath, Known
<1>5. IsPrefix(path, rows[n].path) /\ path # rows[n].path
  BY <1>3 DEF IsStrictPrefix
<1>6. ASSUME top # Root
      PROVE  top \in AncestorIds(rows[n].path) \ {n}
  <2>1. path = rows[top].path /\ top \in AncestorIds(path)
    BY <1>6 DEF Known, LocationPath, OwnIds
  <2>2. Len(path) <= Len(rows[n].path) /\ \A i \in 1..Len(path) : path[i] = rows[n].path[i]
    BY <1>4, <1>5 DEF IsPrefix
  <2>3. \A i \in DOMAIN path : i \in DOMAIN rows[n].path /\ path[i] = rows[n].path[i]
    BY SMTT(20), <1>4, <2>2
  <2>4. AncestorIds(path) \subseteq AncestorIds(rows[n].path)
    BY <2>3 DEF AncestorIds, ToSet
  <2>5. top # n
    BY <1>5, <2>1
  <2> QED
    BY <2>1, <2>4, <2>5
<1> QED
  BY <1>1, <1>3, <1>6 DEF NestedIn

(* It stands while rows stay where they are and shares stay on their nodes. *)
LEMMA CascadeStandsStill ==
  ASSUME NEW r, NEW t, NEW u, NEW g, NEW h, CascadeStands(r, t, g), StaysPut(t, u),
         \A s \in DOMAIN g : g[s].node \in DOMAIN t \cup {Root},
         \A s \in DOMAIN g : s \in DOMAIN h /\ h[s].node = g[s].node /\ h[s].to = g[s].to
  PROVE  CascadeStands(r, u, h)
<1> SUFFICES ASSUME r.step \in Cascading
             PROVE  CascadeStands(r, u, h)
  BY DEF CascadeStands
<1>1. r.share \in DOMAIN g /\ h[r.share].node = g[r.share].node /\ h[r.share].to = g[r.share].to
  BY DEF CascadeStands
<1>2. LocationPath(u, h[r.share].node) = LocationPath(t, g[r.share].node)
  BY <1>1 DEF StaysPut, LocationPath
<1>3. ASSUME NEW s \in r.targets, s # r.share
      PROVE  /\ s \in DOMAIN h /\ h[s].to = h[r.share].to /\ h[s].node # Root
             /\ NestedIn(u, h[s].node, h[r.share].node)
  <2>1. /\ s \in DOMAIN g /\ g[s].to = g[r.share].to /\ g[s].node # Root
        /\ NestedIn(t, g[s].node, g[r.share].node)
    BY <1>3 DEF CascadeStands
  <2>2. NestedIn(u, g[s].node, g[r.share].node)
    BY <2>1, NestedStill
  <2> QED
    BY <1>1, <2>1, <2>2
<1> QED
  BY <1>1, <1>2, <1>3 DEF CascadeStands

(* No request of the owner moves a share to another node or person. *)
LEMMA SharesStay ==
  ASSUME SharingInv, NEW o \in Desk, WriteShare(o) \/ Revoke(o), NEW s \in DOMAIN shares
  PROVE  s \in DOMAIN shares' /\ shares'[s].node = shares[s].node /\ shares'[s].to = shares[s].to
<1>1. shares[s] \in ShareRow
  BY DEF SharingInv, ShareTypeOK
<1>2. CASE ShareInsert(o)
  BY <1>2 DEF ShareInsert
<1>3. CASE RevokeWrite(o)
  <2>1. s \in DOMAIN shares' /\ (shares'[s] = shares[s] \/ shares'[s] = [shares[s] EXCEPT !.revoked = now])
    BY <1>3 DEF RevokeWrite, Revoked
  <2> QED
    BY <1>1, <2>1 DEF ShareRow
<1>4. CASE UNCHANGED shares
  BY <1>4
<1> QED
  BY <1>2, <1>3, <1>4 DEF WriteShare, Revoke, ShareResolve, RevokeFind, RevokePath, RevokeList,
                          RevokeLook

(* What a request of the owner takes up stands when it does. *)
LEMMA CascadeTakenUp ==
  ASSUME CascadeInv, OwnIds, Hangs, NEW o \in Desk, WriteShare(o) \/ Revoke(o)
  PROVE  CascadeStands(desk'[o], rows', shares')
<1>1. /\ ShareTypeOK /\ SharingInv /\ RowsKnown
      /\ desk \in [Desk -> DeskReq \cup {Idle}]
      /\ CascadeStands(desk[o], rows, shares)
      /\ ~(Idle.step \in Cascading)
  BY DEF CascadeInv, SharingInv, ShareTypeOK, Idle, Cascading
<1>2. \A r : Sit(o, r) => desk'[o] = r /\ rows' = rows
  BY <1>1 DEF Sit
<1>3. ASSUME NEW wish \in Wish, ShareResolve(o, wish)
      PROVE  CascadeStands(desk'[o], rows', shares')
  <2>1. desk'[o].step = "sharing"
    BY <1>2, <1>3 DEF ShareResolve
  <2> QED
    BY <2>1 DEF CascadeStands, Cascading
<1>4. ASSUME Sit(o, Idle)
      PROVE  CascadeStands(desk'[o], rows', shares')
  BY <1>1, <1>2, <1>4 DEF CascadeStands
<1>5. ASSUME NEW s \in Share, NEW cascade \in BOOLEAN, RevokeFind(o, s, cascade)
      PROVE  CascadeStands(desk'[o], rows', shares')
  <2> DEFINE nests == cascade /\ shares[s].to # Link /\ shares[s].revoked = Never
             step == IF nests THEN "pathing" ELSE "revoking"
             r == [step |-> step, share |-> s, path |-> <<>>, todo |-> {}, targets |-> {s}]
  <2>1. desk'[o] = r /\ UNCHANGED shares /\ s \in DOMAIN shares
    BY <1>2, <1>5 DEF RevokeFind
  <2>2. step \in {"pathing", "revoking"}
    OBVIOUS
  <2> HIDE DEF step
  <2>3. r.step = step /\ r.share = s /\ r.targets = {s}
    OBVIOUS
  <2> HIDE DEF r
  <2> QED
    BY <2>1, <2>2, <2>3 DEF CascadeStands
<1>6. CASE RevokePath(o)
  <2> DEFINE path == LocationPath(rows, shares[desk[o].share].node)
             r == [desk[o] EXCEPT !.step = "listing", !.path = path]
  <2>1. desk[o] \in CascadeReq /\ desk[o].step \in Cascading
    BY <1>1, <1>6, DeskKind DEF RevokePath, Cascading
  <2>2. desk'[o] = r /\ UNCHANGED <<rows, shares>>
    BY <1>2, <1>6 DEF RevokePath
  <2> HIDE DEF path
  <2>3. /\ r.step = "listing" /\ r.share = desk[o].share /\ r.path = path
        /\ r.targets = desk[o].targets
    BY <2>1 DEF CascadeReq
  <2> HIDE DEF r
  <2> QED
    BY <1>1, <2>1, <2>2, <2>3 DEF CascadeStands, path
<1>7. CASE RevokeList(o)
  <2> DEFINE todo == {s \in GrantsOf(shares[desk[o].share].to) : shares[s].node # Root}
             r == [desk[o] EXCEPT !.step = "nesting", !.todo = todo]
  <2>1. /\ desk[o] \in CascadeReq /\ desk[o].step = "listing" /\ desk[o].step \in Cascading
    BY <1>1, <1>7, DeskKind DEF RevokeList, Cascading
  <2>2. desk'[o] = r /\ UNCHANGED <<rows, shares>>
    BY <1>2, <1>7 DEF RevokeList
  <2>3. \A s \in todo : /\ s \in DOMAIN shares /\ shares[s].node # Root
                       /\ shares[s].to = shares[desk[o].share].to
    BY DEF GrantsOf
  <2> HIDE DEF todo
  <2>4. /\ r.step = "nesting" /\ r.share = desk[o].share /\ r.path = desk[o].path
        /\ r.todo = todo /\ r.targets = desk[o].targets
    BY <2>1 DEF CascadeReq
  <2> HIDE DEF r
  <2> QED
    BY <1>1, <2>1, <2>2, <2>3, <2>4 DEF CascadeStands
<1>8. CASE RevokeLook(o)
  <2>1. /\ desk[o] \in CascadeReq /\ desk[o].step = "nesting" /\ desk[o].step \in Cascading
    BY <1>1, <1>8, DeskKind DEF RevokeLook, Cascading
  <2>2. PICK s \in desk[o].todo :
          Sit(o, [desk[o] EXCEPT
                    !.todo = @ \ {s},
                    !.targets = IF Nests(Locate(s), desk[o].path) THEN @ \cup {s} ELSE @])
    BY <1>8 DEF RevokeLook
  <2> DEFINE more == IF Nests(Locate(s), desk[o].path) THEN desk[o].targets \cup {s}
                     ELSE desk[o].targets
             r == [desk[o] EXCEPT !.todo = desk[o].todo \ {s}, !.targets = more]
  <2>3. desk'[o] = r /\ UNCHANGED <<rows, shares>>
    BY <1>2, <1>8, <2>1, <2>2 DEF RevokeLook, CascadeReq
  <2>4. /\ s \in DOMAIN shares /\ shares[s].to = shares[desk[o].share].to
        /\ shares[s].node # Root
        /\ desk[o].path = LocationPath(rows, shares[desk[o].share].node)
    BY <1>1, <2>1 DEF CascadeStands
  <2>5. ASSUME Nests(Locate(s), desk[o].path)
        PROVE  NestedIn(rows, shares[s].node, shares[desk[o].share].node)
    <3>1. shares[desk[o].share].node \in Known
      BY <1>1, <2>1 DEF CascadeStands, RowsKnown
    <3> QED
      BY <1>1, <2>4, <2>5, <3>1, LooksNested
  <2>6. \A t \in more :
          \/ t \in desk[o].targets
          \/ t = s /\ NestedIn(rows, shares[s].node, shares[desk[o].share].node)
    BY <2>5
  <2> HIDE DEF more
  <2>7. /\ r.step = "nesting" /\ r.share = desk[o].share /\ r.path = desk[o].path
        /\ r.todo = desk[o].todo \ {s} /\ r.targets = more
    BY <2>1 DEF CascadeReq
  <2> HIDE DEF r
  <2> QED
    BY <1>1, <2>1, <2>3, <2>4, <2>6, <2>7 DEF CascadeStands
<1> QED
  BY <1>3, <1>4, <1>5, <1>6, <1>7, <1>8 DEF WriteShare, Revoke, ShareInsert, RevokeWrite

(* No step of a room without moves breaks it. *)
LEMMA CascadeNextSound ==
  ASSUME "move" \notin Ops, CascadeInv, OwnIds, Hangs, [SharingNext]_sharingVars
  PROVE  CascadeInv'
<1>1. SharingInv'
  BY SharingNextSound DEF CascadeInv
<1>2. CASE Next /\ UNCHANGED shareVars
  <2>1. PICK w \in Worker : TreeStep(w)
    BY <1>2 DEF Next
  <2>2. NoMoveInv' /\ StaysPut(rows, rows')
    BY <2>1, NoMoveKeeps, NoMoveStaysPut DEF CascadeInv
  <2>3. UNCHANGED <<shares, desk>>
    BY <1>2 DEF shareVars
  <2>4. \A s \in DOMAIN shares : shares[s].node \in DOMAIN rows \cup {Root}
    BY DEF CascadeInv, SharingInv, RowsKnown, Known
  <2>5. \A o \in Desk : CascadeStands(desk[o], rows', shares)
    BY <2>2, <2>4, CascadeStandsStill DEF CascadeInv
  <2> QED
    BY <1>1, <2>2, <2>3, <2>5 DEF CascadeInv
<1>3. ASSUME NEW o \in Desk, WriteShare(o) \/ Revoke(o)
      PROVE  CascadeInv'
  <2>1. /\ UNCHANGED <<rows, room, req>>
        /\ \A p \in Desk \ {o} : desk'[p] = desk[p]
    BY <1>3 DEF CascadeInv, SharingInv, ShareTypeOK, WriteShare, Revoke, ShareResolve, ShareInsert,
                RevokeFind, RevokePath, RevokeList, RevokeLook, RevokeWrite, Sit
  <2>2. NoMoveInv'
    BY <2>1, NoMoveStutter DEF CascadeInv, vars
  <2>3. StaysPut(rows, rows')
    BY <2>1 DEF StaysPut
  <2>4. \A s \in DOMAIN shares : shares[s].node \in DOMAIN rows \cup {Root}
    BY DEF CascadeInv, SharingInv, RowsKnown, Known
  <2>5. \A s \in DOMAIN shares :
          s \in DOMAIN shares' /\ shares'[s].node = shares[s].node /\ shares'[s].to = shares[s].to
    BY <1>3, SharesStay DEF CascadeInv
  <2>6. \A p \in Desk \ {o} : CascadeStands(desk[p], rows', shares')
    BY <2>3, <2>4, <2>5, CascadeStandsStill DEF CascadeInv
  <2>7. \A p \in Desk : CascadeStands(desk'[p], rows', shares')
    BY <1>3, <2>1, <2>6, CascadeTakenUp
  <2> QED
    BY <1>1, <2>2, <2>7 DEF CascadeInv
<1>4. CASE UNCHANGED <<rows, room, req, shares, desk>>
  <2>1. NoMoveInv'
    BY <1>4, NoMoveStutter DEF CascadeInv, vars
  <2> QED
    BY <1>1, <1>4, <2>1 DEF CascadeInv
<1>5. ASSUME NEW c \in Reader, Browse(c)
      PROVE  UNCHANGED <<rows, room, req, shares, desk>>
  BY <1>5 DEF Browse, AskAsUser, AskWithToken, GrantRefused, GrantWholeRoom, GrantNodes,
              LocateGrant, Reading, Serve, Refuse, Hear
<1> QED
  BY <1>2, <1>3, <1>4, <1>5 DEF SharingNext, Tick, sharingVars

(* While nothing is moved, a cascade revokes beside its own share only     *)
(* grants of the same person on nodes beneath its node, whatever is        *)
(* shared, revoked or deleted between its four statements                  *)
(* (ShareService, nestedLiveGrantShareIds).                                *)
THEOREM CascadeStaysWithoutMoves ==
  ASSUME "move" \notin Ops
  PROVE  SharingSpec => CascadeStaysWithGrantee
<1>1. SharingInit => CascadeInv
  BY SharingInitSound, NoMoveInit DEF SharingInit, CascadeInv, CascadeStands, Idle, Cascading
<1>2. CascadeInv /\ OwnIds /\ Hangs /\ [SharingNext]_sharingVars => CascadeInv'
  BY CascadeNextSound
<1>3. CascadeInv =>
        [\A o \in Desk : RevokeWrite(o) =>
           LET top == shares[desk[o].share]
           IN  \A s \in DOMAIN shares \ {desk[o].share} :
                 shares'[s] # shares[s] =>
                   shares[s].to = top.to /\ Nested(shares[s].node, top.node)]_sharingVars
  <2> SUFFICES ASSUME CascadeInv, NEW o \in Desk, RevokeWrite(o), NEW s \in DOMAIN shares,
                      shares'[s] # shares[s], s # desk[o].share
               PROVE  /\ shares[s].to = shares[desk[o].share].to
                      /\ Nested(shares[s].node, shares[desk[o].share].node)
    OBVIOUS
  <2> DEFINE n == shares[s].node
             top == shares[desk[o].share].node
  <2>1. s \in desk[o].targets /\ desk[o].step \in Cascading
    BY DEF RevokeWrite, Revoked, Cascading
  <2>2. /\ shares[s].to = shares[desk[o].share].to /\ n # Root
        /\ NestedIn(rows, n, top) /\ IsTable(rows)
    BY <2>1 DEF CascadeInv, CascadeStands, NoMoveInv, IInv, TypeOK
  <2>3. PICK L \in SUBSET DOMAIN rows :
          /\ Rooted(rows, L) /\ n \in L
          /\ top = Root \/ top \in AncestorIds(rows[n].path) \ {n}
    BY <2>2 DEF NestedIn
  <2>4. AncestorIds(rows[n].path) = Ancestors(rows, n) \cup {n}
    BY <2>2, <2>3, PathNamesAncestors
  <2>5. Nested(n, top)
    BY <2>2, <2>3, <2>4 DEF Nested
  <2> QED
    BY <2>2, <2>5
<1> QED
  BY <1>1, <1>2, <1>3, SharingIsTree, PlacesAlways, PTL
  DEF SharingSpec, CascadeStaysWithGrantee, Unhurried

-----------------------------------------------------------------------------
(* Whom a node is served to *)

(* A share that the request may rest on. *)
Gives(r, s, grants) ==
  /\ s \in DOMAIN grants /\ s \notin r.dead
  /\ r.by \in {s, grants[s].to}

(* What a read has found of the shares, and of the paths of their nodes. *)
AskStands(r, grants, spent) ==
  /\ r.step \in {"granting", "locating", "reading"} => r.dead \subseteq spent
  /\ r.step \in {"granting", "locating"} =>
       \A a \in r.found : /\ Gives(r, a.share, grants) /\ a.node = grants[a.share].node
                          /\ a.node \in AncestorIds(a.path)
  /\ r.step = "locating" => \A s \in r.todo : Gives(r, s, grants)
  /\ r.step = "reading" =>
       /\ Gives(r, r.scope.via, grants) /\ r.scope.root = grants[r.scope.via].node
       /\ r.scope.root = Root \/ r.scope.root \in AncestorIds(r.scope.path)

ServedInv ==
  /\ SharingInv /\ OwnIds
  /\ \A c \in Reader : AskStands(ask[c], shares, Spent)

(* It stands while shares stay as they are, and what is spent is spent. *)
LEMMA AskStandsStill ==
  ASSUME NEW r, NEW g, NEW h, NEW t, NEW u, AskStands(r, g, t), t \subseteq u,
         \A s \in DOMAIN g : s \in DOMAIN h /\ h[s].node = g[s].node /\ h[s].to = g[s].to
  PROVE  AskStands(r, h, u)
<1>1. \A s : Gives(r, s, g) => Gives(r, s, h)
  BY DEF Gives
<1>2. \A s : Gives(r, s, g) => h[s].node = g[s].node
  BY DEF Gives
<1> QED
  BY <1>1, <1>2 DEF AskStands

(* A share that has given its last never gives again. *)
LEMMA SpentStays ==
  ASSUME SharingInv, NEW o \in Desk, WriteShare(o) \/ Revoke(o)
  PROVE  Spent \subseteq Spent'
<1>1. now' = now
  BY DEF WriteShare, Revoke, ShareResolve, ShareInsert, RevokeFind, RevokePath, RevokeList,
         RevokeLook, RevokeWrite, Sit
<1>2. ASSUME NEW s \in DOMAIN shares
      PROVE  /\ s \in DOMAIN shares' /\ shares'[s].expires = shares[s].expires
             /\ shares[s].revoked # Never => shares'[s].revoked # Never
  <2>1. shares[s] \in ShareRow /\ now # Never
    BY ClockAssumption DEF SharingInv, ShareTypeOK
  <2>2. CASE ShareInsert(o)
    BY <2>2 DEF ShareInsert
  <2>3. CASE RevokeWrite(o)
    <3>1. /\ s \in DOMAIN shares'
          /\ shares'[s] = shares[s] \/ shares'[s] = [shares[s] EXCEPT !.revoked = now]
      BY <2>3 DEF RevokeWrite, Revoked
    <3> QED
      BY <2>1, <3>1 DEF ShareRow
  <2>4. CASE UNCHANGED shares
    BY <2>4
  <2> QED
    BY <2>2, <2>3, <2>4 DEF WriteShare, Revoke, ShareResolve, RevokeFind, RevokePath, RevokeList,
                            RevokeLook
<1> QED
  BY SMTT(20), <1>1, <1>2 DEF Spent

(* Nor does the clock run back. *)
LEMMA TickSpends ==
  ASSUME SharingInv, Tick
  PROVE  Spent \subseteq Spent'
<1>1. shares' = shares /\ now' = now + 1 /\ now \in Nat
  BY ClockAssumption DEF Tick, SharingInv, ShareTypeOK
<1>2. \A s \in DOMAIN shares : shares[s].expires \in Nat \cup {Never}
  BY DEF SharingInv, ShareTypeOK, ShareRow
<1> QED
  BY <1>1, <1>2 DEF Spent

(* What is offered to a request is to its caller, and gives something. *)
LEMMA OfferedGives ==
  ASSUME SharingInv, NEW r, r.dead \subseteq Spent, NEW s \in Offered(r.by)
  PROVE  Gives(r, s, shares)
<1>1. s \in DOMAIN shares /\ Usable(s) /\ r.by \in {s, shares[s].to}
  BY DEF Offered, GrantsOf
<1>2. shares[s] \in ShareRow /\ now \in Nat
  BY <1>1, ClockAssumption DEF SharingInv, ShareTypeOK
<1>3. s \notin Spent
  BY <1>1, <1>2 DEF Usable, Spent, ShareRow
<1> QED
  BY <1>1, <1>3 DEF Gives

(* What a read takes up stands when it does. *)
LEMMA AskTakenUp ==
  ASSUME ServedInv, NEW c \in Reader, Browse(c)
  PROVE  AskStands(ask'[c], shares, Spent)
<1>1. /\ SharingInv /\ ShareTypeOK /\ RowsKnown /\ ask \in [Reader -> AskReq \cup {Idle}]
      /\ AskStands(ask[c], shares, Spent) /\ Idle.step = "idle"
  BY DEF ServedInv, SharingInv, ShareTypeOK, Idle
<1>2. \A r : Hear(c, r) => ask'[c] = r
  BY <1>1 DEF Hear
<1>3. ASSUME NEW email \in Email, NEW target \in Node \cup {Root}, AskAsUser(c, email, target)
      PROVE  AskStands(ask'[c], shares, Spent)
  <2> DEFINE dead == {s \in Spent : shares[s].to = email}
             r == [step |-> "granting", by |-> email, target |-> target, dead |-> dead,
                   todo |-> {}, found |-> {}]
  <2>1. ask'[c] = r
    BY <1>2, <1>3 DEF AskAsUser
  <2>2. r.step = "granting" /\ r.dead \subseteq Spent /\ r.found = {}
    OBVIOUS
  <2> HIDE DEF r
  <2> QED
    BY <2>1, <2>2 DEF AskStands
<1>4. ASSUME NEW s \in Share, NEW target \in Node \cup {Root}, AskWithToken(c, s, target)
      PROVE  AskStands(ask'[c], shares, Spent)
  <2> DEFINE r == [step |-> "granting", by |-> s, target |-> target, dead |-> Spent \cap {s},
                   todo |-> {}, found |-> {}]
  <2>1. ask'[c] = r
    BY <1>2, <1>4 DEF AskWithToken
  <2>2. r.step = "granting" /\ r.dead \subseteq Spent /\ r.found = {}
    OBVIOUS
  <2> HIDE DEF r
  <2> QED
    BY <2>1, <2>2 DEF AskStands
<1>5. ASSUME Hear(c, Idle)
      PROVE  AskStands(ask'[c], shares, Spent)
  BY <1>1, <1>2, <1>5 DEF AskStands
<1>6. ASSUME NEW scope, Reading(c, scope), ask[c].dead \subseteq Spent,
             Gives(ask[c], scope.via, shares), scope.root = shares[scope.via].node,
             scope.root = Root \/ scope.root \in AncestorIds(scope.path)
      PROVE  AskStands(ask'[c], shares, Spent)
  <2> DEFINE r == [step |-> "reading", by |-> ask[c].by, target |-> ask[c].target,
                   dead |-> ask[c].dead, scope |-> scope]
  <2>1. ask'[c] = r
    BY <1>2, <1>6 DEF Reading
  <2>2. r.step = "reading" /\ r.by = ask[c].by /\ r.dead = ask[c].dead /\ r.scope = scope
    OBVIOUS
  <2> HIDE DEF r
  <2>3. Gives(r, scope.via, shares)
    BY <1>6, <2>2 DEF Gives
  <2> QED
    BY <1>6, <2>1, <2>2, <2>3 DEF AskStands
<1>7. CASE GrantWholeRoom(c)
  <2>1. ask[c].dead \subseteq Spent
    BY <1>1, <1>7 DEF GrantWholeRoom, AskStands
  <2>2. PICK s \in Offered(ask[c].by) : shares[s].node = Root /\ Reading(c, WholeRoom(s))
    BY <1>7 DEF GrantWholeRoom
  <2>3. Gives(ask[c], s, shares)
    BY <1>1, <2>1, OfferedGives
  <2>4. WholeRoom(s).via = s /\ WholeRoom(s).root = Root
    BY DEF WholeRoom
  <2> QED
    BY <1>6, <2>1, <2>2, <2>3, <2>4
<1>8. CASE GrantNodes(c)
  <2> DEFINE grants == Offered(ask[c].by)
             r == [ask[c] EXCEPT !.step = "locating", !.todo = grants]
  <2>1. ask[c] \in LocatingReq /\ ask[c].step = "granting"
    BY <1>1, <1>8, AskKind DEF GrantNodes
  <2>2. ask'[c] = r
    BY <1>2, <1>8 DEF GrantNodes
  <2>3. \A s \in grants : Gives(ask[c], s, shares)
    BY <1>1, <2>1, OfferedGives DEF AskStands
  <2> HIDE DEF grants
  <2>4. /\ r.step = "locating" /\ r.by = ask[c].by /\ r.dead = ask[c].dead /\ r.todo = grants
        /\ r.found = ask[c].found
    BY <2>1 DEF LocatingReq
  <2> HIDE DEF r
  <2>5. \A s : Gives(r, s, shares) <=> Gives(ask[c], s, shares)
    BY <2>4 DEF Gives
  <2> QED
    BY <1>1, <2>1, <2>2, <2>3, <2>4, <2>5 DEF AskStands
<1>9. CASE LocateGrant(c)
  <2>1. ask[c] \in LocatingReq /\ ask[c].step = "locating"
    BY <1>1, <1>9, AskKind DEF LocateGrant
  <2>2. PICK s \in ask[c].todo :
          IF ask[c].todo = {s}
          THEN \E a \in Broadest(ask[c].found \cup {Locate(s)}) : Reading(c, ScopeAt(a))
          ELSE Hear(c, [ask[c] EXCEPT !.todo = @ \ {s}, !.found = ask[c].found \cup {Locate(s)}])
    BY <1>9 DEF LocateGrant
  <2> DEFINE found == ask[c].found \cup {Locate(s)}
  <2>3. Gives(ask[c], s, shares) /\ shares[s].node # Root /\ s \in DOMAIN shares
    BY <1>1, <2>1 DEF AskStands, RowsKnown
  <2>4. ASSUME NEW a \in found
        PROVE  /\ Gives(ask[c], a.share, shares) /\ a.node = shares[a.share].node
               /\ a.node \in AncestorIds(a.path)
    <3>1. CASE a \in ask[c].found
      BY <1>1, <2>1, <3>1 DEF AskStands
    <3>2. CASE a = Locate(s)
      <4>1. shares[s].node \in DOMAIN rows
        BY <1>1, <2>3, SharePath
      <4>2. /\ a.share = s /\ a.node = shares[s].node /\ a.path = rows[shares[s].node].path
        BY <3>2 DEF Locate
      <4> QED
        BY <2>3, <4>1, <4>2 DEF ServedInv, OwnIds
    <3> QED
      BY <3>1, <3>2
  <2> HIDE DEF found
  <2>5. ASSUME NEW a \in Broadest(found), Reading(c, ScopeAt(a))
        PROVE  AskStands(ask'[c], shares, Spent)
    <3>1. a \in found /\ ask[c].dead \subseteq Spent
      BY <1>1, <2>1 DEF Broadest, AskStands
    <3>2. ScopeAt(a).via = a.share /\ ScopeAt(a).root = a.node /\ ScopeAt(a).path = a.path
      BY DEF ScopeAt
    <3> QED
      BY <1>6, <2>4, <2>5, <3>1, <3>2
  <2>6. ASSUME Hear(c, [ask[c] EXCEPT !.todo = @ \ {s}, !.found = found])
        PROVE  AskStands(ask'[c], shares, Spent)
    <3> DEFINE r == [ask[c] EXCEPT !.todo = ask[c].todo \ {s}, !.found = found]
    <3>1. ask'[c] = r
      BY <1>2, <2>1, <2>6 DEF LocatingReq
    <3>2. /\ r.step = "locating" /\ r.by = ask[c].by /\ r.dead = ask[c].dead
          /\ r.todo = ask[c].todo \ {s} /\ r.found = found
      BY <2>1 DEF LocatingReq
    <3> HIDE DEF r
    <3>3. \A t : Gives(r, t, shares) <=> Gives(ask[c], t, shares)
      BY <3>2 DEF Gives
    <3> QED
      BY <1>1, <2>1, <2>4, <3>1, <3>2, <3>3 DEF AskStands
  <2> QED
    BY <2>2, <2>5, <2>6 DEF found
<1> QED
  BY <1>3, <1>4, <1>5, <1>7, <1>8, <1>9 DEF Browse, GrantRefused, Serve, Refuse

(* No step breaks it, as long as paths name their rows. *)
LEMMA ServedNextSound ==
  ASSUME ServedInv, OwnIds', [SharingNext]_sharingVars
  PROVE  ServedInv'
<1>1. SharingInv' /\ SharingInv /\ \A c \in Reader : AskStands(ask[c], shares, Spent)
  BY SharingNextSound DEF ServedInv
<1>2. ASSUME UNCHANGED ask, Spent \subseteq Spent',
             \A s \in DOMAIN shares : s \in DOMAIN shares' /\ shares'[s].node = shares[s].node
                                      /\ shares'[s].to = shares[s].to
      PROVE  ServedInv'
  BY <1>1, <1>2, AskStandsStill DEF ServedInv
<1>3. CASE UNCHANGED <<shares, now, ask>>
  BY <1>1, <1>3 DEF ServedInv, Spent
<1>4. CASE Tick
  BY <1>1, <1>2, <1>4, TickSpends DEF Tick
<1>5. ASSUME NEW o \in Desk, WriteShare(o) \/ Revoke(o)
      PROVE  ServedInv'
  <2>1. UNCHANGED ask
    BY <1>5 DEF WriteShare, Revoke, ShareResolve, ShareInsert, RevokeFind, RevokePath, RevokeList,
                RevokeLook, RevokeWrite, Sit
  <2>2. Spent \subseteq Spent'
    BY <1>1, <1>5, SpentStays
  <2> QED
    BY SMTT(20), <1>1, <1>2, <1>5, <2>1, <2>2, SharesStay
<1>6. ASSUME NEW c \in Reader, Browse(c)
      PROVE  ServedInv'
  <2>1. /\ UNCHANGED <<shares, now>>
        /\ \A d \in Reader \ {c} : ask'[d] = ask[d]
    BY <1>1, <1>6 DEF SharingInv, ShareTypeOK, Browse, AskAsUser, AskWithToken, GrantRefused,
                      GrantWholeRoom, GrantNodes, LocateGrant, Reading, Serve, Refuse, Hear
  <2>2. Spent' = Spent
    BY <2>1 DEF Spent
  <2>3. \A d \in Reader : AskStands(ask'[d], shares', Spent')
    BY <1>1, <1>6, <2>1, <2>2, AskTakenUp
  <2> QED
    BY <1>1, <2>3 DEF ServedInv
<1> QED
  BY <1>3, <1>4, <1>5, <1>6 DEF SharingNext, shareVars, sharingVars

(* A node that is served lies, where it is now, under the node of a share  *)
(* that is to this caller and gave something when the request came in: a   *)
(* scope that was resolved before a move or a delete is still worth its    *)
(* path, because a path names the ids above a node and an id is never used *)
(* again (findInScope, resolveForUser, resolveForToken).                   *)
THEOREM ServedUnderLiveShareUnhurried ==
  ASSUME Unhurried
  PROVE  SharingSpec => ServedUnderLiveShare
<1>1. SharingInit /\ OwnIds => ServedInv
  BY SharingInitSound DEF SharingInit, ServedInv, AskStands, Idle
<1>2. ServedInv /\ OwnIds' /\ [SharingNext]_sharingVars => ServedInv'
  BY ServedNextSound
<1>3. ServedInv /\ Hangs =>
        [\A c \in Reader : Serve(c) =>
           LET via == ask[c].scope.via
           IN  /\ Covers(via, Subject(ask[c]))
               /\ via \notin ask[c].dead
               /\ ask[c].by \in {via, shares[via].to}]_sharingVars
  <2> SUFFICES ASSUME ServedInv, Hangs, NEW c \in Reader, Serve(c)
               PROVE  /\ Covers(ask[c].scope.via, Subject(ask[c]))
                      /\ ask[c].scope.via \notin ask[c].dead
                      /\ ask[c].by \in {ask[c].scope.via, shares[ask[c].scope.via].to}
    OBVIOUS
  <2> DEFINE r == ask[c]
             n == Subject(r)
             top == r.scope.root
  <2>1. /\ Gives(r, r.scope.via, shares) /\ top = shares[r.scope.via].node
        /\ top = Root \/ top \in AncestorIds(r.scope.path)
        /\ r \in ReadingReq /\ IsTable(rows)
    BY AskKind DEF ServedInv, SharingInv, IInv, TypeOK, AskStands, Serve
  <2>2. n = Root \/ (n \in Live(rows) /\ Within(rows[n].path, r.scope.path))
    BY DEF Serve, InScope
  <2>3. r.scope.path \in Seq(Node)
    BY <2>1 DEF ReadingReq, Scope
  <2>4. CASE top = Root
    BY <2>1, <2>4 DEF Covers, Gives
  <2>5. CASE n = Root
    <3>1. top = Root
      BY <2>5 DEF Subject
    <3> QED
      BY <2>1, <3>1 DEF Covers, Gives
  <2>6. CASE top # Root /\ n # Root
    <3>1. PICK L \in SUBSET DOMAIN rows : Rooted(rows, L) /\ Live(rows) \subseteq L
      BY DEF Hangs
    <3>2. n \in L /\ rows[n].path \in Seq(Node)
      BY <2>1, <2>2, <2>6, <3>1, LocationOf
    <3>3. AncestorIds(r.scope.path) \subseteq AncestorIds(rows[n].path)
      <4>1. Len(r.scope.path) <= Len(rows[n].path)
            /\ \A i \in 1..Len(r.scope.path) : r.scope.path[i] = rows[n].path[i]
        BY <2>2, <2>3, <2>6, <3>2 DEF Within, IsPrefix
      <4>2. \A i \in DOMAIN r.scope.path : i \in DOMAIN rows[n].path
                                           /\ r.scope.path[i] = rows[n].path[i]
        BY SMTT(20), <2>3, <3>2, <4>1
      <4> QED
        BY <4>2 DEF AncestorIds, ToSet
    <3>4. AncestorIds(rows[n].path) = Ancestors(rows, n) \cup {n}
      BY <2>1, <3>1, <3>2, PathNamesAncestors
    <3>5. top \in Ancestors(rows, n) \cup {n}
      BY <2>1, <2>6, <3>3, <3>4
    <3> QED
      BY <2>1, <2>6, <3>5 DEF Covers, Gives
  <2> QED
    BY <2>4, <2>5, <2>6
<1> QED
  BY <1>1, <1>2, <1>3, SharingIsTree, PlacesAlways, PTL DEF SharingSpec, ServedUnderLiveShare
=============================================================================
