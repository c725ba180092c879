------------------------------ MODULE Sharing ------------------------------
(***************************************************************************)
(* Shares of one Data Room and the scopes they give, beside the tree's own *)
(* requests: ShareService, ShareRepository and AccessControlService.  The  *)
(* owner writes and revokes shares; readers, signed in or holding a link,  *)
(* resolve a scope and then read one node under it.  Every read or write   *)
(* of the database is a step, and a delete, a move, a revocation or the    *)
(* passing of time may fall between any two.                               *)
(*                                                                         *)
(* Room ids never change hands here, so the data_room_id predicate of each *)
(* statement is true.  A link's token is named by the share it belongs to. *)
(***************************************************************************)
EXTENDS NodeTree

CONSTANTS
  Share,      \* share ids, comparable as localeCompare compares them
  Email,      \* normalized addresses
  Verified,   \* the addresses whose user row says emailVerified
  Link,       \* the share is a LINK and has no grantee_email
  Never,      \* no expires_at, or no revoked_at yet
  Horizon,    \* the clock stops here
  Wish,       \* what the owner asks to share: node, to whom, until when
  Desk,       \* the owner's share requests in flight
  Reader      \* read requests in flight

ASSUME ShareAssumption == Share \subseteq Nat /\ IsFiniteSet(Share)
ASSUME EmailAssumption == Verified \subseteq Email /\ Link \notin Email
ASSUME ClockAssumption ==
  Horizon \in Nat /\ Never \notin Nat
ASSUME WishAssumption ==
  Wish \subseteq [node : Node \cup {Root}, to : Email \cup {Link},
                  expires : Nat \cup {Never}]

VARIABLES
  shares,   \* the shares table
  now,      \* the clock
  desk,     \* what each request of the owner holds between two statements
  ask       \* what each read request holds between two statements

shareVars == <<shares, now, desk, ask>>

sharingVars == <<rows, room, req, shares, now, desk, ask>>

ShareRow ==
  [node : Node \cup {Root}, to : Email \cup {Link}, expires : Nat \cup {Never},
   created : 0..Horizon, revoked : 0..Horizon \cup {Never}]

(* A grant with what findGrantNodeInRoom said of its node. *)
Found == [share : Share, node : Node, path : Seq(Node), deleted : BOOLEAN]

Scope == [root : Node \cup {Root}, path : Seq(Node), via : Share]

DeskReq ==
  [step : {"sharing"}, wish : Wish]
  \cup
  [step : {"pathing", "listing", "nesting", "revoking"}, share : Share,
   path : Seq(Node), todo : SUBSET Share, targets : SUBSET Share]

(* `dead` is no part of the code: those of the caller's shares that gave   *)
(* nothing any more when the request came in.                              *)
AskReq ==
  [step : {"granting", "locating"}, by : Email \cup Share,
   target : Node \cup {Root}, dead : SUBSET Share, todo : SUBSET Share,
   found : SUBSET Found]
  \cup
  [step : {"reading"}, by : Email \cup Share, target : Node \cup {Root},
   dead : SUBSET Share, scope : Scope]

ShareTypeOK ==
  /\ DOMAIN shares \subseteq Share
  /\ shares \in [DOMAIN shares -> ShareRow]
  /\ now \in 0..Horizon
  /\ desk \in [Desk -> DeskReq \cup {Idle}]
  /\ ask \in [Reader -> AskReq \cup {Idle}]

SharingInit ==
  /\ Init
  /\ shares = <<>>
  /\ now = 0
  /\ desk = [o \in Desk |-> Idle]
  /\ ask = [c \in Reader |-> Idle]

Tick ==
  /\ now < Horizon
  /\ now' = now + 1
  /\ UNCHANGED <<rows, room, req, shares, desk, ask>>

(* liveWhere: not revoked, and never expiring or not expired yet. *)
Usable(s) ==
  /\ shares[s].revoked = Never
  /\ shares[s].expires = Never \/ shares[s].expires > now

(* The shares that were revoked or have expired, for the properties. *)
Spent ==
  {s \in DOMAIN shares :
     shares[s].revoked # Never
       \/ (shares[s].expires # Never /\ shares[s].expires <= now)}

(* findLiveGrantsForEmail *)
GrantsOf(email) == {s \in DOMAIN shares : shares[s].to = email /\ Usable(s)}

(* findGrantNodeInRoom: it also returns deleted rows. *)
Locate(s) ==
  LET n == shares[s].node
  IN  [share |-> s, node |-> n, path |-> rows[n].path, deleted |-> rows[n].deleted]

-----------------------------------------------------------------------------
(* Shares are written and revoked. *)

Sit(o, r) == desk' = [desk EXCEPT ![o] = r] /\ UNCHANGED <<rows, room, req, now, ask>>

ShareResolve(o, wish) ==
  /\ desk[o] = Idle
  /\ wish.node \in Live(rows) \cup {Root}
  /\ Sit(o, [step |-> "sharing", wish |-> wish])
  /\ UNCHANGED shares

ShareInsert(o) ==
  /\ desk[o].step = "sharing"
  /\ \E s \in Share \ DOMAIN shares :
       shares' = [t \in DOMAIN shares \cup {s} |->
                    IF t = s
                    THEN [node |-> desk[o].wish.node, to |-> desk[o].wish.to,
                          expires |-> desk[o].wish.expires, created |-> now,
                          revoked |-> Never]
                    ELSE shares[t]]
  /\ Sit(o, Idle)

(* Only a USER share that is not revoked yet can have grants beneath it. *)
RevokeFind(o, s, cascade) ==
  /\ desk[o] = Idle
  /\ s \in DOMAIN shares
  /\ LET nests == cascade /\ shares[s].to # Link /\ shares[s].revoked = Never
     IN  Sit(o, [step |-> IF nests THEN "pathing" ELSE "revoking", share |-> s,
                 path |-> <<>>, todo |-> {}, targets |-> {s}])
  /\ UNCHANGED shares

RevokePath(o) ==
  /\ desk[o].step = "pathing"
  /\ Sit(o, [desk[o] EXCEPT !.step = "listing",
                            !.path = LocationPath(rows, shares[desk[o].share].node)])
  /\ UNCHANGED shares

RevokeList(o) ==
  /\ desk[o].step = "listing"
  /\ LET grants == GrantsOf(shares[desk[o].share].to)
     IN  Sit(o, [desk[o] EXCEPT !.step = "nesting",
                                !.todo = {s \in grants : shares[s].node # Root}])
  /\ UNCHANGED shares

(* Variant of Nests without startsWith: any other node will do. *)
NestsAnywhere(at, path) == ~at.deleted /\ at.path # path

Nests(at, path) == ~at.deleted /\ IsStrictPrefix(path, at.path)

RevokeLook(o) ==
  /\ desk[o].step = "nesting"
  /\ \E s \in desk[o].todo :
       Sit(o, [desk[o] EXCEPT
                 !.todo = @ \ {s},
                 !.targets = IF Nests(Locate(s), desk[o].path) THEN @ \cup {s} ELSE @])
  /\ UNCHANGED shares

(* The UPDATE without revoked_at IS NULL. *)
RevokedAgain(targets) ==
  [s \in DOMAIN shares |->
     IF s \in targets THEN [shares[s] EXCEPT !.revoked = now] ELSE shares[s]]

Revoked(targets) ==
  [s \in DOMAIN shares |->
     IF s \in targets /\ shares[s].revoked = Never
     THEN [shares[s] EXCEPT !.revoked = now]
     ELSE shares[s]]

RevokeWrite(o) ==
  /\ desk[o].step = "revoking" \/ (desk[o].step = "nesting" /\ desk[o].todo = {})
  /\ shares' = Revoked(desk[o].targets)
  /\ Sit(o, Idle)

-----------------------------------------------------------------------------
(* A scope is resolved. *)

(* Variants of Broader: liveness left out; the longer path first; two      *)
(* grants of one moment left in no order.                                  *)
BroaderDeadOrAlive(a, b) ==
  \/ Len(a.path) < Len(b.path)
  \/ /\ Len(a.path) = Len(b.path)
     /\ \/ shares[a.share].created < shares[b.share].created
        \/ shares[a.share].created = shares[b.share].created /\ a.share < b.share

BroaderLongest(a, b) ==
  \/ ~a.deleted /\ b.deleted
  \/ /\ a.deleted = b.deleted
     /\ \/ Len(a.path) > Len(b.path)
        \/ /\ Len(a.path) = Len(b.path)
           /\ \/ shares[a.share].created < shares[b.share].created
              \/ shares[a.share].created = shares[b.share].created /\ a.share < b.share

BroaderByMoment(a, b) ==
  \/ ~a.deleted /\ b.deleted
  \/ /\ a.deleted = b.deleted
     /\ \/ Len(a.path) < Len(b.path)
        \/ /\ Len(a.path) = Len(b.path)
           /\ shares[a.share].created < shares[b.share].created

(* compareBreadth: live first, then the shorter path, the older, the id.   *)
(* Segments have one width, so a path's length is the number of its ids.   *)
Broader(a, b) ==
  \/ ~a.deleted /\ b.deleted
  \/ /\ a.deleted = b.deleted
     /\ \/ Len(a.path) < Len(b.path)
        \/ /\ Len(a.path) = Len(b.path)
           /\ \/ shares[a.share].created < shares[b.share].created
              \/ shares[a.share].created = shares[b.share].created /\ a.share < b.share

(* pickBroadest: the first in that order. *)
Broadest(found) == {a \in found : \A b \in found \ {a} : Broader(a, b)}

ScopeAt(a) == [root |-> a.node, path |-> a.path, via |-> a.share]

(* The room taken for a row, whose path ends with its own id. *)
WholeRoomAsRow(s) == [root |-> Root, path |-> <<Root>>, via |-> s]

(* wholeRoomScope: every path starts with '/'. *)
WholeRoom(s) == [root |-> Root, path |-> <<>>, via |-> s]

Hear(c, r) ==
  ask' = [ask EXCEPT ![c] = r] /\ UNCHANGED <<rows, room, req, shares, now, desk>>

(* A request of a signed-in user who is not the owner; an address that is  *)
(* not verified is refused here.                                           *)
AskAsUser(c, email, target) ==
  /\ ask[c] = Idle
  /\ email \in Verified
  /\ Hear(c, [step |-> "granting", by |-> email, target |-> target,
              dead |-> {s \in Spent : shares[s].to = email},
              todo |-> {}, found |-> {}])

(* A request with the token of s. *)
AskWithToken(c, s, target) ==
  /\ ask[c] = Idle
  /\ s \in DOMAIN shares /\ shares[s].to = Link
  /\ Hear(c, [step |-> "granting", by |-> s, target |-> target,
              dead |-> Spent \cap {s},
              todo |-> {}, found |-> {}])

(* The shares a request may rest on when it reads the table. *)
Offered(by) == IF by \in Email THEN GrantsOf(by) ELSE {by} \cap GrantsOf(Link)

(* No grant: 404.  A token that gives nothing any more: 410. *)
GrantRefused(c) ==
  /\ ask[c].step = "granting"
  /\ Offered(ask[c].by) = {}
  /\ Hear(c, Idle)

Reading(c, scope) ==
  Hear(c, [step |-> "reading", by |-> ask[c].by, target |-> ask[c].target,
           dead |-> ask[c].dead, scope |-> scope])

(* A share of the whole room is all there is to know. *)
GrantWholeRoom(c) ==
  /\ ask[c].step = "granting"
  /\ \E s \in Offered(ask[c].by) : shares[s].node = Root /\ Reading(c, WholeRoom(s))

GrantNodes(c) ==
  /\ ask[c].step = "granting"
  /\ LET grants == Offered(ask[c].by)
     IN  /\ grants # {}
         /\ \A s \in grants : shares[s].node # Root
         /\ Hear(c, [ask[c] EXCEPT !.step = "locating", !.todo = grants])

LocateGrant(c) ==
  /\ ask[c].step = "locating"
  /\ \E s \in ask[c].todo :
       LET found == ask[c].found \cup {Locate(s)}
       IN  IF ask[c].todo = {s}
           THEN \E a \in Broadest(found) : Reading(c, ScopeAt(a))
           ELSE Hear(c, [ask[c] EXCEPT !.todo = @ \ {s}, !.found = found])

-----------------------------------------------------------------------------
(* A node is read under the scope. *)

(* The node that the request is about: the scope's own root by default. *)
Subject(r) == IF r.target = Root THEN r.scope.root ELSE r.target

(* A read by id alone. *)
InScopeById(n, scope) == n \in DOMAIN rows

(* findInScope *)
InScope(n, scope) == n \in DOMAIN rows /\ Within(rows[n].path, scope.path)

(* 200: the node, or what lies at the room's root. *)
Serve(c) ==
  /\ ask[c].step = "reading"
  /\ LET n == Subject(ask[c])
     IN  n = Root \/ (InScope(n, ask[c].scope) /\ n \in Live(rows))
  /\ Hear(c, Idle)

(* 404, or 410 for a node that was deleted. *)
Refuse(c) ==
  /\ ask[c].step = "reading"
  /\ LET n == Subject(ask[c])
     IN  n # Root /\ ~(InScope(n, ask[c].scope) /\ n \in Live(rows))
  /\ Hear(c, Idle)

WriteShare(o) ==
  \/ \E wish \in Wish : ShareResolve(o, wish)
  \/ ShareInsert(o)

Revoke(o) ==
  \/ \E s \in Share, cascade \in BOOLEAN : RevokeFind(o, s, cascade)
  \/ RevokePath(o)
  \/ RevokeList(o)
  \/ RevokeLook(o)
  \/ RevokeWrite(o)

Browse(c) ==
  \/ \E email \in Email, target \in Node \cup {Root} : AskAsUser(c, email, target)
  \/ \E s \in Share, target \in Node \cup {Root} : AskWithToken(c, s, target)
  \/ GrantRefused(c)
  \/ GrantWholeRoom(c)
  \/ GrantNodes(c)
  \/ LocateGrant(c)
  \/ Serve(c)
  \/ Refuse(c)

SharingNext ==
  \/ Next /\ UNCHANGED shareVars
  \/ Tick
  \/ \E o \in Desk : WriteShare(o) \/ Revoke(o)
  \/ \E c \in Reader : Browse(c)

SharingSpec == SharingInit /\ [][SharingNext]_sharingVars

-----------------------------------------------------------------------------
(* Properties *)

(* The node that s is on is n or one of the folders above it, by parent_id.*)
Covers(s, n) ==
  shares[s].node \in {Root, n} \cup (IF n = Root THEN {} ELSE Ancestors(rows, n))

(* A node is served only under a share to this caller that covers it where *)
(* it is now and that still gave something when the request came in: a     *)
(* scope resolved before a move lets nothing else through, and a           *)
(* revocation or an expiry holds for every later request.                  *)
ServedUnderLiveShare ==
  [][\A c \in Reader : Serve(c) =>
       LET via == ask[c].scope.via
       IN  /\ Covers(via, Subject(ask[c]))
           /\ via \notin ask[c].dead
           /\ ask[c].by \in {via, shares[via].to}]_sharingVars

(* What resolveForUser would answer now, were nothing to happen meanwhile. *)
ScopesOf(email) ==
  LET grants == GrantsOf(email)
      whole == {s \in grants : shares[s].node = Root}
  IN  IF whole # {} THEN {WholeRoom(s) : s \in whole}
      ELSE {ScopeAt(a) : a \in Broadest({Locate(s) : s \in grants})}

(* A grantee has a scope, and only one: two page loads cannot differ, and  *)
(* somebody whose folders are all deleted is told so, and not that nothing *)
(* was ever shared (access-control.service.ts, compareBreadth).            *)
OneScopePerGrantee ==
  \A email \in Verified :
    GrantsOf(email) # {} =>
      Cardinality({[root |-> sc.root, path |-> sc.path] : sc \in ScopesOf(email)}) = 1

(* A grant on a deleted folder never takes the place of one on a live node.*)
DeadNeverShadowsLive ==
  \A email \in Verified : \A s \in GrantsOf(email), sc \in ScopesOf(email) :
    shares[s].node \in Live(rows) \cup {Root} => sc.root \in Live(rows) \cup {Root}

(* A narrow grant never hides what a broader one on a live node gives.     *)
NarrowNeverHidesBroad ==
  \A email \in Verified : \A s \in GrantsOf(email), sc \in ScopesOf(email) :
    shares[s].node \in Live(rows) =>
      sc.root = Root \/ shares[s].node \notin Ancestors(rows, sc.root)

(* What a revocation has stamped stays as it was stamped, whatever is      *)
(* revoked later or at the same time: the record of when access ended.     *)
RevocationStands ==
  [][\A s \in DOMAIN shares :
       shares[s].revoked # Never => shares'[s] = shares[s]]_sharingVars

(* n is a node strictly beneath top, by parent_id. *)
Nested(n, top) == n # Root /\ top \in {Root} \cup Ancestors(rows, n)

(* Beside the share it was asked for, a cascade revokes only grants of the *)
(* same person, and on nodes that are beneath that share's node when it    *)
(* writes: nobody else loses access, and nobody loses what lies elsewhere  *)
(* (share.service.ts, nestedLiveGrantShareIds).                            *)
CascadeStaysWithGrantee ==
  [][\A o \in Desk : RevokeWrite(o) =>
       LET top == shares[desk[o].share]
       IN  \A s \in DOMAIN shares \ {desk[o].share} :
             shares'[s] # shares[s] =>
               shares[s].to = top.to /\ Nested(shares[s].node, top.node)]_sharingVars
=============================================================================
