------------------------------- MODULE SignIn -------------------------------
(***************************************************************************)
(* Signing in with Google (auth.service.ts, user.repository.ts,            *)
(* data-room.service.ts, demo-grant.service.ts): the identity is resolved  *)
(* to a user, the user is guaranteed a Data Room, and a verified user a    *)
(* grant on the shared folder of the demo room.  Each of these is a look   *)
(* followed by a write, in statements of their own, and any number of      *)
(* sign-ins run side by side.                                              *)
(*                                                                         *)
(* What the demo room holds is kept here and changed by module Seed.       *)
(***************************************************************************)
EXTENDS Naturals, FiniteSets

CONSTANTS
  Identity,    \* Google accounts, each with its own address
  Verified,    \* those whose address Google has verified
  SignIns,     \* bound: sign-ins ever started
  Nobody,      \* no user
  Shared       \* the shared folder of the demo room

ASSUME SignInAssumption ==
  /\ Verified \subseteq Identity
  /\ Nobody \notin Identity \cup SignIns

VARIABLES
  users,      \* the user rows: [id, email], the id being the sign-in that wrote it
  accounts,   \* the account rows: [who, user]
  rooms,      \* the rooms of users: [owner, by]
  grants,     \* the live grants on the shared folder: [email, by]
  signIn,     \* sign-in -> what it has found so far, and (history) those it came after
  owner,      \* whether the demo owner has a user row
  room,       \* whether the demo room exists
  nodes       \* the nodes of the demo room

signInVars == <<users, accounts, rooms, grants, signIn>>
demoVars == <<owner, room, nodes>>

Step == {"unused", "account", "user", "link", "rooms", "provision",
         "folder", "held", "scope", "grant", "done", "failed"}

UserRow == [id : SignIns, email : Identity]
AccountRow == [who : Identity, user : SignIns]
RoomRow == [owner : SignIns, by : SignIns]
GrantRow == [email : Identity, by : SignIns]

SignInInit ==
  /\ users = {} /\ accounts = {} /\ rooms = {} /\ grants = {}
  /\ signIn = [s \in SignIns |-> [who |-> Nobody, user |-> Nobody, step |-> "unused", after |-> {}]]

To(s, step) == signIn' = [signIn EXCEPT ![s].step = step]
Found(s, user, step) == signIn' = [signIn EXCEPT ![s] = [@ EXCEPT !.user = user, !.step = step]]

Start(s, g) ==
  /\ signIn[s].step = "unused"
  /\ signIn' = [signIn EXCEPT ![s] = [@ EXCEPT !.who = g, !.step = "account",
                  !.after = {t \in SignIns : signIn[t].step \in {"done", "failed"}}]]
  /\ UNCHANGED <<users, accounts, rooms, grants>>

-----------------------------------------------------------------------------
(* The user.  The look-ups and the writes are one transaction, at READ     *)
(* COMMITTED: each look-up sees what has been committed by then, and two   *)
(* first sign-ins meet at the unique indexes of users and accounts.        *)

(* A known account's user is written with what Google says of it now,      *)
(* which is what is there already: addresses do not change here.           *)
FindAccount(s) ==
  LET found == {a \in accounts : a.who = signIn[s].who} IN
  /\ signIn[s].step = "account"
  /\ \/ \E a \in found : Found(s, a.user, "rooms")
     \/ found = {} /\ To(s, "user")
  /\ UNCHANGED <<users, accounts, rooms, grants>>

FindUser(s) ==
  LET found == {u \in users : u.email = signIn[s].who} IN
  /\ signIn[s].step = "user"
  /\ \/ \E u \in found : Found(s, u.id, "link")
     \/ found = {} /\ To(s, "link")
  /\ UNCHANGED <<users, accounts, rooms, grants>>

EmailTaken(e) == \E u \in users : u.email = e
AccountTaken(g) == \E a \in accounts : a.who = g

LinkAccount(s) ==
  LET g == signIn[s].who
      new == signIn[s].user = Nobody
      user == IF new THEN s ELSE signIn[s].user IN
  /\ signIn[s].step = "link"
  /\ IF AccountTaken(g) \/ (new /\ EmailTaken(g))
     THEN To(s, "failed") /\ UNCHANGED <<users, accounts>>
     ELSE /\ users' = IF new THEN users \cup {[id |-> s, email |-> g]} ELSE users
          /\ accounts' = accounts \cup {[who |-> g, user |-> user]}
          /\ Found(s, user, "rooms")
  /\ UNCHANGED <<rooms, grants>>

-----------------------------------------------------------------------------
(* The room *)

Owned(u) == {r \in rooms : r.owner = u}

(* Variant: only the sign-in that created the user provisions a room. *)
LackingWhenNew(s) == signIn[s].user = s

(* Whether ensureProvisioned goes on to create a room. *)
Lacking(s) == Owned(signIn[s].user) = {}

ListRooms(s) ==
  /\ signIn[s].step = "rooms"
  /\ To(s, IF Lacking(s) THEN "provision" ELSE "folder")
  /\ UNCHANGED <<users, accounts, rooms, grants>>

CreateRoom(s) ==
  /\ signIn[s].step = "provision"
  /\ rooms' = rooms \cup {[owner |-> signIn[s].user, by |-> s]}
  /\ To(s, "folder")
  /\ UNCHANGED <<users, accounts, grants>>

-----------------------------------------------------------------------------
(* The demo grant, which is left out when anything about it is missing.    *)

(* The owner's user row is looked up first and the folder after it; that   *)
(* row is never removed, so the two look-ups are one.                      *)
FindFolder(s) ==
  /\ signIn[s].step = "folder"
  /\ To(s, IF signIn[s].who \in Verified /\ owner /\ Shared \in nodes THEN "held" ELSE "done")
  /\ UNCHANGED <<users, accounts, rooms, grants>>

GrantsOf(e) == {g \in grants : g.email = e}
(* Variant: any grant on the folder is taken for the user's own. *)
HeldByWriter(s) == \E g \in grants : g.by = s

Held(s) == GrantsOf(signIn[s].who) # {}

FindHeld(s) ==
  /\ signIn[s].step = "held"
  /\ To(s, IF Held(s) THEN "done" ELSE "scope")
  /\ UNCHANGED <<users, accounts, rooms, grants>>

ResolveScope(s) ==
  /\ signIn[s].step = "scope"
  /\ To(s, IF room THEN "grant" ELSE "done")
  /\ UNCHANGED <<users, accounts, rooms, grants>>

(* The foreign keys of shares refuse a grant on a folder that has gone. *)
CreateGrant(s) ==
  /\ signIn[s].step = "grant"
  /\ grants' = IF Shared \in nodes
               THEN grants \cup {[email |-> signIn[s].who, by |-> s]} ELSE grants
  /\ To(s, "done")
  /\ UNCHANGED <<users, accounts, rooms>>

(* A call that fails ends the sign-in, or only its demo grant. *)
Outage(s) ==
  /\ signIn[s].step \notin {"unused", "done", "failed"}
  /\ To(s, IF signIn[s].step \in {"folder", "held", "scope", "grant"} THEN "done" ELSE "failed")
  /\ UNCHANGED <<users, accounts, rooms, grants>>

SignInNext ==
  /\ \E s \in SignIns :
       \/ \E g \in Identity : Start(s, g)
       \/ FindAccount(s) \/ FindUser(s) \/ LinkAccount(s)
       \/ ListRooms(s) \/ CreateRoom(s)
       \/ FindFolder(s) \/ FindHeld(s) \/ ResolveScope(s) \/ CreateGrant(s)
       \/ Outage(s)
  /\ UNCHANGED demoVars

-----------------------------------------------------------------------------
(* Properties *)

(* Who has signed in has a room, also when the sign-in that wrote the user *)
(* died before it provisioned one: "an account that somehow ends up with   *)
(* no rooms recovers by itself" (auth.service.ts:24).                      *)
SignedInHasRoom ==
  \A s \in SignIns : signIn[s].step = "done" => Owned(signIn[s].user) # {}

Overlapped(s, t) == s \notin signIn[t].after /\ t \notin signIn[s].after

(* "Signing in again never adds a second room" (data-room.service.ts:19),  *)
(* nor a second grant on the demo folder: two rooms of a user, or two live *)
(* grants to an address, come only from sign-ins that overlapped.          *)
RepeatSignInAddsNothing ==
  /\ \A x, y \in rooms : x.owner = y.owner => x = y \/ Overlapped(x.by, y.by)
  /\ \A x, y \in grants : x.email = y.email => x = y \/ Overlapped(x.by, y.by)
=============================================================================
