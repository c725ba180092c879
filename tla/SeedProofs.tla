----------------------------- MODULE SeedProofs -----------------------------
(***************************************************************************)
(* What holds of sign-ins beside the demo seed for any identities, any     *)
(* number of sign-ins, any demo tree and any number of crashes.            *)
(*                                                                         *)
(* The invariant is proved in two parts.  SignInInv is about the users,    *)
(* rooms and grants; SeedInv is about the demo room.  They meet in the     *)
(* last clause of each: the seed only takes grants away, and a sign-in     *)
(* writes a grant only while the folder is there.                          *)
(***************************************************************************)
EXTENDS Seed, TLAPS

Roomed == {"folder", "held", "scope", "grant", "done"}
Known == {"rooms", "provision"} \cup Roomed
Ended == {"done", "failed"}

Entry == [who : Identity \cup {Nobody}, user : SignIns \cup {Nobody},
          step : Step, after : SUBSET SignIns]

SignInType ==
  /\ signIn \in [SignIns -> Entry]
  /\ users \subseteq UserRow /\ accounts \subseteq AccountRow
  /\ rooms \subseteq RoomRow /\ grants \subseteq GrantRow
  /\ \A s \in SignIns : signIn[s].step # "unused" => signIn[s].who \in Identity
  /\ \A s \in SignIns : signIn[s].step \in Known => signIn[s].user # Nobody

UserExists(id) == \E u \in users : u.id = id

(* Rows refer to rows that exist, and the unique indexes hold. *)
UsersSound ==
  /\ \A u, v \in users : u.email = v.email => u = v
  /\ \A a, b \in accounts : a.who = b.who => a = b
  /\ \A a \in accounts : UserExists(a.user)
  /\ \A r \in rooms : UserExists(r.owner)
  /\ \A s \in SignIns : signIn[s].user # Nobody => UserExists(signIn[s].user)

(* A sign-in comes after others only once they have ended, and writes its  *)
(* room and its grant before it ends; so what an earlier one wrote is      *)
(* there when it looks, and what it has seen missing no earlier one wrote. *)
RoomsSound ==
  /\ \A s, t \in SignIns : t \in signIn[s].after => signIn[t].step \in Ended
  /\ \A s \in SignIns : signIn[s].step \in Roomed => Owned(signIn[s].user) # {}
  /\ \A r \in rooms : signIn[r.by].step \in Roomed
  /\ \A s \in SignIns : signIn[s].step = "provision" =>
       \A r \in rooms : r.owner = signIn[s].user => r.by \notin signIn[s].after

GrantsSound ==
  /\ \A g \in grants : signIn[g.by].step = "done"
  /\ \A s \in SignIns : signIn[s].step \in {"scope", "grant"} =>
       \A g \in grants : g.email = signIn[s].who => g.by \notin signIn[s].after

SignInInv ==
  SignInType /\ UsersSound /\ RoomsSound /\ GrantsSound /\ RepeatSignInAddsNothing

Building == {"tree", "reserve", "put", "file"}

SeedType ==
  /\ owner \in BOOLEAN /\ room \in BOOLEAN
  /\ nodes \subseteq Name
  /\ counted \in [Counting -> Nat]
  /\ blobs \in [Blob -> {"none", "PENDING", "READY"}]
  /\ blobOf \in [FileName -> Blob \cup {NoBlob}]
  /\ objects \subseteq Blob
  /\ seed \in [step : {"idle", "reset", "delete", "rows", "objects", "create", "done", "mismatch"}
                        \cup Building,
               at : Nat, blob : Blob \cup {NoBlob}, keys : SUBSET Blob]

(* What the seed relies on between two calls. *)
SeedSound ==
  /\ nodes # {} => room = TRUE
  /\ room = TRUE => owner = TRUE
  /\ seed.step # "idle" => owner = TRUE
  /\ seed.step \in Building => room = TRUE
  /\ seed.step \in {"rows", "objects"} => nodes = {}
  /\ seed.step \in {"reset", "delete", "rows", "objects", "create"} => seed.at = 1
  /\ seed.step \in Building => \A j \in DOMAIN Tree : j < seed.at => Tree[j].name \in nodes
  /\ seed.step \in {"reserve", "put", "file"} => seed.at \in DOMAIN Tree
  /\ seed.step \in {"put", "file"} => seed.blob \in Blob /\ blobs[seed.blob] = "PENDING"
  /\ seed.step = "file" => seed.blob \in objects

NodesSound ==
  /\ \A n \in nodes : Tree[Place(n)].parent \in nodes \cup {Top}
  /\ \A n \in nodes \cap FileName :
       blobOf[n] \in Blob /\ blobs[blobOf[n]] = "READY" /\ blobOf[n] \in objects

SeedInv == SeedType /\ SeedSound /\ NodesSound

IInv == SignInInv /\ SeedInv /\ (grants # {} => Shared \in nodes)

-----------------------------------------------------------------------------
(* The sign-ins *)

(* What a step of s, once started, leaves alone. *)
Advances(s, user, step) ==
  /\ signIn' \in [SignIns -> Entry]
  /\ \A t \in SignIns : t # s => signIn'[t] = signIn[t]
  /\ signIn'[s].who = signIn[s].who /\ signIn'[s].after = signIn[s].after
  /\ signIn'[s].user = user /\ signIn'[s].step = step

(* Going on to a step changes only the step, and the sign-in that takes it. *)
LEMMA ToAdvances ==
  ASSUME SignInType, NEW s \in SignIns, NEW step \in Step, To(s, step)
  PROVE  Advances(s, signIn[s].user, step)
BY DEF SignInType, Entry, To, Advances

(* Going on with a user found or made changes only the user and the step. *)
LEMMA WithUserAdvances ==
  ASSUME SignInType, NEW s \in SignIns, NEW user \in SignIns, NEW step \in Step,
         Found(s, user, step)
  PROVE  Advances(s, user, step)
<1> DEFINE e == [signIn[s] EXCEPT !.user = user, !.step = step]
<1>1. signIn \in [SignIns -> Entry] /\ signIn[s] \in Entry
  BY DEF SignInType
<1>2. /\ e \in Entry /\ e.who = signIn[s].who /\ e.after = signIn[s].after
      /\ e.user = user /\ e.step = step
  BY <1>1 DEF Entry
<1>3. signIn' = [signIn EXCEPT ![s] = e]
  BY DEF Found
<1> HIDE DEF e
<1> QED
  BY <1>1, <1>2, <1>3 DEF Advances

(* The demo grant is looked for when the room is there, and adds no room. *)
LEMMA GrantingKeepsRooms ==
  ASSUME SignInType, RoomsSound, NEW s \in SignIns, NEW step \in Roomed,
         signIn[s].step \in Roomed \ Ended, Advances(s, signIn[s].user, step),
         UNCHANGED rooms
  PROVE  RoomsSound'
<1>1. \A t \in SignIns : signIn'[t].after = signIn[t].after /\ signIn'[t].user = signIn[t].user
  BY DEF Advances
<1>2. \A t \in SignIns :
        /\ signIn[t].step \in Ended => signIn'[t].step = signIn[t].step
        /\ signIn'[t].step \in Roomed <=> signIn[t].step \in Roomed
        /\ signIn'[t].step = "provision" => signIn[t].step = "provision"
  BY DEF Advances, Roomed
<1>3. \A t \in SignIns : Owned(signIn[t].user)' = Owned(signIn[t].user)
  BY <1>1 DEF Owned
<1> QED
  BY <1>1, <1>2, <1>3 DEF RoomsSound, SignInType, RoomRow

(* A step of one sign-in keeps what is known of all of them. *)
LEMMA SignInKeeps ==
  ASSUME SignInInv, SignInNext
  PROVE  SignInInv'
<1> USE SignInAssumption DEF SignInInv, Known, Roomed, Ended
<1> PICK s \in SignIns :
       \/ \E g \in Identity : Start(s, g)
       \/ FindAccount(s) \/ FindUser(s) \/ LinkAccount(s)
       \/ ListRooms(s) \/ CreateRoom(s)
       \/ FindFolder(s) \/ FindHeld(s) \/ ResolveScope(s) \/ CreateGrant(s)
       \/ Outage(s)
  BY DEF SignInNext
<1>1. CASE \E g \in Identity : Start(s, g)
  <2> PICK g \in Identity : Start(s, g)
    BY <1>1
  <2>1. /\ signIn[s].step = "unused"
        /\ signIn' \in [SignIns -> Entry]
        /\ \A t \in SignIns : t # s => signIn'[t] = signIn[t]
        /\ signIn'[s].who = g /\ signIn'[s].user = signIn[s].user
        /\ signIn'[s].step = "account"
        /\ signIn'[s].after = {t \in SignIns : signIn[t].step \in {"done", "failed"}}
        /\ UNCHANGED <<users, accounts, rooms, grants>>
    <3> DEFINE e == [signIn[s] EXCEPT !.who = g, !.step = "account",
                       !.after = {t \in SignIns : signIn[t].step \in {"done", "failed"}}]
    <3>1. signIn \in [SignIns -> Entry] /\ signIn[s] \in Entry
      BY DEF SignInType
    <3>2. /\ e \in Entry /\ e.who = g /\ e.user = signIn[s].user /\ e.step = "account"
          /\ e.after = {t \in SignIns : signIn[t].step \in {"done", "failed"}}
      BY ZenonT(60), <3>1 DEF Entry, Step
    <3>3. /\ signIn' = [signIn EXCEPT ![s] = e] /\ signIn[s].step = "unused"
          /\ UNCHANGED <<users, accounts, rooms, grants>>
      BY DEF Start
    <3> HIDE DEF e
    <3> QED
      BY <3>1, <3>2, <3>3
  <2>2. SignInType'
    BY <2>1 DEF SignInType, Entry, Step, UserRow, AccountRow, RoomRow, GrantRow
  <2>3. UsersSound'
    BY <2>1 DEF SignInType, UsersSound, UserExists, UserRow, AccountRow, RoomRow, GrantRow
  <2>4. RoomsSound'
    BY <2>1 DEF SignInType, RoomsSound, Owned, RoomRow
  <2>5. GrantsSound'
    BY <2>1 DEF SignInType, GrantsSound, GrantRow
  <2>6. RepeatSignInAddsNothing'
    BY <2>1 DEF SignInType, RepeatSignInAddsNothing, Overlapped, RoomRow, GrantRow, RoomsSound, GrantsSound
  <2> QED
    BY <2>2, <2>3, <2>4, <2>5, <2>6
<1>2. CASE FindAccount(s)
  <2>1. /\ signIn[s].step = "account"
        /\ \/ \E a \in accounts : Advances(s, a.user, "rooms")
           \/ Advances(s, signIn[s].user, "user")
        /\ UNCHANGED <<users, accounts, rooms, grants>>
    BY <1>2, ToAdvances, WithUserAdvances DEF FindAccount, SignInType, AccountRow, Step
  <2>2. SignInType'
    BY <2>1 DEF SignInType, Entry, Step, UserRow, AccountRow, RoomRow, GrantRow, Advances
  <2>3. UsersSound'
    BY <2>1 DEF SignInType, UsersSound, UserExists, UserRow, AccountRow, RoomRow, GrantRow, Advances
  <2>4. RoomsSound'
    BY <2>1 DEF SignInType, RoomsSound, Owned, RoomRow, Advances
  <2>5. GrantsSound'
    BY <2>1 DEF SignInType, GrantsSound, GrantRow, Advances
  <2>6. RepeatSignInAddsNothing'
    BY <2>1 DEF SignInType, RepeatSignInAddsNothing, Overlapped, RoomRow, GrantRow, Advances
  <2> QED
    BY <2>2, <2>3, <2>4, <2>5, <2>6
<1>3. CASE FindUser(s)
  <2>1. /\ signIn[s].step = "user"
        /\ \/ \E u \in users : Advances(s, u.id, "link")
           \/ Advances(s, signIn[s].user, "link")
        /\ UNCHANGED <<users, accounts, rooms, grants>>
    BY <1>3, ToAdvances, WithUserAdvances DEF FindUser, SignInType, UserRow, Step
  <2>2. SignInType'
    BY <2>1 DEF SignInType, Entry, Step, UserRow, AccountRow, RoomRow, GrantRow, Advances
  <2>3. UsersSound'
    BY <2>1 DEF SignInType, UsersSound, UserExists, UserRow, AccountRow, RoomRow, GrantRow, Advances
  <2>4. RoomsSound'
    BY <2>1 DEF SignInType, RoomsSound, Owned, RoomRow, Advances
  <2>5. GrantsSound'
    BY <2>1 DEF SignInType, GrantsSound, GrantRow, Advances
  <2>6. RepeatSignInAddsNothing'
    BY <2>1 DEF SignInType, RepeatSignInAddsNothing, Overlapped, RoomRow, GrantRow, Advances
  <2> QED
    BY <2>2, <2>3, <2>4, <2>5, <2>6
<1>4. CASE LinkAccount(s)
  <2>1. CASE AccountTaken(signIn[s].who) \/ (signIn[s].user = Nobody /\ EmailTaken(signIn[s].who))
    <3>1. /\ signIn[s].step = "link" /\ Advances(s, signIn[s].user, "failed")
          /\ UNCHANGED <<users, accounts, rooms, grants>>
      BY <1>4, <2>1, ToAdvances DEF LinkAccount, Step
    <3>2. SignInType'
      BY <3>1 DEF SignInType, Entry, Step, Advances, UserRow, AccountRow, RoomRow, GrantRow
    <3>3. UsersSound'
      BY <3>1 DEF SignInType, UsersSound, UserExists, Entry, Advances, UserRow, AccountRow, RoomRow, GrantRow
    <3>4. RoomsSound'
      BY <3>1 DEF SignInType, RoomsSound, Owned, RoomRow, Advances
    <3>5. GrantsSound'
      BY <3>1 DEF SignInType, GrantsSound, GrantRow, Advances
    <3>6. RepeatSignInAddsNothing'
      BY <3>1 DEF SignInType, RepeatSignInAddsNothing, Overlapped, RoomRow, GrantRow, Advances
    <3> QED
      BY <3>2, <3>3, <3>4, <3>5, <3>6
  <2>2. CASE ~AccountTaken(signIn[s].who) /\ signIn[s].user # Nobody
    <3>1. /\ signIn[s].step = "link" /\ Advances(s, signIn[s].user, "rooms")
          /\ accounts' = accounts \cup {[who |-> signIn[s].who, user |-> signIn[s].user]}
          /\ UNCHANGED <<users, rooms, grants>>
      BY <1>4, <2>2, WithUserAdvances DEF LinkAccount, SignInType, Entry, Step
    <3>2. SignInType'
      BY <3>1, <2>2 DEF SignInType, Entry, Step, Advances, UserRow, AccountRow, RoomRow, GrantRow
    <3>3. UsersSound'
      BY <3>1, <2>2 DEF SignInType, UsersSound, UserExists, Entry, Advances, UserRow, AccountRow, RoomRow, GrantRow, AccountTaken
    <3>4. RoomsSound'
      BY SMTT(20), <3>1, <2>2 DEF SignInType, RoomsSound, Owned, RoomRow, Advances
    <3>5. GrantsSound'
      BY <3>1, <2>2 DEF SignInType, GrantsSound, GrantRow, Advances
    <3>6. RepeatSignInAddsNothing'
      BY <3>1, <2>2 DEF SignInType, RepeatSignInAddsNothing, Overlapped, RoomRow, GrantRow, Advances
    <3> QED
      BY <3>2, <3>3, <3>4, <3>5, <3>6
  <2>3. CASE ~AccountTaken(signIn[s].who) /\ signIn[s].user = Nobody /\ ~EmailTaken(signIn[s].who)
    <3>1. /\ signIn[s].step = "link" /\ Advances(s, s, "rooms")
          /\ users' = users \cup {[id |-> s, email |-> signIn[s].who]}
          /\ accounts' = accounts \cup {[who |-> signIn[s].who, user |-> s]}
          /\ UNCHANGED <<rooms, grants>>
      BY <1>4, <2>3, WithUserAdvances DEF LinkAccount, Step
    <3>2. SignInType'
      BY <3>1, <2>3 DEF SignInType, Entry, Step, Advances, UserRow, AccountRow, RoomRow, GrantRow
    <3>3. UsersSound'
      <4> DEFINE new == [id |-> s, email |-> signIn[s].who]
      <4>1. new \in users' /\ new.id = s
        BY <3>1
      <4>2. UserExists(s)' /\ \A id : UserExists(id) => UserExists(id)'
        BY <3>1, <4>1 DEF UserExists
      <4>3. \A u, v \in users' : u.email = v.email => u = v
        BY <3>1, <2>3 DEF UsersSound, EmailTaken
      <4>4. \A a, b \in accounts' : a.who = b.who => a = b
        BY <3>1, <2>3 DEF UsersSound, AccountTaken
      <4>5. \A a \in accounts' : UserExists(a.user)'
        BY <3>1, <4>2 DEF UsersSound
      <4>6. \A r \in rooms' : UserExists(r.owner)'
        BY <3>1, <4>2 DEF UsersSound
      <4>7. \A t \in SignIns : signIn'[t].user # Nobody => UserExists(signIn[t].user)'
        BY <3>1, <4>2 DEF UsersSound, Advances
      <4> QED
        BY <4>3, <4>4, <4>5, <4>6, <4>7 DEF UsersSound
    <3>4. RoomsSound'
      BY <3>1, <2>3 DEF SignInType, RoomsSound, Owned, RoomRow, Advances
    <3>5. GrantsSound'
      BY <3>1, <2>3 DEF SignInType, GrantsSound, GrantRow, Advances
    <3>6. RepeatSignInAddsNothing'
      BY <3>1, <2>3 DEF SignInType, RepeatSignInAddsNothing, Overlapped, RoomRow, GrantRow, Advances
    <3> QED
      BY <3>2, <3>3, <3>4, <3>5, <3>6
  <2> QED
    BY <2>1, <2>2, <2>3
<1>5. CASE ListRooms(s)
  <2>1. /\ signIn[s].step = "rooms"
        /\ \/ Owned(signIn[s].user) = {} /\ Advances(s, signIn[s].user, "provision")
           \/ Owned(signIn[s].user) # {} /\ Advances(s, signIn[s].user, "folder")
        /\ UNCHANGED <<users, accounts, rooms, grants>>
    BY <1>5, ToAdvances DEF ListRooms, Lacking, Step
  <2>2. SignInType'
    BY <2>1 DEF SignInType, Entry, Step, UserRow, AccountRow, RoomRow, GrantRow, Advances
  <2>3. UsersSound'
    BY <2>1 DEF SignInType, UsersSound, UserExists, UserRow, AccountRow, RoomRow, GrantRow, Advances
  <2>4. RoomsSound'
    BY <2>1 DEF SignInType, RoomsSound, Owned, RoomRow, Advances
  <2>5. GrantsSound'
    BY <2>1 DEF SignInType, GrantsSound, GrantRow, Advances
  <2>6. RepeatSignInAddsNothing'
    BY <2>1 DEF SignInType, RepeatSignInAddsNothing, Overlapped, RoomRow, GrantRow, Advances
  <2> QED
    BY <2>2, <2>3, <2>4, <2>5, <2>6
<1>6. CASE CreateRoom(s)
  <2>1. /\ signIn[s].step = "provision" /\ Advances(s, signIn[s].user, "folder")
        /\ signIn[s].user \in SignIns
        /\ rooms' = rooms \cup {[owner |-> signIn[s].user, by |-> s]}
        /\ rooms' \subseteq RoomRow
        /\ UNCHANGED <<users, accounts, grants>>
    <3>1. signIn[s].step = "provision" /\ signIn[s].user \in SignIns
      BY <1>6 DEF CreateRoom, SignInType, Entry
    <3>2. Advances(s, signIn[s].user, "folder")
      BY <1>6, ToAdvances DEF CreateRoom, Step
    <3>3. /\ rooms' = rooms \cup {[owner |-> signIn[s].user, by |-> s]}
          /\ UNCHANGED <<users, accounts, grants>>
      BY <1>6 DEF CreateRoom
    <3>4. rooms' \subseteq RoomRow
      BY <3>1, <3>3 DEF SignInType, RoomRow
    <3> QED
      BY <3>1, <3>2, <3>3, <3>4
  <2>2. SignInType'
    BY <2>1 DEF SignInType, Entry, Step, UserRow, AccountRow, RoomRow, GrantRow, Advances
  <2>3. UsersSound'
    BY <2>1 DEF SignInType, UsersSound, UserExists, UserRow, AccountRow, RoomRow, GrantRow, Advances
  <2>4. RoomsSound'
    <3> DEFINE new == [owner |-> signIn[s].user, by |-> s]
    <3>1. \A t, u \in SignIns : u \in signIn'[t].after => signIn'[u].step \in Ended
      BY <2>1 DEF RoomsSound, Advances
    <3>2. \A t \in SignIns : signIn'[t].step \in Roomed => Owned(signIn[t].user)' # {}
      <4> SUFFICES ASSUME NEW t \in SignIns, signIn'[t].step \in Roomed
                   PROVE  \E r \in rooms' : r.owner = signIn'[t].user
        BY DEF Owned
      <4>1. CASE t = s
        <5> new \in rooms' /\ new.owner = signIn'[t].user
          BY <2>1, <4>1 DEF Advances
        <5> QED
          OBVIOUS
      <4>2. CASE t # s
        BY <2>1, <4>2 DEF RoomsSound, Owned, Advances
      <4> QED
        BY <4>1, <4>2
    <3>3. \A r \in rooms' : signIn'[r.by].step \in Roomed
      BY <2>1 DEF RoomsSound, SignInType, RoomRow, Advances
    <3>4. \A t \in SignIns : signIn'[t].step = "provision" =>
            \A r \in rooms' : r.owner = signIn'[t].user => r.by \notin signIn'[t].after
      BY <2>1 DEF RoomsSound, SignInType, RoomRow, Advances
    <3> QED
      BY <3>1, <3>2, <3>3, <3>4 DEF RoomsSound
  <2>5. GrantsSound'
    BY <2>1 DEF SignInType, GrantsSound, GrantRow, Advances
  <2>6. RepeatSignInAddsNothing'
    BY <2>1 DEF SignInType, RepeatSignInAddsNothing, Overlapped, RoomRow, GrantRow, Advances, RoomsSound
  <2> QED
    BY <2>2, <2>3, <2>4, <2>5, <2>6
<1>7. CASE FindFolder(s)
  <2>1. /\ signIn[s].step = "folder"
        /\ Advances(s, signIn[s].user, "held") \/ Advances(s, signIn[s].user, "done")
        /\ UNCHANGED <<users, accounts, rooms, grants>>
    BY <1>7, ToAdvances DEF FindFolder, Step
  <2>2. SignInType'
    BY <2>1 DEF SignInType, Entry, Step, UserRow, AccountRow, RoomRow, GrantRow, Advances
  <2>3. UsersSound'
    BY <2>1 DEF SignInType, UsersSound, UserExists, UserRow, AccountRow, RoomRow, GrantRow, Advances
  <2>4. RoomsSound'
    BY <2>1, GrantingKeepsRooms
  <2>5. GrantsSound'
    BY <2>1 DEF SignInType, GrantsSound, GrantRow, Advances
  <2>6. RepeatSignInAddsNothing'
    BY <2>1 DEF SignInType, RepeatSignInAddsNothing, Overlapped, RoomRow, GrantRow, Advances
  <2> QED
    BY <2>2, <2>3, <2>4, <2>5, <2>6
<1>8. CASE FindHeld(s)
  <2>1. /\ signIn[s].step = "held"
        /\ \/ GrantsOf(signIn[s].who) = {} /\ Advances(s, signIn[s].user, "scope")
           \/ Advances(s, signIn[s].user, "done")
        /\ UNCHANGED <<users, accounts, rooms, grants>>
    BY <1>8, ToAdvances DEF FindHeld, Held, Step
  <2>2. SignInType'
    BY <2>1 DEF SignInType, Entry, Step, UserRow, AccountRow, RoomRow, GrantRow, Advances
  <2>3. UsersSound'
    BY <2>1 DEF SignInType, UsersSound, UserExists, UserRow, AccountRow, RoomRow, GrantRow, Advances
  <2>4. RoomsSound'
    BY SMTT(20), <2>1 DEF SignInType, RoomsSound, Owned, RoomRow, Advances
  <2>5. GrantsSound'
    BY <2>1 DEF SignInType, GrantsSound, GrantRow, Advances, GrantsOf
  <2>6. RepeatSignInAddsNothing'
    BY <2>1 DEF SignInType, RepeatSignInAddsNothing, Overlapped, RoomRow, GrantRow, Advances
  <2> QED
    BY <2>2, <2>3, <2>4, <2>5, <2>6
<1>9. CASE ResolveScope(s)
  <2>1. /\ signIn[s].step = "scope"
        /\ Advances(s, signIn[s].user, "grant") \/ Advances(s, signIn[s].user, "done")
        /\ UNCHANGED <<users, accounts, rooms, grants>>
    BY <1>9, ToAdvances DEF ResolveScope, Step
  <2>2. SignInType'
    BY <2>1 DEF SignInType, Entry, Step, UserRow, AccountRow, RoomRow, GrantRow, Advances
  <2>3. UsersSound'
    BY <2>1 DEF SignInType, UsersSound, UserExists, UserRow, AccountRow, RoomRow, GrantRow, Advances
  <2>4. RoomsSound'
    BY <2>1, GrantingKeepsRooms
  <2>5. GrantsSound'
    BY <2>1 DEF SignInType, GrantsSound, GrantRow, Advances
  <2>6. RepeatSignInAddsNothing'
    BY <2>1 DEF SignInType, RepeatSignInAddsNothing, Overlapped, RoomRow, GrantRow, Advances
  <2> QED
    BY <2>2, <2>3, <2>4, <2>5, <2>6
<1>10. CASE CreateGrant(s)
  <2>1. /\ signIn[s].step = "grant" /\ Advances(s, signIn[s].user, "done")
        /\ grants' \in {grants, grants \cup {[email |-> signIn[s].who, by |-> s]}}
        /\ UNCHANGED <<users, accounts, rooms>>
    BY <1>10, ToAdvances DEF CreateGrant, Step
  <2>2. SignInType'
    BY <2>1 DEF SignInType, Entry, Step, UserRow, AccountRow, RoomRow, GrantRow, Advances
  <2>3. UsersSound'
    BY <2>1 DEF SignInType, UsersSound, UserExists, UserRow, AccountRow, RoomRow, GrantRow, Advances
  <2>4. RoomsSound'
    BY SMTT(20), <2>1 DEF SignInType, RoomsSound, Owned, RoomRow, Advances
  <2>5. GrantsSound'
    BY <2>1 DEF SignInType, GrantsSound, GrantRow, Advances, RoomsSound
  <2>6. RepeatSignInAddsNothing'
    BY <2>1 DEF SignInType, RepeatSignInAddsNothing, Overlapped, RoomRow, GrantRow, Advances, GrantsSound, RoomsSound
  <2> QED
    BY <2>2, <2>3, <2>4, <2>5, <2>6
<1>11. CASE Outage(s)
  <2>1. /\ signIn[s].step \notin {"unused", "done", "failed"}
        /\ IF signIn[s].step \in {"folder", "held", "scope", "grant"}
           THEN Advances(s, signIn[s].user, "done") ELSE Advances(s, signIn[s].user, "failed")
        /\ UNCHANGED <<users, accounts, rooms, grants>>
    BY <1>11, ToAdvances DEF Outage, Step
  <2>2. SignInType'
    BY <2>1 DEF SignInType, Entry, Step, UserRow, AccountRow, RoomRow, GrantRow, Advances
  <2>3. UsersSound'
    BY <2>1 DEF SignInType, UsersSound, UserExists, UserRow, AccountRow, RoomRow, GrantRow, Advances
  <2>4. RoomsSound'
    BY <2>1 DEF SignInType, RoomsSound, Owned, RoomRow, Advances
  <2>5. GrantsSound'
    BY <2>1 DEF SignInType, GrantsSound, GrantRow, Advances
  <2>6. RepeatSignInAddsNothing'
    BY <2>1 DEF SignInType, RepeatSignInAddsNothing, Overlapped, RoomRow, GrantRow, Advances
  <2> QED
    BY <2>2, <2>3, <2>4, <2>5, <2>6
<1> QED
  BY <1>1, <1>2, <1>3, <1>4, <1>5, <1>6, <1>7, <1>8, <1>9, <1>10, <1>11

-----------------------------------------------------------------------------
(* The seed *)

(* To the sign-ins the seed is a loss of grants at most. *)
LEMMA FewerGrantsKeepSignIns ==
  ASSUME SignInInv, UNCHANGED <<users, accounts, rooms, signIn>>, grants' \subseteq grants
  PROVE  SignInInv'
<1>1. SignInType'
  BY DEF SignInInv, SignInType
<1>2. UsersSound'
  BY DEF SignInInv, UsersSound, UserExists
<1>3. RoomsSound'
  BY DEF SignInInv, RoomsSound, Owned
<1>4. GrantsSound'
  BY DEF SignInInv, GrantsSound
<1>5. RepeatSignInAddsNothing'
  BY DEF SignInInv, RepeatSignInAddsNothing, Overlapped
<1> QED
  BY <1>1, <1>2, <1>3, <1>4, <1>5 DEF SignInInv

(* A node whose folder is there, and a file whose bytes are, may be added. *)
LEMMA CreateNodeKeeps ==
  ASSUME SeedInv, seed.at \in DOMAIN Tree, seed.step \in Building, CreateNode
  PROVE  /\ nodes' \subseteq Name /\ counted' \in [Counting -> Nat]
         /\ \A n \in nodes' : Tree[Place(n)].parent \in nodes' \cup {Top}
         /\ \A j \in DOMAIN Tree : j < seed.at + 1 => Tree[j].name \in nodes'
<1>1. nodes' = nodes \cup {At.name}
  BY DEF CreateNode
<1>2. At.name \in Name
  BY DEF At, Name
<1>3. counted' \in [Counting -> Nat]
  BY DEF CreateNode, Charge, SeedInv, SeedType
<1>4. \A j \in DOMAIN Tree : j < seed.at => Tree[j].name \in nodes
  BY DEF SeedInv, SeedSound
<1>5. Place(At.name) = seed.at
  BY SeedAssumption DEF Place, At
<1>6. At.parent \in nodes \cup {Top}
  <2>1. CASE At.parent = Top
    BY <2>1
  <2>2. CASE At.parent # Top
    <3>1. PICK j \in 1..seed.at - 1 : Tree[j].name = At.parent
      BY <2>2, SeedAssumption DEF At
    <3>2. j \in DOMAIN Tree /\ j < seed.at
      BY <3>1, SeedAssumption
    <3> QED
      BY <1>4, <3>1, <3>2
  <2> QED
    BY <2>1, <2>2
<1>7. \A n \in nodes' : Tree[Place(n)].parent \in nodes' \cup {Top}
  BY <1>1, <1>5, <1>6 DEF SeedInv, NodesSound, At
<1>8. \A j \in DOMAIN Tree : j < seed.at + 1 => Tree[j].name \in nodes'
  <2>1. \A j \in DOMAIN Tree : j < seed.at + 1 => j < seed.at \/ j = seed.at
    BY SeedAssumption
  <2> QED
    BY <1>1, <1>4, <2>1 DEF At
<1>9. nodes' \subseteq Name
  BY <1>1, <1>2 DEF SeedInv, SeedType
<1> QED
  BY <1>3, <1>7, <1>8, <1>9

(* What going on to the next node of the tree does to the run. *)
LEMMA OnwardFacts ==
  ASSUME SeedType
  PROVE  /\ Onward.step = "tree" /\ Onward.at = seed.at + 1
         /\ Onward.blob = NoBlob /\ Onward.keys = {}
         /\ Onward \in [step : {"tree"}, at : Nat, blob : {NoBlob}, keys : SUBSET Blob]
BY DEF SeedType, Onward

(* A call of the seed, and its death, keep what the seed relies on. *)
LEMMA SeedKeeps ==
  ASSUME SeedInv, SeedStep \/ Crash
  PROVE  SeedInv'
<1> USE DEF SeedInv, Building, Seeding, SeedTo, demoVars
<1>1. CASE UpsertOwner
  <2>1. SeedType'
    BY <1>1 DEF UpsertOwner, SeedType, Stopped
  <2>2. SeedSound'
    BY <1>1 DEF UpsertOwner, SeedType, SeedSound, Stopped
  <2>3. NodesSound'
    BY <1>1 DEF UpsertOwner, SeedType, SeedSound, NodesSound, Stopped
  <2> QED
    BY <2>1, <2>2, <2>3
<1>2. CASE Reset
  <2>1. SeedType'
    BY <1>2 DEF Reset, SeedType
  <2>2. SeedSound'
    BY <1>2 DEF Reset, SeedType, SeedSound
  <2>3. NodesSound'
    BY <1>2 DEF Reset, SeedType, SeedSound, NodesSound
  <2> QED
    BY <2>1, <2>2, <2>3
<1>3. CASE DeleteOwned
  <2>1. SeedType'
    BY <1>3 DEF DeleteOwned, SeedType
  <2>2. SeedSound'
    BY <1>3 DEF DeleteOwned, SeedType, SeedSound
  <2>3. NodesSound'
    BY <1>3 DEF DeleteOwned, SeedType, SeedSound, NodesSound
  <2> QED
    BY <2>1, <2>2, <2>3
<1>4. CASE DeleteRows
  <2>1. SeedType'
    BY <1>4 DEF DeleteRows, SeedType
  <2>2. SeedSound'
    BY <1>4 DEF DeleteRows, SeedType, SeedSound
  <2>3. NodesSound'
    BY <1>4 DEF DeleteRows, SeedType, SeedSound, NodesSound
  <2> QED
    BY <2>1, <2>2, <2>3
<1>5. CASE DeleteObject
  <2>1. SeedType'
    BY <1>5 DEF DeleteObject, SeedType
  <2>2. SeedSound'
    BY <1>5 DEF DeleteObject, SeedType, SeedSound
  <2>3. NodesSound'
    BY <1>5 DEF DeleteObject, SeedType, SeedSound, NodesSound
  <2> QED
    BY <2>1, <2>2, <2>3
<1>6. CASE CreateDemoRoom
  <2>1. SeedType'
    BY <1>6 DEF CreateDemoRoom, SeedType
  <2>2. SeedSound'
    BY <1>6, SeedAssumption DEF CreateDemoRoom, SeedType, SeedSound
  <2>3. NodesSound'
    BY <1>6 DEF CreateDemoRoom, SeedType, SeedSound, NodesSound
  <2> QED
    BY <2>1, <2>2, <2>3
<1>7. CASE EnsureNode
  <2>1. /\ seed.step = "tree" /\ seed.at \in DOMAIN Tree
        /\ UNCHANGED <<owner, room, blobs, blobOf, objects>>
    BY <1>7 DEF EnsureNode
  <2>2. CASE Present /\ seed' = Onward /\ UNCHANGED <<nodes, counted>>
    <3>1. \A j \in DOMAIN Tree : j < seed.at + 1 => Tree[j].name \in nodes
      <4>1. \A j \in DOMAIN Tree : j < seed.at + 1 => j < seed.at \/ j = seed.at
        BY SeedAssumption DEF SeedType
      <4> QED
        BY <2>1, <2>2, <4>1 DEF SeedSound, Present, At
    <3> QED
      BY <2>1, <2>2, <3>1, OnwardFacts DEF SeedType, SeedSound, NodesSound
  <2>3. CASE ~At.file /\ seed' = Onward /\ CreateNode
    <3>1. /\ nodes' \subseteq Name /\ counted' \in [Counting -> Nat]
          /\ \A n \in nodes' : Tree[Place(n)].parent \in nodes' \cup {Top}
          /\ \A j \in DOMAIN Tree : j < seed.at + 1 => Tree[j].name \in nodes'
      BY <2>1, <2>3, CreateNodeKeeps
    <3>2. nodes' \cap FileName \subseteq nodes
      BY <2>1, <2>3, SeedAssumption DEF CreateNode, At, FileName
    <3>3. SeedType'
      BY <2>1, <2>3, <3>1, OnwardFacts DEF SeedType
    <3>4. SeedSound'
      BY <2>1, <2>3, <3>1, OnwardFacts DEF SeedSound
    <3>5. NodesSound'
      BY <2>1, <3>1, <3>2 DEF NodesSound
    <3> QED
      BY <3>3, <3>4, <3>5
  <2>4. CASE SeedTo("reserve") /\ UNCHANGED <<nodes, counted>>
    <3>1. /\ seed'.step = "reserve" /\ seed'.at = seed.at
          /\ seed'.blob = seed.blob /\ seed'.keys = seed.keys
      BY <2>4 DEF SeedType
    <3>2. SeedType'
      BY <2>1, <2>4 DEF SeedType
    <3>3. SeedSound'
      BY <2>1, <2>4, <3>1 DEF SeedSound
    <3>4. NodesSound'
      BY <2>1, <2>4 DEF NodesSound
    <3> QED
      BY <3>2, <3>3, <3>4
  <2> QED
    BY <1>7, <2>2, <2>3, <2>4 DEF EnsureNode
<1>8. CASE CreatePending
  <2>1. FreshBlob \in Blob /\ blobs[FreshBlob] = "none"
    BY <1>8 DEF CreatePending, FreshBlob, Unused
  <2>2. /\ seed.step = "reserve" /\ blobs' = [blobs EXCEPT ![FreshBlob] = "PENDING"]
        /\ UNCHANGED <<owner, room, nodes, counted, blobOf, objects>>
    BY <1>8 DEF CreatePending
  <2>3. seed' = [step |-> "put", at |-> seed.at, blob |-> FreshBlob, keys |-> seed.keys]
    BY <1>8 DEF CreatePending, SeedType
  <2>4. SeedType'
    BY <2>1, <2>2, <2>3 DEF SeedType
  <2>5. SeedSound'
    BY <2>1, <2>2, <2>3 DEF SeedType, SeedSound
  <2>6. NodesSound'
    BY <2>1, <2>2 DEF SeedType, NodesSound
  <2> QED
    BY <2>4, <2>5, <2>6
<1>9. CASE PutBytes
  <2>1. /\ seed.step = "put" /\ seed.blob \in Blob /\ objects' = objects \cup {seed.blob}
        /\ UNCHANGED <<owner, room, nodes, counted, blobs, blobOf>>
    BY <1>9 DEF PutBytes, SeedSound
  <2>2. seed' = [step |-> "file", at |-> seed.at, blob |-> seed.blob, keys |-> seed.keys]
    BY <1>9 DEF PutBytes, SeedType
  <2>3. SeedType'
    BY <2>1, <2>2 DEF SeedType
  <2>4. SeedSound'
    BY <2>1, <2>2 DEF SeedSound
  <2>5. NodesSound'
    BY <2>1 DEF NodesSound
  <2> QED
    BY <2>3, <2>4, <2>5
<1>10. CASE CreateFile
  <2>1. /\ seed.step = "file" /\ seed.at \in DOMAIN Tree
        /\ seed.blob \in Blob /\ seed.blob \in objects
    BY <1>10 DEF CreateFile, SeedSound
  <2>2. /\ blobs' = [blobs EXCEPT ![seed.blob] = "READY"]
        /\ blobOf' = [blobOf EXCEPT ![At.name] = seed.blob]
        /\ CreateNode /\ seed' = Onward /\ UNCHANGED <<owner, room, objects>>
    BY <1>10 DEF CreateFile
  <2>3. /\ nodes' \subseteq Name /\ counted' \in [Counting -> Nat]
        /\ \A n \in nodes' : Tree[Place(n)].parent \in nodes' \cup {Top}
        /\ \A j \in DOMAIN Tree : j < seed.at + 1 => Tree[j].name \in nodes'
    BY <2>1, <2>2, CreateNodeKeeps
  <2>4. SeedType'
    BY <2>1, <2>2, <2>3, OnwardFacts DEF SeedType
  <2>5. SeedSound'
    BY <2>1, <2>2, <2>3, OnwardFacts DEF SeedSound
  <2>6. \A n \in nodes' \cap FileName :
          blobOf'[n] \in Blob /\ blobs'[blobOf'[n]] = "READY" /\ blobOf'[n] \in objects'
    <3> SUFFICES ASSUME NEW n \in nodes' \cap FileName
                 PROVE  blobOf'[n] \in Blob /\ blobs'[blobOf'[n]] = "READY" /\ blobOf'[n] \in objects'
      OBVIOUS
    <3>1. CASE n = At.name
      BY <2>1, <2>2, <3>1 DEF SeedType
    <3>2. CASE n # At.name
      BY <2>1, <2>2, <3>2 DEF SeedType, NodesSound, CreateNode
    <3> QED
      BY <3>1, <3>2
  <2> QED
    BY <2>3, <2>4, <2>5, <2>6 DEF NodesSound
<1>11. CASE VerifyAggregates
  <2>1. SeedType'
    BY <1>11 DEF VerifyAggregates, SeedType
  <2>2. SeedSound'
    BY <1>11 DEF VerifyAggregates, SeedType, SeedSound
  <2>3. NodesSound'
    BY <1>11 DEF VerifyAggregates, SeedType, SeedSound, NodesSound
  <2> QED
    BY <2>1, <2>2, <2>3
<1>12. CASE Crash
  <2>1. SeedType'
    BY <1>12 DEF Crash, SeedType, Stopped
  <2>2. SeedSound'
    BY <1>12 DEF Crash, SeedType, SeedSound, Stopped
  <2>3. NodesSound'
    BY <1>12 DEF Crash, SeedType, SeedSound, NodesSound, Stopped
  <2> QED
    BY <2>1, <2>2, <2>3
<1> QED
  BY <1>1, <1>2, <1>3, <1>4, <1>5, <1>6, <1>7, <1>8, <1>9, <1>10, <1>11, <1>12 DEF SeedStep
-----------------------------------------------------------------------------
(* The theorems *)

(* A behaviour starts with nobody signed in and no run of the seed. *)
LEMMA InitSound == DemoInit => IInv
<1> SUFFICES ASSUME DemoInit PROVE IInv
  OBVIOUS
<1>1. SignInInv
  BY SignInAssumption DEF DemoInit, SignInInit, SignInInv, SignInType, Entry, Step, UsersSound,
    RoomsSound, GrantsSound, RepeatSignInAddsNothing, Known, Roomed
<1>2. SeedInv
  BY DEF DemoInit, SeedInv, SeedType, SeedSound, NodesSound, Stopped, Building
<1> QED
  BY <1>1, <1>2 DEF DemoInit, SignInInit, IInv

(* No step breaks the invariant. *)
LEMMA NextSound == IInv /\ [DemoNext]_vars => IInv'
<1> SUFFICES ASSUME IInv, [DemoNext]_vars PROVE IInv'
  OBVIOUS
<1> USE DEF IInv
<1>1. CASE SignInNext /\ UNCHANGED seedVars
  <2>1. SignInInv'
    BY <1>1, SignInKeeps
  <2>2. UNCHANGED <<owner, room, nodes, counted, blobs, blobOf, objects, seed>>
    BY <1>1 DEF SignInNext, demoVars, seedVars
  <2>3. SeedInv'
    BY <2>2 DEF SeedInv, SeedType, SeedSound, NodesSound
  <2>4. grants' # {} => Shared \in nodes'
    BY <1>1, <2>2 DEF SignInNext, Start, FindAccount, FindUser, LinkAccount, ListRooms, CreateRoom,
      FindFolder, FindHeld, ResolveScope, CreateGrant, Outage
  <2> QED
    BY <2>1, <2>3, <2>4
<1>2. CASE SeedStep \/ Crash
  <2>1. SeedInv'
    BY <1>2, SeedKeeps
  <2>2. /\ UNCHANGED <<users, accounts, rooms, signIn>>
        /\ \/ UNCHANGED grants /\ nodes \subseteq nodes'
           \/ grants' = {}
    BY <1>2 DEF SeedStep, Crash, UpsertOwner, Reset, DeleteOwned, Cascaded, DeleteRows, DeleteObject,
      CreateDemoRoom, EnsureNode, CreateNode, CreatePending, PutBytes, CreateFile, VerifyAggregates,
      signInVars, demoVars
  <2> QED
    BY <2>1, <2>2, FewerGrantsKeepSignIns
<1>3. CASE ListGrants \/ RevokeGrants \/ UNCHANGED vars
  <2>1. /\ UNCHANGED <<users, accounts, rooms, signIn>> /\ grants' \subseteq grants
        /\ UNCHANGED <<owner, room, nodes, counted, blobs, blobOf, objects, seed>>
    BY <1>3 DEF ListGrants, RevokeGrants, vars, signInVars, demoVars, seedVars
  <2>2. SeedInv'
    BY <2>1 DEF SeedInv, SeedType, SeedSound, NodesSound
  <2> QED
    BY <2>1, <2>2, FewerGrantsKeepSignIns
<1> QED
  BY <1>1, <1>2, <1>3 DEF DemoNext

(* So it holds throughout. *)
LEMMA IInvAlways == DemoSpec => []IInv
BY InitSound, NextSound, PTL DEF DemoSpec

(* Rows keep their shape and refer to rows that exist, whatever sign-ins,  *)
(* seeds and deaths overlap.                                               *)
THEOREM DemoTypeCorrect == DemoSpec => []DemoTypeOK
<1>1. IInv => DemoTypeOK
  BY DEF IInv, SignInInv, SignInType, Entry, UsersSound, UserExists, SeedInv, SeedType, SeedSound,
    NodesSound, DemoTypeOK
<1> QED
  BY <1>1, IInvAlways, PTL

(* Who has signed in has a room (auth.service.ts:24), also when an earlier *)
(* sign-in died after it wrote the user.                                   *)
THEOREM SignedInHasRoomAlways == DemoSpec => []SignedInHasRoom
<1>1. IInv => SignedInHasRoom
  BY DEF IInv, SignInInv, RoomsSound, Roomed, SignedInHasRoom
<1> QED
  BY <1>1, IInvAlways, PTL

(* A second room or a second demo grant (data-room.service.ts:19) comes    *)
(* only from sign-ins that overlapped.                                     *)
THEOREM RepeatSignInAddsNothingAlways == DemoSpec => []RepeatSignInAddsNothing
<1>1. IInv => RepeatSignInAddsNothing
  BY DEF IInv, SignInInv
<1> QED
  BY <1>1, IInvAlways, PTL

(* No file of the demo room lacks its bytes (seed.ts:252), in the middle   *)
(* of a build or a reset and wherever either dies.                         *)
THEOREM SeededFilesOpenAlways == DemoSpec => []SeededFilesOpen
<1>1. IInv => SeededFilesOpen
  BY DEF IInv, SeedInv, NodesSound, SeededFilesOpen
<1> QED
  BY <1>1, IInvAlways, PTL
=============================================================================
