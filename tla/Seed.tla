-------------------------------- MODULE Seed --------------------------------
(***************************************************************************)
(* The demo seed and revoke scripts (demo/scripts), beside sign-ins.  The  *)
(* seed takes the demo owner back to nothing and builds the demo room      *)
(* anew, one database or storage call after the other; it can die between  *)
(* any two of them and is then run again.                                  *)
(***************************************************************************)
EXTENDS SignIn, Sequences, FiniteSetsExt

CONSTANTS
  Tree,         \* demoTree, depth first: a sequence of [name, parent, file], a name a node
  Top,          \* the parent of the top of the tree: the room itself
  Blob,         \* ids of blobs, a set of numbers
  MaxCrashes    \* bound: runs that die, and objects that are not removed

ASSUME SeedAssumption ==
  /\ Blob \subseteq Nat /\ MaxCrashes \in Nat
  /\ DOMAIN Tree = 1..Len(Tree) /\ DOMAIN Tree \subseteq Nat \ {0}
  /\ \A i, j \in DOMAIN Tree : Tree[i].name = Tree[j].name => i = j
  /\ \A i \in DOMAIN Tree :
       Tree[i].parent = Top \/ \E j \in 1..i - 1 : Tree[j].name = Tree[i].parent /\ ~Tree[j].file

VARIABLES
  counted,     \* folder or room -> its count of the nodes beneath
  blobs,       \* blob -> its row
  blobOf,      \* file -> its blob
  objects,     \* storage: the blobs whose bytes are there
  seed,        \* the run of the seed: step, place in the tree, blob, keys to remove
  listed,      \* the revoke script: the grants it has listed
  crashes      \* how many of these there have been

seedVars == <<counted, blobs, blobOf, objects, seed, listed, crashes>>
vars == <<signInVars, demoVars, seedVars>>

Name == {Tree[i].name : i \in DOMAIN Tree}
FileName == {Tree[i].name : i \in {j \in DOMAIN Tree : Tree[j].file}}
Counting == (Name \ FileName) \cup {Top}
NoBlob == 0
Stopped == [step |-> "idle", at |-> 1, blob |-> NoBlob, keys |-> {}]

DemoInit ==
  /\ SignInInit
  /\ owner = FALSE /\ room = FALSE /\ nodes = {}
  /\ counted = [f \in Counting |-> 0]
  /\ blobs = [b \in Blob |-> "none"]
  /\ blobOf = [n \in FileName |-> NoBlob]
  /\ objects = {}
  /\ seed = Stopped
  /\ listed = {} /\ crashes = 0

Seeding(step) == seed.step = step
SeedTo(step) == seed' = [seed EXCEPT !.step = step]

-----------------------------------------------------------------------------
(* The reset *)

UpsertOwner ==
  /\ seed.step \in {"idle", "done", "mismatch"}
  /\ owner' = TRUE
  /\ seed' = [Stopped EXCEPT !.step = "reset"]
  /\ UNCHANGED <<signInVars, room, nodes, counted, blobs, blobOf, objects, listed, crashes>>

(* The keys are taken before the room goes: it goes with its blob rows. *)
Reset ==
  /\ Seeding("reset")
  /\ seed' = IF room
             THEN [seed EXCEPT !.step = "delete", !.keys = {b \in Blob : blobs[b] # "none"}]
             ELSE [seed EXCEPT !.step = "create"]
  /\ UNCHANGED <<signInVars, demoVars, counted, blobs, blobOf, objects, listed, crashes>>

(* Variant: deleting the room leaves the rows of shares. *)
NotCascaded == UNCHANGED grants

(* The room takes its nodes and its grants with it. *)
Cascaded == grants' = {}

DeleteOwned ==
  /\ Seeding("delete")
  /\ room' = FALSE /\ nodes' = {} /\ Cascaded
  /\ counted' = [f \in Counting |-> 0]
  /\ SeedTo("rows")
  /\ UNCHANGED <<users, accounts, rooms, signIn, owner, blobs, blobOf, objects, listed, crashes>>

DeleteRows ==
  /\ Seeding("rows")
  /\ blobs' = [b \in Blob |-> "none"]
  /\ SeedTo("objects")
  /\ UNCHANGED <<signInVars, demoVars, counted, blobOf, objects, listed, crashes>>

(* A failure to remove an object is logged; its bytes are then nobody's.  *)
(* The bound is on those too.                                              *)
DeleteObject ==
  /\ Seeding("objects")
  /\ \/ seed.keys = {} /\ SeedTo("create") /\ UNCHANGED <<objects, crashes>>
     \/ /\ seed.keys # {}
        /\ LET b == Min(seed.keys) IN
           /\ seed' = [seed EXCEPT !.keys = @ \ {b}]
           /\ \/ objects' = objects \ {b} /\ UNCHANGED crashes
              \/ crashes < MaxCrashes /\ crashes' = crashes + 1 /\ UNCHANGED objects
  /\ UNCHANGED <<signInVars, demoVars, counted, blobs, blobOf, listed>>

-----------------------------------------------------------------------------
(* The tree *)

CreateDemoRoom ==
  /\ Seeding("create") /\ ~room
  /\ room' = TRUE
  /\ SeedTo("tree")
  /\ UNCHANGED <<signInVars, owner, nodes, counted, blobs, blobOf, objects, listed, crashes>>

At == Tree[seed.at]
Onward == [step |-> "tree", at |-> seed.at + 1, blob |-> NoBlob, keys |-> {}]

Place(n) == CHOOSE i \in DOMAIN Tree : Tree[i].name = n
Above[i \in DOMAIN Tree] ==
  LET p == Tree[i].parent IN {p} \cup IF p = Top THEN {} ELSE Above[Place(p)]

(* Variant: only the folder a node is created in counts it. *)
ChargeParent(i) == counted' = [counted EXCEPT ![Tree[i].parent] = @ + 1]

(* A new node is counted by every folder above it and by the room. *)
Charge(i) == counted' = [f \in Counting |-> counted[f] + IF f \in Above[i] THEN 1 ELSE 0]

Present == At.name \in nodes

CreateNode == nodes' = nodes \cup {At.name} /\ Charge(seed.at)

(* What is missing is created, a folder at once. *)
EnsureNode ==
  /\ Seeding("tree") /\ seed.at \in DOMAIN Tree
  /\ CASE Present -> seed' = Onward /\ UNCHANGED <<nodes, counted>>
       [] ~Present /\ ~At.file -> seed' = Onward /\ CreateNode
       [] OTHER -> SeedTo("reserve") /\ UNCHANGED <<nodes, counted>>
  /\ UNCHANGED <<signInVars, owner, room, blobs, blobOf, objects, listed, crashes>>

(* A file is three steps: a blob row, the bytes, and in one transaction    *)
(* the row turned READY and the node.                                      *)
Unused == {b \in Blob : blobs[b] = "none" /\ b \notin objects}
FreshBlob == CHOOSE b \in Unused : TRUE

CreatePending ==
  /\ Seeding("reserve") /\ Unused # {}
  /\ blobs' = [blobs EXCEPT ![FreshBlob] = "PENDING"]
  /\ seed' = [seed EXCEPT !.step = "put", !.blob = FreshBlob]
  /\ UNCHANGED <<signInVars, demoVars, counted, blobOf, objects, listed, crashes>>

(* Variant: the bytes are not waited for. *)
PutUnawaited ==
  /\ Seeding("put")
  /\ objects' \in {objects, objects \cup {seed.blob}}
  /\ SeedTo("file")
  /\ UNCHANGED <<signInVars, demoVars, counted, blobs, blobOf, listed, crashes>>

PutBytes ==
  /\ Seeding("put")
  /\ objects' = objects \cup {seed.blob}
  /\ SeedTo("file")
  /\ UNCHANGED <<signInVars, demoVars, counted, blobs, blobOf, listed, crashes>>

CreateFile ==
  /\ Seeding("file")
  /\ blobs' = [blobs EXCEPT ![seed.blob] = "READY"]
  /\ blobOf' = [blobOf EXCEPT ![At.name] = seed.blob]
  /\ CreateNode
  /\ seed' = Onward
  /\ UNCHANGED <<signInVars, owner, room, objects, listed, crashes>>

Beneath(f) == {n \in nodes : f \in Above[Place(n)]}

(* The seed ends with the counters derived again from the tree. *)
VerifyAggregates ==
  /\ Seeding("tree") /\ seed.at \notin DOMAIN Tree
  /\ SeedTo(IF \A f \in (nodes \ FileName) \cup {Top} : counted[f] = Cardinality(Beneath(f))
            THEN "done" ELSE "mismatch")
  /\ UNCHANGED <<signInVars, demoVars, counted, blobs, blobOf, objects, listed, crashes>>

SeedStep ==
  \/ UpsertOwner \/ Reset \/ DeleteOwned \/ DeleteRows \/ DeleteObject \/ CreateDemoRoom
  \/ EnsureNode \/ CreatePending \/ PutBytes \/ CreateFile \/ VerifyAggregates

(* The process dies, or a call of the database or of storage fails. *)
Crash ==
  /\ seed.step \notin {"idle", "done", "mismatch"} /\ crashes < MaxCrashes
  /\ crashes' = crashes + 1 /\ seed' = Stopped
  /\ UNCHANGED <<signInVars, demoVars, counted, blobs, blobOf, objects, listed>>

-----------------------------------------------------------------------------
(* The revoke script: the grants on the folder are listed, then ended. *)

ListGrants ==
  /\ room /\ listed = {} /\ grants # {}
  /\ listed' = grants
  /\ UNCHANGED <<signInVars, demoVars, counted, blobs, blobOf, objects, seed, crashes>>

RevokeGrants ==
  /\ listed # {}
  /\ grants' = grants \ listed /\ listed' = {}
  /\ UNCHANGED <<users, accounts, rooms, signIn, demoVars, counted, blobs, blobOf, objects, seed, crashes>>

DemoNext ==
  \/ SignInNext /\ UNCHANGED seedVars
  \/ SeedStep \/ Crash \/ ListGrants \/ RevokeGrants

(* Whoever runs the seed waits for it to end, and runs one that died again.*)
DemoSpec == DemoInit /\ [][DemoNext]_vars /\ WF_vars(SeedStep)

-----------------------------------------------------------------------------
(* Properties *)

(* The rows have their shape, and refer to rows that exist: an account and *)
(* a room to a user, a blob in use to a file, and every live grant to the  *)
(* shared folder as it is now, not to one that was reset underneath it     *)
(* ("yesterday's grantees lose access rather than keeping a pointer into a *)
(* room that has been rebuilt", data-room.repository.ts:95).               *)
DemoTypeOK ==
  /\ users \subseteq UserRow /\ accounts \subseteq AccountRow
  /\ rooms \subseteq RoomRow /\ grants \subseteq GrantRow
  /\ \A s \in SignIns : signIn[s].step \in Step
  /\ \A u, v \in users : u.email = v.email => u = v
  /\ nodes \subseteq Name /\ (nodes # {} => room) /\ (room => owner)
  /\ counted \in [Counting -> Nat]
  /\ blobs \in [Blob -> {"none", "PENDING", "READY"}] /\ objects \subseteq Blob
  /\ \A n \in nodes : Tree[Place(n)].parent \in nodes \cup {Top}
  /\ \A a, b \in accounts : a.who = b.who => a = b
  /\ \A a \in accounts : \E u \in users : u.id = a.user
  /\ \A r \in rooms : \E u \in users : u.id = r.owner
  /\ grants # {} => Shared \in nodes

(* "A node whose bytes are not there yet is a file that exists and cannot  *)
(* be opened" (seed.ts:252): in the middle of a build or a reset, and      *)
(* wherever either dies, a grantee finds only files with a READY blob and  *)
(* its bytes.                                                              *)
SeededFilesOpen ==
  \A n \in nodes \cap FileName :
    blobs[blobOf[n]] = "READY" /\ blobOf[n] \in objects

(* A run that died is "recoverable by running the script again"            *)
(* (seed.ts:200): wherever it died, a later run gets through with the      *)
(* whole tree, and its own check of the counters passes.                   *)
Whole == seed.step = "done" /\ nodes = Name
SeedRecovers == (seed.step = "reset") ~> Whole
=============================================================================
