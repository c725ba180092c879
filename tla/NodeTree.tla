------------------------------ MODULE NodeTree ------------------------------
(***************************************************************************)
(* The tree of one Data Room under concurrent requests: NodeService and    *)
(* NodeRepository.  Each worker serves one request at a time; a request is *)
(* the sequence of its database statements, and other requests run between *)
(* any two of them.                                                        *)
(*                                                                         *)
(* Postgres runs them at READ COMMITTED.  An UPDATE over a path range      *)
(* picks its rows from the snapshot it starts with and re-evaluates its    *)
(* WHERE on the current version of each; a row committed in between is not *)
(* seen.  That is two steps here: one that picks the candidates and one    *)
(* that rewrites those which still match.  Once a row is rewritten its     *)
(* lock is held to the end of the transaction, so the rest of the          *)
(* transaction is one step with the rewrite.                               *)
(*                                                                         *)
(* A request that is refused before it writes (404, 410, 422, 409) changes *)
(* nothing: it is a stutter, or the end of a request already under way.    *)
(* Only an OWNER writes, and an owner's scope is the whole room, so the    *)
(* scope predicate of every statement is true and is left out.             *)
(***************************************************************************)
EXTENDS NodeRows

CONSTANTS
  Worker,     \* requests in flight
  Ops,        \* the operations the clients use
  StartRows   \* the tables a room may have when the behaviour starts

AllOps == {"create", "rename", "delete", "move"}

ASSUME OpsAssumption == Ops \subseteq AllOps
ASSUME StartAssumption == \A start \in StartRows : IsTable(start)
ASSUME SoundStart == \A start \in StartRows : Sound(start)

\* buildNodePath appends a node's own id, and nothing else makes a path.
ASSUME OwnIdAssumption ==
  \A start \in StartRows : \A n \in DOMAIN start : n \in AncestorIds(start[n].path)

VARIABLES
  rows,   \* the nodes table
  room,   \* the counters of the data_rooms row
  req     \* what each worker holds between two statements

vars == <<rows, room, req>>

Idle == [step |-> "idle"]

CreateReq ==
  [step : {"creating"}, parent : Node \cup {Root}, path : Seq(Node), name : Name]

RenameReq == [step : {"renaming"}, node : Node, name : Name]

DeleteReq ==
  [step : {"deleting", "stamping"}, node : Node, path : Seq(Node),
   picked : SUBSET Node]

MoveReq ==
  [step : {"resolving", "moving", "relocating"}, node : Node,
   path : Seq(Node), parent : Node \cup {Root}, delta : Delta,
   dest : Node \cup {Root}, destPath : Seq(Node), picked : SUBSET Node]

Request == {Idle} \cup CreateReq \cup RenameReq \cup DeleteReq \cup MoveReq

TypeOK ==
  /\ IsTable(rows)
  /\ room \in Delta
  /\ req \in [Worker -> Request]

Init ==
  /\ rows \in StartRows
  /\ room = Weight(rows, Live(rows))
  /\ req = [w \in Worker |-> Idle]

Begin(w, op) == op \in Ops /\ req[w] = Idle

Hold(w, r) == req' = [req EXCEPT ![w] = r]

Answer(w) == Hold(w, Idle)

-----------------------------------------------------------------------------
(* createFolder: resolve the parent, then insert and charge its ancestors. *)

CreateResolve(w, p, name) ==
  /\ Begin(w, "create")
  /\ IsLocation(rows, p)
  /\ Hold(w, [step |-> "creating", parent |-> p,
              path |-> LocationPath(rows, p), name |-> name])
  /\ UNCHANGED <<rows, room>>

FolderDelta == [size |-> 0, files |-> 0, folders |-> 1]

(* The row a folder is inserted as. *)
FolderRow(r, n) ==
  NewRow("FOLDER", r.parent, r.name, Append(r.path, n), 0, NoBlob)

(* Variant: the parent is charged, and not the folders above it.           *)
InsertParentOnly(n, row, parentPath, d) ==
  /\ rows' = Charge(Insert(rows, n, row), {row.parent}, d)
  /\ room' = ChargeRoom(room, d)

InsertCharged(n, row, parentPath, d) ==
  /\ rows' = Charge(Insert(rows, n, row), AncestorIds(parentPath), d)
  /\ room' = ChargeRoom(room, d)

CreateCommit(w) ==
  /\ req[w].step = "creating"
  /\ LET r == req[w]
     IN  \E n \in Node \ DOMAIN rows :
           /\ ~NameTaken(rows, n, r.parent, r.name)
           /\ InsertCharged(n, FolderRow(r, n), r.path, FolderDelta)
  /\ Answer(w)

-----------------------------------------------------------------------------
(* rename: resolve the node, then update it by id alone. *)

RenameResolve(w, n, name) ==
  /\ Begin(w, "rename")
  /\ n \in Live(rows)
  /\ Hold(w, [step |-> "renaming", node |-> n, name |-> name])
  /\ UNCHANGED <<rows, room>>

(* Variant: the row is written back as it was read, live. *)
RenameCommitAsRead(w) ==
  /\ req[w].step = "renaming"
  /\ LET r == req[w]
     IN  /\ ~NameTaken(rows, r.node, rows[r.node].parent, r.name)
         /\ rows' = [rows EXCEPT ![r.node].name = r.name, ![r.node].deleted = FALSE]
  /\ Answer(w)
  /\ UNCHANGED room

(* The unique index is partial: a deleted row may take any name. *)
RenameCommit(w) ==
  /\ req[w].step = "renaming"
  /\ LET r == req[w]
         old == rows[r.node]
     IN  /\ old.deleted \/ ~NameTaken(rows, r.node, old.parent, r.name)
         /\ rows' = [rows EXCEPT ![r.node].name = r.name]
  /\ Answer(w)
  /\ UNCHANGED room

-----------------------------------------------------------------------------
(* deleteSubtree: resolve the node; pick the path range; stamp it and take *)
(* the ancestors down by what was stamped.                                 *)

DeleteResolve(w, n) ==
  /\ Begin(w, "delete")
  /\ n \in Live(rows)
  /\ Hold(w, [step |-> "deleting", node |-> n, path |-> rows[n].path,
              picked |-> {}])
  /\ UNCHANGED <<rows, room>>

DeletePick(w) ==
  /\ req[w].step = "deleting"
  /\ Hold(w, [req[w] EXCEPT !.step = "stamping",
                            !.picked = Matched(rows, req[w].path)])
  /\ UNCHANGED <<rows, room>>

(* Variants of StillMatched: without AND deleted_at IS NULL, rows that     *)
(* another delete stamped in the meantime are among them; by id alone, the *)
(* rows beneath the node are not.                                          *)
StillMatchedAny(r) == r.picked \cap MatchedAny(rows, r.path)
StillMatchedNode(r) == r.picked \cap {r.node}

(* The picked rows that still match when the statement reaches them. *)
StillMatched(r) == r.picked \cap Matched(rows, r.path)

DeleteCommit(w) ==
  /\ req[w].step = "stamping"
  /\ LET r == req[w]
         stamped == StillMatched(r)
         delta == Negate(Weight(rows, stamped))
     IN  /\ rows' = Charge(Stamp(rows, stamped), StrictAncestorIds(r.path), delta)
         /\ room' = ChargeRoom(room, delta)
  /\ Answer(w)

-----------------------------------------------------------------------------
(* move: resolve the node, resolve the destination, run the guards; pick   *)
(* the path range; rewrite it and transfer the counters.                   *)

MoveResolve(w, n, dest) ==
  /\ Begin(w, "move")
  /\ n \in Live(rows)
  /\ Hold(w, [step |-> "resolving", node |-> n, path |-> rows[n].path,
              parent |-> rows[n].parent, delta |-> Carried(rows[n]),
              dest |-> dest, destPath |-> <<>>, picked |-> {}])
  /\ UNCHANGED <<rows, room>>

(* The guards without the one against a cycle. *)
MoveAllowedAnywhere(r, destPath) == r.dest # r.parent

(* newParent.path.startsWith(node.path) is a 422, and a move to where the  *)
(* node already is answers at once.                                        *)
MoveAllowed(r, destPath) ==
  /\ ~Within(destPath, r.path)
  /\ r.dest # r.parent

MoveResolveDest(w) ==
  /\ req[w].step = "resolving"
  /\ IsLocation(rows, req[w].dest)
  /\ LET destPath == LocationPath(rows, req[w].dest)
     IN  /\ MoveAllowed(req[w], destPath)
         /\ Hold(w, [req[w] EXCEPT !.step = "moving", !.destPath = destPath])
  /\ UNCHANGED <<rows, room>>

MovePick(w) ==
  /\ req[w].step = "moving"
  /\ Hold(w, [req[w] EXCEPT !.step = "relocating",
                            !.picked = Matched(rows, req[w].path)])
  /\ UNCHANGED <<rows, room>>

(* The counters move onto the new ancestors and stay on the old ones. *)
TransferOneSided(table, r) ==
  /\ rows' = Charge(table, AncestorIds(r.destPath), r.delta)
  /\ room' = ChargeRoom(room, r.delta)

(* applyAggregateDelta twice: off the old chain, onto the new one. *)
Transfer(table, r) ==
  LET off == Negate(r.delta)
  IN  /\ rows' = Charge(Charge(table, StrictAncestorIds(r.path), off),
                        AncestorIds(r.destPath), r.delta)
      /\ room' = ChargeRoom(ChargeRoom(room, off), r.delta)

(* The rewrite is rejected if it puts the moved row beside its namesake,   *)
(* and rolled back if the moved row is not live any more.  It is NOT       *)
(* rolled back if nothing matched and the row is live somewhere else.      *)
MoveCommit(w) ==
  /\ req[w].step = "relocating"
  /\ LET r == req[w]
         hit == StillMatched(r)
         newPath == Append(r.destPath, r.node)
     IN  /\ r.node \in hit => ~NameTaken(rows, r.node, r.dest, rows[r.node].name)
         /\ r.node \in Live(rows)
         /\ Transfer(Relocate(rows, hit, r.node, r.dest, newPath, Len(r.path)), r)
  /\ Answer(w)

-----------------------------------------------------------------------------
(* A request that ends without a write: the client is gone, a transaction  *)
(* timed out, lost a deadlock or failed a guard above, the process died.   *)
Fail(w) ==
  /\ req[w] # Idle
  /\ Answer(w)
  /\ UNCHANGED <<rows, room>>

Create(w) ==
  \/ \E p \in Node \cup {Root}, name \in Name : CreateResolve(w, p, name)
  \/ CreateCommit(w)

Rename(w) ==
  \/ \E n \in Node, name \in Name : RenameResolve(w, n, name)
  \/ RenameCommit(w)

Delete(w) ==
  \/ \E n \in Node : DeleteResolve(w, n)
  \/ DeletePick(w)
  \/ DeleteCommit(w)

Move(w) ==
  \/ \E n \in Node, dest \in Node \cup {Root} : MoveResolve(w, n, dest)
  \/ MoveResolveDest(w)
  \/ MovePick(w)
  \/ MoveCommit(w)

TreeStep(w) == Create(w) \/ Rename(w) \/ Delete(w) \/ Move(w) \/ Fail(w)

Next == \E w \in Worker : TreeStep(w)

Spec == Init /\ [][Next]_vars

-----------------------------------------------------------------------------
(* Properties *)

(* The Data Room's counters are whole-room totals: whatever the requests   *)
(* interleave, they count exactly the live rows (docs/data-model.md, the   *)
(* third row of the invariants table).                                     *)
RoomTotals == room = Weight(rows, Live(rows))

(* The path of every live node is its parent's path and its own id: the    *)
(* path range a delete, a move or a scope check uses is the real subtree.  *)
PathsFollowParents == \A n \in Live(rows) : PathFollowsParent(rows, n)

(* The counters of every live folder count the live rows beneath it: what  *)
(* the delete dialog shows is what a delete takes away.  A file has none.  *)
FolderAggregates == \A n \in Live(rows) : CountersMatch(rows, n)

(* No folder is beneath itself: a subtree that a move has cut off from the *)
(* root can be neither listed nor walked up from.                          *)
NoCycles == \A n \in Live(rows) : n \notin Ancestors(rows, n)

(* A node under a deleted ancestor is itself deleted: the assumption under *)
(* which a read by id checks deletedAt on the node alone.                  *)
LiveUnderLive == \A n \in Live(rows) : Ancestors(rows, n) \subseteq Live(rows)

(* A deleted row keeps its place: no statement of a request that was under *)
(* way when it was deleted moves it or makes it live again.                *)
DeletedRowsStay ==
  [][\A n \in DOMAIN rows \ Live(rows) :
       /\ rows'[n].deleted
       /\ rows'[n].parent = rows[n].parent
       /\ rows'[n].path = rows[n].path]_vars

(* When a delete answers, the node it was asked for and every node that    *)
(* was beneath it are deleted: "soft-deletes a node and everything beneath *)
(* it" (node.repository.ts).                                               *)
DeletesWholeSubtree ==
  [][\A w \in Worker : DeleteCommit(w) =>
       \A n \in Live(rows) :
         (n = req[w].node \/ req[w].node \in Ancestors(rows, n))
            => rows'[n].deleted]_vars

(* When a delete answers, at least the node it was asked for is deleted.   *)
DeletesItsNode ==
  [][\A w \in Worker : DeleteCommit(w) => rows'[req[w].node].deleted]_vars

(* The tree that clients see: positions and names, and the counters.       *)
Abstract ==
  INSTANCE RoomTree WITH
    tree <- [n \in DOMAIN rows |->
               [type |-> rows[n].type, parent |-> rows[n].parent,
                name |-> rows[n].name, size |-> rows[n].size,
                deleted |-> rows[n].deleted]],
    shown <- [n \in Live(rows) |-> Counters(rows[n])],
    total <- room

(* One request at a time, the service is a tree whose counters are         *)
(* recomputed from scratch by every operation (RoomTree).                  *)
ImplementsRoomTree == Abstract!Spec
=============================================================================
