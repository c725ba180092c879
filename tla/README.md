# A verification of the Virtual Data Room

The Virtual Data Room is a NestJS API over Postgres and an S3-compatible object
store, with a React client. A user owns one *Data Room*, a tree of folders and
PDF files; shares give other people, or the holder of a link, a read-only part
of it. The tree is stored with a materialized path and with denormalized
counters, requests are sequences of SQL statements at READ COMMITTED, and only
uploads serialize on a lock. The client keeps a query cache, dialogs and an
upload queue whose requests outlive what sent them. This directory holds TLA+
models of both sides, the TLC runs that check them on small instances, and
proofs checked by TLAPS.

Paths below are relative to `src/apps/api/src` unless they start with `src/`.

## Inventory

| Component | State it keeps | Operations | Hard behaviour |
| --- | --- | --- | --- |
| Node tree (`modules/node`) | `nodes` rows: parent, path, counters, `deleted_at`; the room's counters in `data_rooms` | createFolder, rename, move, deleteSubtree; browse, listing, breadcrumbs | each handler reads in one statement and writes in another; paths and counters read before a transaction are used inside it |
| Upload protocol (`modules/file/upload.service.ts`, `blob.repository.ts`) | `blobs` rows, the per-room advisory lock | presign, complete | two completes at once; a client that retries; a name collision that rolls back and retries; the parent deleted during the transfer |
| Object storage client (`storage`) | objects in a bucket | sign PUT/GET, HEAD, DELETE | a presigned PUT enforces no size |
| Data Room (`modules/data-room`) | `data_rooms` rows | ensureProvisioned, quota read, deleteOwned | two first requests of one user |
| Access control (`access`) | none; reads shares, users and nodes | resolveForUser, resolveForToken | several reads make one scope; revocation, expiry, move and delete in between |
| Sharing (`modules/share`) | `shares` rows | create, revoke with cascade, listings | a cascade is four statements; double revocation |
| Content and public surface (`modules/file/content.service.ts`, `modules/public`) | none | signed GETs, anonymous browse | as access control |
| Sign-in and users (`modules/auth`, `modules/demo/demo-grant.service.ts`) | `users` and `accounts` rows, the demo share | Google callback, upsert, demo grant | check-then-create three times over; a sign-in that dies half way |
| Session cookies (`modules/auth/session.ts`, `jwt-auth.guard.ts`) | a signed cookie in the browser | issue, slide, log out | a slow request re-issues the cookie after a log-out |
| Listing (`node.service.ts`, `node.repository.ts`, `src/packages/contracts/src/cursor.ts`, `use-node-browser.ts`) | cached pages and their cursors, in the browser | next page, refetch, invalidate | rows change between pages; a fetch that began before a change; a folder deleted between two statements |
| Demo seed (`modules/demo/scripts`) | all of the tables, and objects | reset, rebuild, verify, revoke | death between any two calls, beside sign-ins |
| Web upload queue (`src/apps/web/src/features/upload`) | rows, AbortControllers, one run per drop | enqueue, cancel, clear | cancel at any point; two runs side by side; lost answers |
| Web node browser, share screens (`src/apps/web/src/features`) | what each dialog component holds, two query caches | create, rename, move, delete, share, revoke, drop, download | an answer that finds its dialog closed, or open on another row |
| Web shell, wire contracts, configuration, throttling, build | | | no state of the program's own |

How they interact: the tree and the upload protocol share the `nodes` and
`data_rooms` rows and the same increments (`applyAggregateDelta`). Access
control reads what sharing and the tree write, and hands a *scope* (a root path)
to every later statement. The browser talks to object storage directly, between
presign and complete. Object storage never calls back. Sign-in reads the demo
room that the seed deletes and rebuilds, and writes a grant into it. In the
browser a mutation's answer invalidates the listing, and the dialog that sent it
waits for that; the upload queue invalidates the listing after every file.

What makes each part correct:

* tree: paths agree with parents, counters agree with rows, no cycle, nothing
  live under something deleted, a delete takes the whole subtree, and the room's
  totals are exact whatever overlaps;
* uploads: the quota is never exceeded, a blob has one file at most, a file has
  its object and was charged its true size, a complete is always answered;
* access: what is served was shared with the caller, by a share that still gave
  access when the request came in, and lies inside it *now*;
* sharing: one deterministic scope per person, never a dead or narrow one in the
  place of a live or broad one; a revocation's time never changes;
* sign-in and the demo: who is signed in has a room, signing in again adds
  nothing, a grant never points at a folder that was reset, a file a grantee can
  see can be opened, a seed that died is finished by the next one;
* listing: a row that stands still is listed once and in order, a reader's own
  change is shown, a reader of a folder that is gone is told;
* the upload queue: a cancelled file is never made, bytes go only where their
  own file was signed, every row is settled;
* dialogs: a form never shows another row's failure, a link is never shown
  twice, nothing waits for an answer that cannot come.

`PROJECT.json` lists every component with its sources, every hazard at its line,
and for each definition the lines it models.

## The modules

| Module | What it is |
| --- | --- |
| `NodeRows` | the `nodes` table as a value, and each SQL statement of `node.repository.ts` as an operator on it; also what a sound table looks like, from `parent_id` alone |
| `NodeTree` | EXTENDS `NodeRows`: the tree's requests as sequences of statements of concurrent workers |
| `RoomTree` | the abstract specification: a tree without paths or increments, whose counters are recomputed from scratch |
| `Upload` | EXTENDS `NodeTree`: blobs, objects, the advisory lock and complete, beside the tree's own requests |
| `Sharing` | EXTENDS `NodeTree`: shares, the clock, scope resolution and reads, beside the tree's own requests |
| `SignIn` | the user, the room and the demo grant of any number of sign-ins, statement by statement |
| `Seed` | EXTENDS `SignIn`: the seed and the revoke script, call by call, beside the sign-ins |
| `UploadQueue` | the client's upload queue: runs, batches, transfers, cancels |
| `Listing` | the server's keyset pages and the browser's cache of them |
| `Dialogs` | the dialogs over the folder screen, the requests they send and what a late answer does |
| `NodeTreeProofs` | lemmas about the statements; the theorems about any interleaving of the tree's requests |
| `QuietTreeProofs` | EXTENDS `NodeTreeProofs`: what holds of paths, counters and deletes when nothing is moved, and of cycles too when one thing is asked at a time; the refinement of `RoomTree` |
| `UploadProofs`, `SharingProofs`, `SeedProofs` | the theorems about uploads, about shares (EXTENDS `QuietTreeProofs`), about sign-ins and the seed |
| `UploadQueueProofs`, `ListingProofs`, `DialogsProofs` | the theorems about the client's upload queue, the listing and the dialogs over it |
| `MCNodeTree`, `MCUpload`, `MCSharing`, `MCSeed`, `MCUploadQueue`, `MCListing`, `MCDialogs` | instances for TLC |

The server's core is one family (`NodeRows` up to `Upload` and `Sharing`). The
other modules see of it what their own code sees: `Seed` a tree of names with
counts, `UploadQueue` reservations and answers, `Listing` a folder's rows with a
name and a place, `Dialogs` which nodes and shares exist. They are not composed
with it, because the requests they send are already refused, carried out or lost
in every order that it allows.

### How a request is cut into steps

A handler reads with one statement, decides, and writes in a transaction. Each
statement that reads what the request later relies on is a step; any other
request may run before the next one. Three facts justify the cut inside a
transaction.

1. At READ COMMITTED an `UPDATE ... WHERE path LIKE ...` takes its candidate rows
   from the snapshot at its start, waits for each row's lock, and re-evaluates
   its WHERE on the row's current version. Hence `DeletePick`/`DeleteCommit` and
   `MovePick`/`MoveCommit`: candidates first, `StillMatched` second.
2. From its first row lock to its commit a transaction holds what it wrote, so
   the statements after the rewrite (the counter increments, relative and
   therefore commuting) are one step with it. The step stands for the commit.
3. A transaction that fails (time limit, lost deadlock, dropped connection,
   process death, a 409 from the unique index) writes nothing. That is `Fail`,
   enabled at every point of every request, and `UploadFail` for uploads. What
   a process held in memory is lost with it and needs no other recovery.

Left out of 1: a candidate row skipped at the re-evaluation because a second
transaction had moved it away, which a third moves back before the commit.
Postgres would skip the row; the model, which evaluates once, would take it.

A refused request (404, 410, 409, 422) is a stutter before its first step and
the end of the request (`Fail`, or a refusal action) after it. Only an OWNER
writes, and an owner's scope is `/`, so `NodeTree` has no scope predicate;
`Sharing` adds scopes for readers.

### Abstractions of the data

A path `/a/b/` is `<<a, b>>`, so `LIKE p || '%'` is a prefix test on ids (the
trailing slash is what makes these equal). A name is a class of names that
`lower()` identifies; the unique index over `COALESCE(parent_id, data_room_id)`
and the name, for live rows, is `NameTaken`. Sizes are small numbers, counters
are integers. `Weight` counts bytes as *cells*, pairs of a row and a byte of it,
so that every counter is a cardinality. Timestamps appear only where they are
compared (`Sharing`). `suffixedName` is a constant function `Suffixed`, whose
values may collide with other names. Room ids and the owner are fixed: every
statement carries one room's id and no statement moves a row between rooms.

### NodeTree

`rows` is the table, `room` the counters of the room's own row, `req[w]` what
worker w's handler holds in local variables. `createFolder` is `CreateResolve`
(`resolveParentLocation`) and `CreateCommit`; `rename` is `RenameResolve` and
`RenameCommit`; `deleteSubtree` is `DeleteResolve`, `DeletePick`,
`DeleteCommit`; `move` is `MoveResolve`, `MoveResolveDest` (which runs the cycle
guard and the no-op return), `MovePick`, `MoveCommit`. `MoveCommit` transfers the
counters that were read at `MoveResolve`, and does so even if the UPDATE matched
nothing, because the code does not look at the count.

### Upload

`blobs` is the table, `objects` what the bucket holds, `lock` the holder of
`pg_advisory_xact_lock`, `up[u]` the local state of one complete. A complete is
`CompleteRead` (the READY replay is read-only, hence a stutter), `CompleteHead`
or one of its refusals (`CompleteHeadRefused`, then `CompleteDiscard`: HEAD and
DELETE are two calls), `CompleteBegin` (lock, quota, conditional flip),
`CompleteParent` (the re-read inside the transaction), and `CompleteInsert` or
`CompleteCollides` (23505: everything rolled back, the next name, from the
lock). The flip is visible to others at the commit; until then a second flip of
the same blob can only come from a transaction that is waiting for the lock, so
`CompleteInsert` writes flip and row together. `presign` inserts its blobs one
by one; a batch that fails half way is a smaller batch here.

`Put` lets the stored size differ from the claimed one, be zero, or exceed the
limit by one. `RePut` says whether a client uses its URL again. The web client
sends once (`put-object.ts` makes one attempt), the URL does not enforce it, and
`StoredBehindEveryFile` and the size in its comparison are only claimed for
clients that do so: both runs have `RePut = FALSE`.

### Sharing

`shares` is the table, `now` the clock, `desk[o]` a share request of the owner,
`ask[c]` a read. A read is `AskAsUser` or `AskWithToken`, then the query for
usable grants (`GrantRefused`, `GrantWholeRoom` or `GrantNodes`), one
`LocateGrant` per grant in any order (`Promise.all`), and `Serve` or `Refuse`
for `findInScope` and the `deletedAt` check. A revocation is `RevokeFind`,
`RevokePath`, `RevokeList`, `RevokeLook` for each grant, `RevokeWrite`.
`Broader` is `compareBreadth`. The set `dead` in a read's state is no part of the
code: it remembers which shares were revoked or had expired when the request
came in, for `ServedUnderLiveShare`. A token is named by its share.

### SignIn and Seed

`users`, `accounts`, `rooms` and `grants` are the rows (of `grants` only those on
the demo folder), `signIn[s]` what sign-in s has found. `FindAccount`, `FindUser`
and `LinkAccount` are `upsertFromGoogle`: one transaction, but at READ COMMITTED,
so each look-up sees what others committed by then, and the unique indexes
(`EmailTaken`, `AccountTaken`) decide between two first sign-ins. `ListRooms` and
`CreateRoom` are `ensureProvisioned`, `FindFolder` to `CreateGrant` are
`ensureGrantedTo`. `Outage` is any call that fails: it ends the sign-in, or,
within the demo grant, only that (`auth.service.ts` catches it). The `after` of a
sign-in is history, for `RepeatSignInAddsNothing`.

`Seed` adds the demo room, its counters, blob rows and objects. `UpsertOwner` to
`DeleteObject` are the reset, `EnsureNode` one node of the tree, depth first;
a file is `CreatePending`, `PutBytes` and `CreateFile`. `VerifyAggregates` is the
check that ends the script. `Crash` ends a run between any two calls and stands
for a failing call too; the next run starts again at `UpsertOwner`. The revoke
script is `ListGrants` and `RevokeGrants`. `blobOf` and `counted` are columns of
rows, kept apart because a file has no counters and a folder no blob.

### UploadQueue

`runs[r]` is the promise that one drop started: what is still to be batched,
the batch under way, the targets presign answered, and the request it awaits.
`signal[f]` is the file's AbortController. An answer is "ok", "refused" (nothing
was done) or "lost" (it was done, and the client sees a failure): presign, PUT
and complete all fail the three ways, and `BytesStored` says when the bytes
reached storage. `Cancel` aborts the PUT that is under way, settles a waiting
row, and marks one that is between two steps; the row it is clicked on may be one
render old. What a run has not batched yet is a set: files are numbered in the
order they were dropped, so `InOrder` and `Chunk` give the batch that slicing the
list would. Progress and the wording of failures are left out; what screening
refuses is any set of files (`Refusable`).

### Listing

`rows` and `place` are the server, `query` the cached pages and how the last
fetch ended, `fetch` the fetch under way. TanStack Query is external; what is
modelled of it is what `main.tsx`, `useBrowse` and `useInvalidateBrowse` ask of
it: a refetch of several pages reads them one after the other, each from the
cursor of the fresh page before; "Load more" appends one page and cancels a
refetch that is under way; an invalidation cancels and refetches; focus refetches
what is stale. A page is two statements (`Resolve`, `ListChildren`). The three
ghosts say which rows have changed since the cached pages were begun, which were
last changed by the reader, and whether a refetch was cancelled by "Load more".
`ORDER BY` and `LIMIT` are said of sets: `FirstOf` are the rows that at most a
page of rows is not after, `InOrder` is their one increasing enumeration. The
flattened pages are the set of their places (`Listed`), page first.

### Dialogs

`box[k]` is what dialog k's component holds: the row it is open on, pending,
failure, and for the share dialog the share just created. `calls` are the
requests in flight, with where each is still heard: by the component that sent
it, by the one above, or nowhere, which React's unmounting decides (`Deaf`,
`Unlisted`, `Remount`). `Answer` carries a request out (or not) and delivers its
answer: no dialog can tell when the server acted in between. The folder on screen
is fixed, nothing is added by other tabs, and the wording of failures is left out.

## The runs

Passing runs (`tlc -workers 2 -config X.cfg M`):

| Run | Question | Result |
| --- | --- | --- |
| `tree_serial` | Is every operation right when requests do not overlap? | paths, counters, shape hold, a delete takes the whole subtree, and the service implements `RoomTree` |
| `tree_moves` | What survives overlapping deletes and moves? | a deleted row is never moved or revived |
| `tree_no_move` | Are moves to blame for the drifts? | with creates, renames and deletes only, folder counters and deletes are right under every interleaving |
| `upload_quota` | Does the lock do what it is for? | the room's totals, the quota, one file per blob, stored bytes equal charged bytes |
| `upload_answers` | Is every complete answered? | yes, under the fairness below |
| `sharing_reads` | Is only the right thing served? | yes, beside moves, revocations and the clock |
| `sharing_writes` | What do overlapping share requests leave behind? | no restamped revocation, no grant revoked that is somebody else's or not beneath, one scope per person |
| `demo` | What do sign-ins, the seed and its deaths leave behind? | nobody without a room, no second room or grant but from sign-ins that overlapped, no file that cannot be opened, and the next run of the seed gets through |
| `upload_queue` | Do two drops, cancels and lost answers keep the rows honest? | a cancelled file is never made, bytes go to their own reservation, every row settles |
| `listing` | What does a reader see while the folder changes? | steady rows once and in order, the reader's own change, and that the folder is gone |
| `dialogs` | What does a late answer do to the dialog it finds? | no failure of another row, no link again, and no control that waits for nothing, the prompt before a cascade excepted (below) |

The run that finds the code and its documentation in disagreement:

| Run | What TLC finds |
| --- | --- |
| `tree_cycle` | two overlapping moves, each into what the other moves, both pass the guard: the rows become each other's parent. `docs/data-model.md` calls cycles prevented |

### Other disagreements the models contain

These have no run of their own; each is a behaviour of the model, and a property
is worded so as not to claim the contrary.

* Two overlapping moves of one node transfer its counters twice
  (`node.repository.ts:498`), and nothing recomputes a folder's counters.
* A delete whose node moves after it was read stamps nothing and answers 204.
* The parent deleted between complete's re-read and its insert, or beside a
  createFolder (`node.service.ts:136`): a live row under a deleted folder.
* A move onto a folder that moves at the same time leaves `path` and `parent_id`
  in disagreement (stale `destPath`).
* A rename of a node deleted after the first read is answered 200, where
  `node.service.ts:158-160` promises a 410.
* A row deleted under a folder keeps its old path when the folder moves, so the
  410 that `node.repository.ts` promises for it is a 404 to a grantee.
* Two sibling folders shared with one person are one scope, so one of the folders
  "Shared with me" lists answers 404 (`access-control.service.ts:173`).
* Two first sign-ins at once make two rooms or two demo grants: hence the
  "unless they overlapped" of `RepeatSignInAddsNothing`.
* A seed that dies between `deleteOwned` and `deleteAllInRoom`
  (`seed.ts:169-170`) leaves blob rows and objects for ever: the next run starts
  from the rooms it finds, and finds none.
* A folder deleted between `browse`'s two reads is listed as empty; the next
  fetch says 410.
* "Load more" while an invalidation refetches cancels the refetch and marks the
  pages fresh: the reader's own change may stay unseen until they are stale
  again. This is the `overtaken` of `OwnChangeShown`.
* The cascade prompt stays pending after it succeeded (`share-dialog.tsx:96-105`
  resets it only on failure): the next prompt of the same list opens with its
  buttons disabled, until the list is closed.
* A share created from a dialog that was dismissed with Escape shows its link in
  the share dialog of whatever row is open when the answer comes.
* The delete dialog's Cancel keeps a failure that Escape clears, and a success
  that comes late closes the delete dialog of another row.
* A file cancelled while its presign is under way ends as `error` if the presign
  fails, where `use-upload-queue.ts:22` says a cancelled row is no error.
* "Transfers run one at a time" (`use-upload-queue.ts:114`) holds for each drop,
  not for two of them. A Cancel after the last byte has no effect.

Every property of a passing run has a mutant in `PROJECT.json`: a definition
replaced by one with a plausible slip, under which TLC finds the property
violated. The variants stand beside the definitions they vary.

### Bounds

* `tree_serial`: three starting nodes (nested or flat) and one fresh id, two
  names. Depth three is enough for a path that changes in the middle, an
  ancestor of an ancestor and a sibling. One worker is the meaning of the run.
* `tree_moves`, `tree_no_move`: two workers. Every conflict in the code is
  between two requests; the first run has no fresh ids so that the moves can be
  exhaustive. `MaxDrift` (constraint `BoundedDrift`) cuts a behaviour once a
  folder's counter has left the range of right values by more than `MaxDrift`:
  overlapping moves of one node drift without end, and what the run checks
  speaks of rows, not of those counters.
* uploads: two uploaders, two blobs, room for less than both, two attempts (one
  retry), one tree request beside them. Two suffices for a race for the last
  bytes and for two completes of one blob.
* sharing: two shares, two folders, a clock that ticks once (an expiry at 1
  falls before, between or after any two steps), two owner requests or one owner
  request and one reader. `Wish` names what the owner asks to share. In
  `sharing_writes` there are two grantees, and the folders start side by side or
  one inside the other: a cascade meets another grant of its own grantee beneath
  its node, beside it and on it, and one of somebody else beneath it.
* `demo`: one person who signs in twice, a tree of one shared folder with a file
  and one folder outside, four blobs, and two deaths (or objects that could not
  be removed). Two sign-ins are what a look-up and a write can be split by; a
  second death covers one in the run that repairs the first.
* `upload_queue`: three files in batches of two, in at most two drops, so that a
  run has a second batch and the two runs interleave.
* `listing`: a folder and three files, one of them absent at first, pages of one
  row, two changes, one request that fails for good. Pages of one row put a
  cursor on every row; a first change alone cannot come both before and after a
  page.
* `dialogs`: one file and one folder, two shares, two requests in flight. A late
  answer needs one request and another dialog; the second request is the one
  that other dialog sends.
* `CHECK_DEADLOCK FALSE` stands where ids, blobs or the clock run out while a
  request still needs one: the bound ends the behaviour, not the program. In the
  client's modules the user may simply stop.
* Symmetry is used for workers, uploaders, fresh ids, requests and shares, in
  runs without a liveness property.

### Fairness

Four runs need it. `UploadFairness` asks weak fairness of a
complete's own statements (`Proceed`: each is one call that returns), and strong
fairness of the step that takes the advisory lock (`TakeLock`): Postgres queues
waiters in order of arrival, so a waiter that finds the lock free again and again
gets it. Nothing is assumed of failures, clients or the tree's requests. The
property needs bounded retries and a lock that every exit releases.

`DemoSpec` asks weak fairness of `SeedStep`: whoever runs the seed lets it end,
and runs one that died again, which is what its documentation asks of them; it
may die only `MaxCrashes` times. `QueueSpec` asks it of each run's next step:
`fetch` and XMLHttpRequest answer or fail in the end. `ListingSpec` asks it of
the two statements of a page, of time (`Age`) and of the reader's return to the
tab (`Focus`), without which `refetchOnWindowFocus` tells nobody anything.

## What is proved

`NodeTreeProofs`, for arbitrary sets of nodes, names, blobs and workers, any
`MaxFileSize`, any set of operations and any sound start tables:

* `TypeCorrect`: `Spec => []TypeOK`;
* `RoomTotalsAlways`: `Spec => []RoomTotals`: the counters of the Data Room
  count exactly its live rows, under every interleaving;
* `DeletedRowsStayAlways`: `Spec => DeletedRowsStay`: no step moves a deleted row
  or revives it. From the same invariant: each statement, seen as a function on
  tables, keeps what is deleted in place (`Entombed`, one lemma per statement),
  and a move rewrites only rows that are live when it reaches them.

The second is the interesting one, since a *folder's* counters do drift under
overlapping moves. It holds because a delete charges what it stamped and not what
it read, and because a move takes off and puts on the same delta, stale or not,
so the room's share of it cancels. `RoomTotals` alone is not inductive: that a
request's stored `delta` and `path` may be added at all needs their types, which
`TypeOK` gives. The invariant is `IInv == TypeOK /\ RoomTotals`. The lemmas at
its beginning say what each statement does to the weight of the live rows:
`WeightInsert`, `WeightDifference` (for a delete), `StampTable`, `RelocateTable`,
`ChargeTable`, `ChargeBack`. They rest on finite-set cardinality, which is why
bytes are counted as cells and not summed by recursion. One lemma per operation
(`InsertChargedKeeps`, `DeleteKeeps`, `MoveKeeps`, `RenameKeeps`) carries the
invariant over a commit, and `TreeStepKeeps` has one case per action.

`NodeRows` says what is above a row with `Ancestors`, the least set that holds
the row's parent and is closed under `parent_id`; a walk would be a recursive
operator, about which nothing can be proved here. From the least set alone follow
the facts the proofs need: a row's ancestors are its parent and its parent's
ancestors, a path that follows the parents lists exactly the ancestors, and a
table in which every path does has no cycle.

`QuietTreeProofs`, for the same constants. The properties of the tree that fail
when moves overlap hold in the two ways such overlaps can be excluded.

*Nothing is moved* (`"move" \notin Ops`), whatever else overlaps:

* `PathsFollowWithoutMoves`: `Spec => []PathsFollowParents`;
* `DeletesItsNodeWithoutMoves`: `Spec => DeletesItsNode`;
* `AggregatesWithoutMoves`: `Spec => []FolderAggregates`.

(`NoCycles` is no theorem of this kind: only a move changes a parent.)

The invariant is `NoMoveInv == IInv /\ NoneMoving /\ ReadsStand /\ PathsInv`.
`ReadsStand` is the heart of it: what a request has read of a place (the parent's
path, the node's own path) stays true until it is used, because without moves a
row keeps its parent and its path for ever, deleted or not. The counters need
more, since a create may land beneath a folder that was deleted after its parent
was read: `CountsInv` adds a set of rows, the deleted ones a request may still
lean on among them, that all hang together (`Grounded`), and that what a delete
has picked is whole (`Rests`: the rows between a picked row and the deleted node
are picked too, or were dead). Each commit then changes the counters of exactly
the ancestors whose live rows it changes.

*One thing at a time* (`OneAtATime`: there is one worker), moves included:

* `PathsFollowOneAtATime`, `AggregatesOneAtATime`, `NoCyclesOneAtATime`,
  `LiveUnderLiveOneAtATime`: `Spec => []` of `PathsFollowParents`,
  `FolderAggregates`, `NoCycles` and `LiveUnderLive`;
* `DeletesWholeOneAtATime`: `Spec => DeletesWholeSubtree`;
* `ImplementsRoomTreeOneAtATime`: `Spec => ImplementsRoomTree`.

This is the statement that the service does what it is meant to do, for trees of
any shape and depth, of which the first run checks trees of four nodes. The
invariant is `SerialInv`: the table is `Orderly` (live rows hang together, the
counters are right) and what the one request has read is still so (`Fresh`). The
work is in the move: the subtree selected by path is the subtree by `parent_id`,
it hangs together at its new place as it did at the old one (`RelocateRooted`),
and the ancestors that lose its weight and those that gain it are the right ones,
the common ones cancelling. In the refinement every commit is one action of
`RoomTree` and everything else a stutter; that `RoomTree`'s `Recount` agrees with
the increments is `FolderAggregates` on both sides of the step. `SoundStart`
gives the start tables.

`UploadProofs`, for any number of uploaders beside any requests of the tree:

* `UploadTypeCorrect`: `UploadSpec => []UploadTypeOK`;
* `RoomTotalsWithUploads`: `UploadSpec => []RoomTotals`;
* `WithinQuotaAlways`: `UploadSpec => []WithinQuota`;
* `OneFilePerReadyBlobAlways`: `UploadSpec => []OneFilePerReadyBlob`;
* `StoredBehindEveryFileAlways`: the same of `StoredBehindEveryFile`, where no
  client PUTs twice to one URL (`~RePut`).

The quota is checked at `CompleteBegin` and spent at `CompleteInsert`, and the
tree's requests, which take no lock, run in between. `QuotaKept` says why that is
safe: past the check what is used and what the complete will add fit together,
a folder weighs nothing, a delete only gives back, and both halves of a move
cancel. `LockHeld` says that at most one complete is past the check, and
`PendingHeld` that the blob it found PENDING stays so, since only the holder of
the lock flips one. `FileRows` and `ReadyHasFile` tie the READY blobs to the
files. `StoredInv` adds that an object which a complete is about to discard is
one no other complete can have accepted: it was refused for its size, and
without a second PUT its size is the one every other complete sees. Used here:
`QuotaAssumption`, `AttemptsAssumption`, `SuffixedAssumption`, `BlobAssumption`,
`LockAssumption`, and `FitsStart` (the start tables are within the quota, and
their files are on blobs of their own).

`SharingProofs`, for any shares, people, owner's requests and readers, beside any
requests of the tree:

* `ShareTypeCorrect`: `SharingSpec => []ShareTypeOK`;
* `DeadNeverShadowsLiveAlways`: `SharingSpec => []DeadNeverShadowsLive`;
* `RevocationStandsAlways`: `SharingSpec => RevocationStands`;
* `OneScopePerGranteeAlways`: `SharingSpec => []OneScopePerGrantee`;
* `CascadeStaysWithoutMoves`: `SharingSpec => CascadeStaysWithGrantee`, if
  `"move" \notin Ops`;
* `NarrowNeverHidesBroadUnhurried`: `SharingSpec => []NarrowNeverHidesBroad`, and
  `ServedUnderLiveShareUnhurried`: `SharingSpec => ServedUnderLiveShare`, if
  `Unhurried`.

They rest on `RowsKnown`: the node a share is on has a row for ever, live or
deleted, because no request removes a row; so a comparison of breadth never meets
a share without one, and puts a live node first. A revocation stands because
`RevokeWrite` re-reads `revoked_at IS NULL` in the statement that writes. The
cascade needs that nothing is moved, because it decides by paths what is nested
and writes two statements later. `CascadeInv`, which joins `NoMoveInv`, says that
whatever it means to revoke is the same person's and was found on a row that hangs
together with those above it, the share's node among them (`NestedIn`); without
moves that stays so though the row is deleted before the write, and `Hangs` (below)
is what turns the prefix of a path into ancestors by `parent_id`.

`Unhurried` says that the tree's requests do not overlap, or that none of them
moves; shares, revocations, reads and the clock go on side by side in any case,
and a move may fall between any two statements of a read. The two theorems need
it because a scope is a path and a share is a node: the two mean the same as long
as live rows hang together (`Hangs`), which overlapping moves break. `ServedInv`
says what a read knows at each of its steps: the shares it still holds were
usable when it came in, and a path it has located holds the id of the share's
node (`OwnIds`: every path holds its row's own id), so that whatever lies within
the path now has that node above it now, wherever both have gone since. Used
here: `ShareAssumption`, `ClockAssumption`, `WishAssumption`, `OwnIdAssumption`
(so do the start tables' paths, as `buildNodePath` makes them).

`SeedProofs`, for any people, sign-ins, demo tree and number of crashes:

* `DemoTypeCorrect`: `DemoSpec => []DemoTypeOK`;
* `SignedInHasRoomAlways`: `DemoSpec => []SignedInHasRoom`;
* `RepeatSignInAddsNothingAlways`: `DemoSpec => []RepeatSignInAddsNothing`;
* `SeededFilesOpenAlways`: `DemoSpec => []SeededFilesOpen`.

`SignInInv` orders the sign-ins: one that comes `after` others starts once they
have ended, and a sign-in has written its room and its grant before it ends, so
the later one finds them. `SeedInv` follows a run of the seed from the reset,
which takes the rows before the objects, to a rebuild that PUTs the bytes before
it creates the row; hence a row has its bytes at every point where the run may
die. The two are joined by one conjunct: while there is a grant, its folder is in
the tree. Used here: `SignInAssumption`, `SeedAssumption`.

`UploadQueueProofs`, for any number of files and drops and any size of batch:

* `QueueTypeCorrect`: `QueueSpec => []QueueTypeOK`;
* `CancelledIsNotCreatedAlways`: `QueueSpec => []CancelledIsNotCreated`;
* `PutToOwnReservationAlways`: `QueueSpec => []PutToOwnReservation`.

A cancel is seen by a run only at certain points, so the row, its controller and
what the run has ahead are three views of one file that may disagree for a while.
`QueueInv` says how: a controller is armed or aborted exactly while a run has the
file ahead of it (`RowsWell`), the row then says which of the two unless the file
is already being completed (`RowAhead`), a run handles each file once and no two
runs share one (`RunWell`, `Apart`), and the i-th target is the reservation of
the i-th file of the batch that was asked for, cancelled since or not
(`RunWell`, `SignedOnce`). The batches are `InOrder` of a set; that there is an
increasing enumeration (`OrderExists`) is shown without induction over the set,
by ranking each file by how many come before it. Used here: `QueueAssumption`.

`ListingProofs`, for any rows and names, any page size, any number of pages,
changes and failures:

* `SteadyRowsListedOnceAlways`: `ListingSpec => []SteadyRowsListedOnce`;
* `OwnChangeShownAlways`: `ListingSpec => []OwnChangeShown`.

The pages on screen were read at different moments, and so no state is the one
they show. `ListingInv` says what they do show (`PagesRight`): of the rows nobody
touched since the first page was read, each page holds exactly those between the
cursor it began at and the one it ended at, and every page begins where the one
before it ended, further on. It says so twice, of the cached pages and of those a
fetch has so far, which count their touched rows apart, because a fetch that
began later knows of more changes. `AnswersKnown` is what the second theorem
adds: the pages to be shown next, whichever kind of fetch brings them, were begun
after every change that was answered, unless a "Load more" took up pages from
before it. That one page is right (`PageAfterRight`) needs an increasing
enumeration and that the first rows are closed downwards (`OrderExists`,
`FirstByFacts`), which rest on names being unique in the folder (`NamesApart`,
the unique index). Used here: `ListingAssumption`.

`DialogsProofs`, for any folder, any shares and any number of requests in flight:

* `DialogTypeCorrect`: `DialogSpec => []DialogTypeOK`;
* `FormFailureIsOfItsRowAlways`: `DialogSpec => []FormFailureIsOfItsRow`;
* `LinkNeverShownTwiceAlways`: `DialogSpec => []LinkNeverShownTwice`;
* `BusyControlsHaveRequestsAlways`: `DialogSpec => []BusyControlsHaveRequests`.

What a dialog shows and what its requests are for part when it is dismissed, and
an answer joins them again. `DialogInv` says what holds nevertheless: a form that
still hears a request is open on the row the request is about (`CallsWell`), for
unmounting a form is what makes its requests unheard; one dialog is open at a
time (`OneOpen`), so opening one finds none that hears; and a share that is on
screen or was dismissed has been written (`SharesWell`), so the one a late answer
brings is another. Used here: `FileAssumption`, `NoneAssumption`.

`NodeAssumption` (ids are finite in number, `Root` is none of them),
`SizeAssumption`, `OpsAssumption` and `StartAssumption` are used throughout the
server's core. TLC evaluates every assumption on the instances it checks.

Only model-checked: liveness (`EveryCompleteEnds`, `SeedRecovers`,
`EveryRowSettles`, `ReaderLearns`), which is outside what TLAPS proves. Every
invariant and every action property that a passing run checks is also proved, with
the conditions given above where it has any.

## Not modelled, and why

* Session cookies: a stateless token issued again on each request. That a slow
  request re-issues it after a log-out is in the order in which the browser
  receives two answers; nothing in the repository promises otherwise.
* Two rooms: no statement relates two rooms.
* Two runs of the seed at once, or a revoke script beside a second one: they are
  started by hand.
* Signed URLs, breadcrumbs, response shapes, formatting, validation of request
  bodies: pure functions with no state.
* Throttling, configuration, health checks, migrations, deployment.
* The preview, the breadcrumbs, the list of what is shared with me and the
  session query: reads that are rendered, without state of their own.
* A move of the folder on screen, or of one above it, between browse's two
  statements. The second one asks for paths within the scope's path as it was
  resolved (`node.repository.ts:263`), so a grantee or a visitor whose folder has
  left that path gets an empty listing and a 200. The next fetch resolves it anew
  and lists it, or answers 404 if it is no longer shared. For an owner, whose scope
  is `/`, nothing is different. `Listing` has no such move and leaves that filter
  out. `SteadyRowsListedOnce` would not say anything of these rows: the move
  rewrites their paths.
* `presign` is one step, though it reads the parent and the room before it inserts
  the blobs (`upload.service.ts:67-97`). A PENDING blob names no parent and counts
  in no room, so one inserted after its check went stale is the same as one
  inserted when the check was made.
* The content type of a stored object (`upload.service.ts:256`): complete refuses
  and discards a wrong one as it does an empty one.
* An account whose address changed at Google: a sign-in writes the new address and
  its `emailVerified` to the user row (`user.repository.ts:55-66`), and fails if
  another user has it. In `SignIn` an account keeps its address, so `FindAccount`
  writes nothing.
* That the demo grant looks up the demo owner and then the folder
  (`demo-grant.service.ts:62-69`): `FindFolder` is both. The owner's user row is
  never removed, so the later look-up is the one that decides.
* Navigation between folders while a request is under way: `Dialogs` and
  `Listing` stay in one folder.

## Plan

Done, in this order: `NodeRows`, `NodeTree`, `RoomTree`; `Upload`; the proofs of
`TypeOK` and `RoomTotals`; `Sharing`; `DeletedRowsStay`; `SignIn` and `Seed`;
`UploadQueue`; `Listing`; `Dialogs`; the proofs about sign-ins and the seed,
about the tree without moves, about uploads and about shares; the tree asked one
thing at a time and its refinement, the counters without moves, what is served,
the upload queue, the dialogs and the listing. Left:

1. `suffixedName` as an operator over bounded names, against a reference.
2. `UploadQueue` as the client of `Upload`: its reservations are `blobs`, its
   answers those of `presign` and `complete`.
