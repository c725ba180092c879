------------------------------ MODULE Listing ------------------------------
(***************************************************************************)
(* A folder on screen: the API's keyset pages of it (node.service.ts,      *)
(* node.repository.ts, cursor.ts) and the browser's cache of those pages   *)
(* (use-node-browser.ts, node-view.tsx), while the reader and others       *)
(* create, rename, move and delete its rows, and while the folder is       *)
(* deleted or taken from the reader.                                       *)
(*                                                                         *)
(* The cache is TanStack Query's, as main.tsx and the hooks set it up: a   *)
(* refetch reads every page again, one after the other and each from the   *)
(* cursor of the fresh page before it; "Load more" appends one page to     *)
(* those cached and cancels a refetch under way; an invalidation cancels   *)
(* what is under way and refetches; a return to the tab refetches what has *)
(* grown stale, unless a fetch is under way already.                       *)
(***************************************************************************)
EXTENDS Naturals, Sequences, FiniteSets, SequencesExt

CONSTANTS
  Folders, Files,   \* the rows that may be children of the folder on screen
  Name,             \* names, as numbers in the order of lower(name)
  Initial,          \* row -> its name, for the rows the folder starts with
  PageSize,         \* LISTING_PAGE_SIZE
  MaxChanges,       \* bound: changes to the rows
  MaxFailures,      \* bound: requests that fail for good
  Top               \* no cursor: from the top, or at the end

Node == Folders \cup Files

ASSUME ListingAssumption ==
  /\ IsFiniteSet(Folders) /\ IsFiniteSet(Files) /\ Folders \cap Files = {}
  /\ Name \subseteq Nat /\ Name # {} /\ PageSize \in Nat \ {0}
  /\ DOMAIN Initial \subseteq Node /\ \A n \in DOMAIN Initial : Initial[n] \in Name
  /\ \A m, n \in DOMAIN Initial : Initial[m] = Initial[n] => m = n
  /\ MaxChanges \in Nat /\ MaxFailures \in Nat
  /\ Top \notin {0, 1} \X Nat

VARIABLES
  rows,       \* row -> where it is, and its name
  place,      \* the folder on screen
  reader,     \* who reads it, from where
  query,      \* the cached pages, and what became of the last fetch
  fetch,      \* the fetch under way (see Quiet)
  own,        \* the reader's own change that is not answered yet
  changes, failures,
  since,      \* ghost: the rows changed since the cached pages were begun
  mine,       \* ghost: the rows the reader changed, and nobody since the answer
  overtaken   \* ghost: a "Load more" cancelled the refetch of a change

vars == <<rows, place, reader, query, fetch, own, changes, failures, since, mine, overtaken>>

(* The fetch under way.  kind "more" starts from the cached pages,         *)
(* "refetch" from none; got is what it has so far, left the number of      *)
(* pages still to get; found says that the page under way has resolved the *)
(* folder and not yet listed it.  A page is its rows, each with the name   *)
(* it was read with, and the cursor of the next page.                      *)
Quiet == [kind |-> "none", left |-> 0, got |-> <<>>, found |-> FALSE, since |-> {}]

(* The owner and a grantee stand in a folder they opened by its id; a      *)
(* visitor with a link stands at the root of what the link shares.         *)
Reader == {"owner", "grantee", "link"}

-----------------------------------------------------------------------------
(* The server *)

Here == {n \in Node : rows[n].at = "here"}

(* The listing's order, folders first: the index on (type, lower(name)). *)
Key(n) == <<IF n \in Folders THEN 0 ELSE 1, rows[n].name>>
Before(k, l) == k[1] < l[1] \/ (k[1] = l[1] /\ k[2] < l[2])

(* Variant: a cursor that lost its type. *)
BelowByName(after) == {n \in Here : after = Top \/ after[2] < rows[n].name}

Below(after) == {n \in Here : after = Top \/ Before(after, Key(n))}

(* The first rows of S, as many as make a page. *)
FirstOf(S) ==
  {n \in S : Cardinality({m \in S : ~Before(Key(n), Key(m))}) <= PageSize}

(* The rows S in the listing's order: no two keys are equal. *)
InOrder(S) ==
  CHOOSE s \in [1..Cardinality(S) -> S] :
    \A i, j \in DOMAIN s : i < j => Before(Key(s[i]), Key(s[j]))

(* One row more than a page is read, to know whether a page follows.  The  *)
(* rows must also lie within the scope's path, which those of a folder     *)
(* that was found there do, unless it is moved before they are listed:     *)
(* nothing here moves the folder itself.                                   *)
PageAfter(after) ==
  LET first == FirstOf(Below(after))
      page == InOrder(first) IN
  [rows |-> [i \in DOMAIN page |-> <<page[i], rows[page[i]].name>>],
   next |-> IF first # Below(after) THEN Key(page[Cardinality(first)]) ELSE Top]

(* Variant: no look at deletedAt. *)
AnswerUnchecked ==
  CASE place = "withdrawn" -> IF reader = "link" THEN "410" ELSE "404"
    [] OTHER -> "ok"

(* A dead token answers like a deleted node, a lost grant like no node. *)
Answer ==
  CASE place = "live" -> "ok"
    [] place = "withdrawn" /\ reader # "link" -> "404"
    [] OTHER -> "410"

-----------------------------------------------------------------------------
(* The cache *)

Refetch == [Quiet EXCEPT !.kind = "refetch",
                         !.left = IF query.pages = <<>> THEN 1 ELSE Len(query.pages)]

NextCursor(pages) == IF pages = <<>> THEN Top ELSE Last(pages).next

ListingInit ==
  /\ rows = [n \in Node |-> IF n \in DOMAIN Initial THEN [at |-> "here", name |-> Initial[n]]
                            ELSE [at |-> "absent", name |-> CHOOSE x \in Name : TRUE]]
  /\ place = "live"
  /\ reader \in Reader
  /\ query = [status |-> "pending", pages |-> <<>>, stale |-> TRUE]
  /\ fetch = Refetch
  /\ own = {} /\ changes = 0 /\ failures = 0
  /\ since = {} /\ mine = {} /\ overtaken = FALSE

server == <<rows, place, reader, own, changes>>

(* The request finds the folder live, or the whole fetch ends in its error.*)
Fail(status) ==
  /\ query' = [query EXCEPT !.status = status, !.stale = TRUE]
  /\ fetch' = Quiet

Resolve ==
  /\ fetch.kind # "none" /\ ~fetch.found
  /\ IF Answer = "ok" THEN fetch' = [fetch EXCEPT !.found = TRUE] /\ UNCHANGED query
                      ELSE Fail(Answer)
  /\ UNCHANGED <<server, failures, since, mine, overtaken>>

(* What the page query finds, which may be after the folder was deleted.   *)
ListChildren ==
  LET got == Append(fetch.got, PageAfter(NextCursor(fetch.got))) IN
  /\ fetch.found
  /\ IF fetch.left > 1 /\ NextCursor(got) # Top
     THEN /\ fetch' = [fetch EXCEPT !.got = got, !.left = @ - 1, !.found = FALSE]
          /\ UNCHANGED <<query, since, overtaken>>
     ELSE /\ query' = [status |-> "ok", pages |-> got, stale |-> FALSE]
          /\ since' = fetch.since
          /\ overtaken' = (overtaken /\ fetch.kind = "more")
          /\ fetch' = Quiet
  /\ UNCHANGED <<server, failures, mine>>

(* The network or the server fails, and so did the retries. *)
RequestFails ==
  /\ fetch.kind # "none" /\ failures < MaxFailures
  /\ failures' = failures + 1
  /\ Fail("failed")
  /\ UNCHANGED <<server, since, mine, overtaken>>

(* staleTime has passed. *)
Age ==
  /\ query.status = "ok" /\ ~query.stale
  /\ query' = [query EXCEPT !.stale = TRUE]
  /\ UNCHANGED <<server, fetch, failures, since, mine, overtaken>>

(* The reader returns to the tab, or presses Retry. *)
Focus ==
  /\ query.stale /\ fetch.kind = "none"
  /\ fetch' = Refetch
  /\ query' = [query EXCEPT !.status = IF query.pages = <<>> THEN "pending" ELSE @]
  /\ UNCHANGED <<server, failures, since, mine, overtaken>>

(* The button is under the listing, so not under an error's screen. *)
LoadMore ==
  /\ query.status = "ok" /\ NextCursor(query.pages) # Top /\ fetch.kind # "more"
  /\ fetch' = [Quiet EXCEPT !.kind = "more", !.left = 1, !.got = query.pages, !.since = since]
  /\ overtaken' = (overtaken \/ fetch.kind = "refetch")
  /\ UNCHANGED <<server, query, failures, since, mine>>

(* Variant: a fetch that is under way will do. *)
InvalidateJoins ==
  /\ query' = [query EXCEPT !.stale = TRUE]
  /\ fetch' = IF fetch.kind = "none" THEN Refetch ELSE fetch

Invalidate ==
  /\ query' = [query EXCEPT !.stale = TRUE]
  /\ fetch' = Refetch

-----------------------------------------------------------------------------
(* Changes to the rows *)

Free(name) == \A n \in Here : rows[n].name # name

(* What one change makes of a row: create, rename, delete, move out, move  *)
(* in.  A name that is taken is refused with 409.                          *)
Changed(n) ==
  {[at |-> "here", name |-> name] :
     name \in {x \in Name : Free(x) /\ rows[n].at \in {"absent", "here"}}}
  \cup (IF rows[n].at = "here" THEN {[rows[n] EXCEPT !.at = a] : a \in {"gone", "away"}} ELSE {})
  \cup (IF rows[n].at = "away" /\ Free(rows[n].name) THEN {[rows[n] EXCEPT !.at = "here"]} ELSE {})

(* The rows of S change under the cached pages, and under those a fetch    *)
(* has got so far.                                                         *)
Touch(S) ==
  /\ since' = since \cup S
  /\ mine' = mine \ S

Meanwhile(S) ==
  [fetch EXCEPT !.since = IF fetch.got = <<>> THEN {} ELSE @ \cup S]

Change(n, row) ==
  /\ changes < MaxChanges /\ changes' = changes + 1
  /\ place = "live" /\ row \in Changed(n)
  /\ rows' = [rows EXCEPT ![n] = row]
  /\ Touch({n}) /\ fetch' = Meanwhile({n})
  /\ UNCHANGED <<place, reader, query, failures, overtaken>>

OthersChange(n, row) == Change(n, row) /\ UNCHANGED own

(* The reader changes a row of the listing on screen, or creates one; a    *)
(* row elsewhere cannot be moved in from here.                             *)
OwnChange(n, row) ==
  /\ reader = "owner" /\ query.status = "ok" /\ own = {}
  /\ rows[n].at # "away" /\ Change(n, row) /\ own' = {n}

(* Every mutation's onSuccess, and the upload queue's, is the invalidation.*)
OwnAnswer ==
  /\ own # {}
  /\ own' = {} /\ mine' = mine \cup own
  /\ Invalidate
  /\ overtaken' = FALSE
  /\ UNCHANGED <<rows, place, reader, changes, failures, since>>

(* The answer is lost: the mutation failed, and nothing is invalidated. *)
OwnLost ==
  /\ own # {} /\ failures < MaxFailures
  /\ own' = {} /\ failures' = failures + 1
  /\ UNCHANGED <<rows, place, reader, query, fetch, changes, since, mine, overtaken>>

(* The folder is deleted with all that is in it. *)
DeleteFolder ==
  /\ place = "live"
  /\ place' = "deleted"
  /\ rows' = [n \in Node |-> IF n \in Here THEN [rows[n] EXCEPT !.at = "gone"] ELSE rows[n]]
  /\ Touch(Here) /\ fetch' = Meanwhile(Here)
  /\ UNCHANGED <<reader, query, own, changes, failures, overtaken>>

(* The reader's grant is revoked, or the link is. *)
Withdraw ==
  /\ place = "live" /\ reader # "owner"
  /\ place' = "withdrawn"
  /\ UNCHANGED <<rows, reader, query, fetch, own, changes, failures, since, mine, overtaken>>

ListingNext ==
  \/ Resolve \/ ListChildren \/ RequestFails
  \/ Age \/ Focus \/ LoadMore
  \/ \E n \in Node : \E row \in Changed(n) : OthersChange(n, row) \/ OwnChange(n, row)
  \/ OwnAnswer \/ OwnLost \/ DeleteFolder \/ Withdraw

(* Requests are answered, time passes, and the reader keeps coming back to *)
(* the tab; nobody has to press "Load more" or to change anything.         *)
ListingSpec ==
  /\ ListingInit /\ [][ListingNext]_vars
  /\ WF_vars(Resolve) /\ WF_vars(ListChildren) /\ WF_vars(Age) /\ WF_vars(Focus)

-----------------------------------------------------------------------------
(* What the reader sees *)

(* The screens of a 410: a link at its root is dead, anything else was     *)
(* deleted by its owner.                                                   *)
Gone == IF reader = "link" THEN "dead_link" ELSE "deleted"

Screen ==
  CASE query.status = "pending" -> "loading"
    [] query.status = "ok" -> "listing"
    [] query.status = "410" -> Gone
    [] query.status = "404" -> "not_found"
    [] query.status = "failed" -> "error"

(* The pages one under the other: the places of the listing, and the row   *)
(* at each.                                                                *)
Listed == UNION {{i} \X DOMAIN query.pages[i].rows : i \in DOMAIN query.pages}
At(p) == query.pages[p[1]].rows[p[2]]
Above(p, q) == p[1] < q[1] \/ (p[1] = q[1] /\ p[2] < q[2])

(* The listing reaches this far. *)
Covers(n) ==
  LET end == NextCursor(query.pages) IN end = Top \/ ~Before(end, Key(n))

Shown(n) == \E p \in Listed : At(p) = <<n, rows[n].name>>
Mentioned(n) == \E p \in Listed : At(p)[1] = n

-----------------------------------------------------------------------------
(* Properties *)

(* However the other rows came and went between two pages, a row that was  *)
(* not touched since the first of them was read is listed once when it is  *)
(* in the folder and the pages reach that far, is not listed otherwise,    *)
(* and such rows stand in the listing's order (listChildrenInScope and its *)
(* cursor, useBrowse's getNextPageParam).                                  *)
SteadyRowsListedOnce ==
  query.status = "ok" =>
    /\ \A n \in Node \ since :
         Cardinality({p \in Listed : At(p)[1] = n})
           = IF n \in Here /\ Covers(n) THEN 1 ELSE 0
    /\ \A p, q \in Listed :
         Above(p, q) /\ {At(p)[1], At(q)[1]} \cap since = {}
           => Before(Key(At(p)[1]), Key(At(q)[1]))

(* Once a reader's own change is answered and the screen has settled, the  *)
(* listing shows that row as the reader left it, if it reaches that far,   *)
(* and no longer shows one that is gone: also when a fetch was under way   *)
(* while the change was made, unless a "Load more" cancelled the refetch.  *)
OwnChangeShown ==
  query.status = "ok" /\ fetch.kind = "none" /\ ~overtaken =>
    \A n \in mine : IF n \in Here /\ Covers(n) THEN Shown(n) ELSE ~Mentioned(n)

(* A reader who keeps coming back to the tab is told that the folder was   *)
(* deleted or is no longer theirs to read, also after a page that was      *)
(* resolved before and listed after (resolveLiveNode, staleTime and        *)
(* refetchOnWindowFocus, NodeView's screens).                              *)
ReaderLearns ==
  place # "live" ~> Screen \in {"dead_link", "deleted", "not_found"}

=============================================================================
