------------------------------ MODULE Dialogs -------------------------------
(***************************************************************************)
(* The dialogs over the folder screen of the web app, and the requests     *)
(* they send (node-browser.tsx, node-table.tsx, the name, move, delete and *)
(* share dialogs, use-node-browser.ts, use-shares.ts, use-download.ts).    *)
(*                                                                         *)
(* Only one dialog is open at a time, but a dialog can be dismissed while  *)
(* its request is under way, so an answer may find its dialog closed, or   *)
(* open on another row.  What happens then depends on where the component  *)
(* keeps its state: a form is unmounted with its dialog and no longer      *)
(* hears, the delete dialog and the share dialog's result stay mounted and *)
(* do, the prompt before a cascade is unmounted with the list it is part   *)
(* of, and all of them go when the listing of the folder fails.            *)
(***************************************************************************)
EXTENDS Naturals, FiniteSets

CONSTANTS
  Row, File,     \* the nodes of this folder that may exist, and the files
  Here,          \* the folder on screen
  NoRow,         \* no dialog, no failure
  Share,         \* share ids
  NoShare,
  Call           \* bound: the requests the user sends, in flight together or not

ASSUME FileAssumption == File \subseteq Row
ASSUME NoneAssumption ==
  Here \notin Row /\ NoRow \notin Row \cup {Here} /\ NoShare \notin Share

VARIABLES
  live,       \* server: the nodes in the folder
  shares,     \* server: share id -> its row
  screen,     \* the nodes the table shows
  lists,      \* node -> the entries its list of shares has in the cache
  box,        \* dialog -> what its component holds
  calls,      \* the requests in flight
  banner,     \* the failure line above the table
  signing,    \* the row whose download is being prepared
  dismissed   \* the links that have been shown and dismissed (history)

vars == <<live, shares, screen, lists, box, calls, banner, signing, dismissed>>

Target == Row \cup {Here}
Forms == {"create", "rename", "move", "share"}
Dialog == Forms \cup {"delete", "cascade"}

Box == [row : Target \cup {NoRow}, pending : BOOLEAN,
        failure : Target \cup {NoRow}, share : Share \cup {NoShare}]
Fresh == [row |-> NoRow, pending |-> FALSE, failure |-> NoRow, share |-> NoShare]

Idle == [kind |-> "idle", row |-> NoRow, share |-> NoShare, all |-> FALSE, heard |-> "nowhere"]
Over == [Idle EXCEPT !.kind = "over"]
Request == [kind : Dialog \cup {"revoke", "drop", "download"}, row : Target,
            share : Share \cup {NoShare}, all : BOOLEAN,
            heard : {"here", "above", "nowhere"}]

ShareRow == [row : Target \cup {NoRow}, mode : {"LINK", "USER"}, live : BOOLEAN]
NeverWritten == [row |-> NoRow, mode |-> "LINK", live |-> FALSE]
Entry == [share : Share, nested : BOOLEAN]

(* At first nothing is shared, or the room and one of its nodes with the   *)
(* same grantee.                                                           *)
Granted(t) == [row |-> t, mode |-> "USER", live |-> TRUE]
Nested(a, z, r) ==
  [s \in Share |-> CASE s = a -> Granted(Here) [] s = z -> Granted(r) [] OTHER -> NeverWritten]

DialogInit ==
  /\ live \in {Row} \cup {Row \ {r} : r \in Row}
  /\ \/ shares = [s \in Share |-> NeverWritten]
     \/ \E a, z \in Share, r \in Row : a # z /\ shares = Nested(a, z, r)
  /\ screen = live
  /\ lists = [t \in Target |-> {}]
  /\ box = [k \in Dialog |-> Fresh]
  /\ calls = [c \in Call |-> Idle]
  /\ banner = [drop |-> NoRow, download |-> NoRow]
  /\ signing = NoRow
  /\ dismissed = {}

-----------------------------------------------------------------------------
(* What the server answers a list of shares with: the live shares on one   *)
(* node, each with whether the grantee has more beneath it.                *)
HasNested(s) ==
  /\ shares[s].mode = "USER" /\ shares[s].row = Here
  /\ \E z \in Share : shares[z].live /\ shares[z].mode = "USER" /\ shares[z].row \in Row

Listed(t) == {[share |-> s, nested |-> HasNested(s)] :
                s \in {z \in Share : shares[z].live /\ shares[z].row = t}}

-----------------------------------------------------------------------------
(* The user *)

AllClosed == \A k \in Dialog : box[k].row = NoRow

(* Variant: the menu offers Move for folders too. *)
OfferedFolders(k) ==
  CASE k = "create" -> {Here}
    [] k = "move" -> screen
    [] k = "share" -> screen \cup {Here}
    [] k = "cascade" -> {}
    [] OTHER -> screen

(* What the toolbar and a row's menu offer: every row can be renamed,      *)
(* shared and deleted, files can be moved, the folder itself takes a new   *)
(* folder and, as the room, a share.                                       *)
Offered(k) ==
  CASE k = "create" -> {Here}
    [] k = "move" -> screen \cap File
    [] k = "share" -> screen \cup {Here}
    [] k = "cascade" -> {}
    [] OTHER -> screen

Open(k, t) ==
  /\ AllClosed
  /\ t \in Offered(k)
  /\ box' = [box EXCEPT ![k].row = t]
  /\ UNCHANGED <<live, shares, screen, lists, calls, banner, signing, dismissed>>

(* Variant: the result is reset in Radix's own callback only. *)
ClosedByRadix(k, byButton) ==
  CASE k = "share" -> [Fresh EXCEPT !.share = IF byButton THEN box[k].share ELSE NoShare]
    [] k \in Forms -> Fresh
    [] k = "delete" /\ ~byButton -> [box[k] EXCEPT !.row = NoRow, !.failure = NoRow]
    [] OTHER -> [box[k] EXCEPT !.row = NoRow]

(* What is left in a dialog's component when it closes. *)
Closed(k, byButton) ==
  CASE k \in Forms -> Fresh
    [] k = "delete" /\ ~byButton -> [box[k] EXCEPT !.row = NoRow, !.failure = NoRow]
    [] OTHER -> [box[k] EXCEPT !.row = NoRow]

(* A request is heard here, by the component that sent it, or, that being  *)
(* unmounted, above it, by the one that rendered it, or nowhere.  A form   *)
(* is unmounted with its dialog; the list of shares, with its rows and the *)
(* prompt, with the share dialog.                                          *)
Deaf(k) ==
  [c \in Call |->
    CASE calls[c].kind = k /\ k \in Forms -> [calls[c] EXCEPT !.heard = "above"]
      [] calls[c].kind \in {"revoke", "cascade"} /\ k = "share" ->
           [calls[c] EXCEPT !.heard = "nowhere"]
      [] OTHER -> calls[c]]

Boxes(k, byButton) ==
  IF k = "share"
  THEN [box EXCEPT !.share = Closed(k, byButton), !.cascade = Fresh]
  ELSE [box EXCEPT ![k] = Closed(k, byButton)]

(* The prompt is part of the list, and an empty list renders none. *)
Visible(k) == box[k].row # NoRow /\ (k = "cascade" => lists[box[k].row] # {})

(* A dialog is dismissed with Escape, also while its request is under way,  *)
(* or with its button, which waits.  The cascade prompt waits for both, and *)
(* covers the share dialog.                                                *)
Close(k, byButton) ==
  /\ Visible(k)
  /\ byButton \/ k = "cascade" => ~box[k].pending
  /\ k = "share" => ~Visible("cascade")
  /\ box' = Boxes(k, byButton)
  /\ calls' = Deaf(k)
  /\ dismissed' = dismissed \cup (IF k = "share" THEN {box[k].share} \ {NoShare} ELSE {})
  /\ UNCHANGED <<live, shares, screen, lists, banner, signing>>

Asked(k, t, s, all) ==
  [kind |-> k, row |-> t, share |-> s, all |-> all, heard |-> "here"]

(* The submit button of a form, Delete, and the two answers to the prompt. *)
Submit(k, c, all) ==
  /\ calls[c] = Idle
  /\ Visible(k) /\ ~box[k].pending
  /\ k = "share" => box[k].share = NoShare /\ ~Visible("cascade")
  /\ all => k = "cascade"
  /\ calls' = [calls EXCEPT ![c] = Asked(k, box[k].row, IF k = "cascade" THEN box[k].share
                                                        ELSE NoShare, all)]
  /\ box' = [box EXCEPT ![k].pending = TRUE, ![k].failure = NoRow]
  /\ UNCHANGED <<live, shares, screen, lists, banner, signing, dismissed>>

ListOpen(t) == box["share"].row = t /\ t # NoRow /\ box["share"].share = NoShare

Revoking(s) == \E c \in Call :
  calls[c].kind = "revoke" /\ calls[c].share = s /\ calls[c].heard = "here"

(* The bin on one entry of the list: a grant with others nested beneath    *)
(* asks first, anything else is revoked at once.                           *)
AskCascade(e) ==
  /\ e.nested
  /\ box' = [box EXCEPT !.cascade.row = box["share"].row, !.cascade.share = e.share]
  /\ UNCHANGED calls

RevokeAtOnce(e, c) ==
  /\ ~e.nested
  /\ calls[c] = Idle
  /\ calls' = [calls EXCEPT ![c] = Asked("revoke", box["share"].row, e.share, FALSE)]
  /\ UNCHANGED box

HandleRevoke(t, e, c) ==
  /\ ListOpen(t) /\ ~Visible("cascade")
  /\ e \in lists[t] /\ ~Revoking(e.share)
  /\ AskCascade(e) \/ RevokeAtOnce(e, c)
  /\ UNCHANGED <<live, shares, screen, lists, banner, signing, dismissed>>

(* A file dropped on a folder, and Download: no dialog, a line of failure. *)
Drop(r, f, c) ==
  /\ AllClosed /\ calls[c] = Idle
  /\ r \in screen \cap File /\ f \in screen \ File
  /\ calls' = [calls EXCEPT ![c] = Asked("drop", r, NoShare, FALSE)]
  /\ banner' = [drop |-> NoRow, download |-> NoRow]
  /\ UNCHANGED <<live, shares, screen, lists, box, signing, dismissed>>

Download(r, c) ==
  /\ AllClosed /\ calls[c] = Idle
  /\ r \in screen \cap File /\ signing # r
  /\ calls' = [calls EXCEPT ![c] = Asked("download", r, NoShare, FALSE)]
  /\ banner' = [drop |-> NoRow, download |-> NoRow]
  /\ signing' = r
  /\ UNCHANGED <<live, shares, screen, lists, box, dismissed>>

-----------------------------------------------------------------------------
(* The server, and other tabs *)

Ended(S) == [s \in Share |-> IF s \in S THEN [shares[s] EXCEPT !.live = FALSE] ELSE shares[s]]

(* What a request changes when it is carried out. *)
Effect(c, s) ==
  LET q == calls[c] IN
  \/ /\ q.kind = "create"
     /\ \E n \in Row \ (live \cup screen) : live' = live \cup {n}
     /\ s = NoShare /\ UNCHANGED shares
  \/ /\ q.kind \in {"rename", "download"} /\ q.row \in live
     /\ s = NoShare /\ UNCHANGED <<live, shares>>
  \/ /\ q.kind \in {"move", "delete", "drop"} /\ q.row \in live
     /\ live' = live \ {q.row}
     /\ s = NoShare /\ UNCHANGED shares
  \/ /\ q.kind = "share" /\ q.row \in live \cup {Here}
     /\ s \in Share /\ shares[s] = NeverWritten
     /\ \E mode \in {"LINK", "USER"} :
          shares' = [shares EXCEPT ![s] = [row |-> q.row, mode |-> mode, live |-> TRUE]]
     /\ UNCHANGED live
  \/ /\ q.kind \in {"revoke", "cascade"}
     /\ s = q.share
     /\ shares' = Ended({s} \cup IF q.all /\ shares[s].live
                                 THEN {z \in Share : shares[z].mode = "USER" /\ shares[z].row \in Row}
                                 ELSE {})
     /\ UNCHANGED live

(* Other tabs, and the requests of a screen that is gone.  What these add  *)
(* is left out: it opens nothing and fails nothing.                        *)
Elsewhere ==
  /\ \/ \E r \in live : live' = live \ {r} /\ UNCHANGED shares
     \/ \E s \in Share : shares[s].live /\ shares' = Ended({s}) /\ UNCHANGED live
  /\ UNCHANGED <<screen, lists, box, calls, banner, signing, dismissed>>

-----------------------------------------------------------------------------
(* The answers *)

(* A list without entries renders neither rows nor the prompt, which       *)
(* forgets what it was doing; what is to be revoked is remembered above it.*)
Prompt(list, b) ==
  IF list = {} THEN [b EXCEPT !.cascade.pending = FALSE, !.cascade.failure = NoRow] ELSE b

Unlisted(list) ==
  [c \in Call |->
    IF list = {} /\ calls[c].kind \in {"revoke", "cascade"} /\ calls[c].heard = "here"
    THEN [calls[c] EXCEPT !.heard = "above"] ELSE calls[c]]

(* Both caches are refreshed after a mutation, on focus, when they are old; *)
(* a list of shares that cannot be refreshed is a line that says so.       *)
Refetch ==
  \/ /\ screen' = live
     /\ UNCHANGED <<lists, box, calls>>
  \/ \E t \in Target : \E list \in {Listed(t), {}} :
       /\ ListOpen(t)
       /\ lists' = [lists EXCEPT ![t] = list]
       /\ box' = Prompt(list, box) /\ calls' = Unlisted(list)
       /\ UNCHANGED screen

Refresh == Refetch /\ UNCHANGED <<live, shares, banner, signing, dismissed>>

(* A folder that cannot be refreshed is an error's screen, and the browser *)
(* is mounted anew when that is over: nothing is open, and no request that *)
(* was under way is heard.                                                 *)
Remount ==
  /\ screen' = live
  /\ box' = [k \in Dialog |-> Fresh]
  /\ calls' = [c \in Call |-> IF calls[c] = Idle THEN Idle ELSE Over]
  /\ banner' = [drop |-> NoRow, download |-> NoRow] /\ signing' = NoRow
  /\ dismissed' = dismissed \cup ({box["share"].share} \ {NoShare})
  /\ UNCHANGED <<live, shares, lists>>

(* Variant: the forms keep their state in the component that outlives the  *)
(* dialog.                                                                 *)
HearsAlways(c) == TRUE

Hears(c) == calls[c].heard = "here"

(* A request that was carried out answers "ok", or its answer is lost; one *)
(* that was refused changed nothing.  No dialog tells the two failures     *)
(* apart.                                                                  *)
Succeeded(outcome) == outcome = "ok"

(* Variant: a failure is reported, and the control left as it was: no      *)
(* finally.                                                                *)
FailedBusy(k, c) == [box EXCEPT ![k].failure = calls[c].row]

Failed(k, c) == [box EXCEPT ![k].pending = FALSE, ![k].failure = calls[c].row]

(* The name and move dialogs: success closes whatever dialog of that kind  *)
(* is open now, a failure is kept by the form that sent it.                *)
FormAnswer(c, outcome) ==
  LET k == calls[c].kind IN
  /\ k \in {"create", "rename", "move"}
  /\ \/ Succeeded(outcome) /\ screen' \in {live', screen} /\ box' = [box EXCEPT ![k] = Fresh]
     \/ /\ ~Succeeded(outcome) /\ UNCHANGED screen
        /\ box' = IF Hears(c) THEN Failed(k, c) ELSE box
  /\ calls' = [(IF Succeeded(outcome) THEN Deaf(k) ELSE calls) EXCEPT ![c] = Over]
  /\ UNCHANGED <<lists, banner, signing>>

DeleteAnswer(c, outcome) ==
  /\ calls[c].kind = "delete"
  /\ \/ /\ Succeeded(outcome) /\ screen' \in {live', screen}
        /\ box' = [box EXCEPT !.delete.row = NoRow, !.delete.pending = FALSE]
     \/ ~Succeeded(outcome) /\ UNCHANGED screen /\ box' = Failed("delete", c)
  /\ calls' = [calls EXCEPT ![c] = Over]
  /\ UNCHANGED <<lists, banner, signing>>

(* The share dialog shows what was created, and its form is unmounted. *)
ShareAnswer(c, outcome, s) ==
  /\ calls[c].kind = "share"
  /\ \/ /\ Succeeded(outcome)
        /\ box' = [box EXCEPT !.share = [Fresh EXCEPT !.row = box["share"].row, !.share = s],
                              !.cascade = Fresh]
        /\ calls' = [Deaf("share") EXCEPT ![c] = Over]
     \/ /\ ~Succeeded(outcome)
        /\ box' = IF Hears(c) THEN Failed("share", c) ELSE box
        /\ calls' = [calls EXCEPT ![c] = Over]
  /\ UNCHANGED <<screen, lists, banner, signing>>

(* A prompt that has been answered is closed, and still pending. *)
Prompted(c, outcome) ==
  CASE calls[c].kind # "cascade" \/ calls[c].heard = "nowhere" -> box
    [] Succeeded(outcome) -> [box EXCEPT !.cascade.row = NoRow]
    [] Hears(c) -> Failed("cascade", c)
    [] OTHER -> box

(* A revocation refreshes the list it came from, if it is still open. *)
Relist(c, b) ==
  \/ ~ListOpen(calls[c].row) /\ UNCHANGED lists /\ box' = b /\ calls' = [calls EXCEPT ![c] = Over]
  \/ \E t \in {calls[c].row} : \E list \in {Listed(t)', {}} :
       /\ ListOpen(t) /\ lists' = [lists EXCEPT ![t] = list]
       /\ box' = Prompt(list, b) /\ calls' = [Unlisted(list) EXCEPT ![c] = Over]

RevokeAnswer(c, outcome) ==
  /\ calls[c].kind \in {"revoke", "cascade"}
  /\ IF Succeeded(outcome)
     THEN Relist(c, Prompted(c, outcome))
     ELSE /\ box' = Prompted(c, outcome) /\ UNCHANGED lists
          /\ calls' = [calls EXCEPT ![c] = Over]
  /\ UNCHANGED <<screen, banner, signing>>

DropAnswer(c, outcome) ==
  /\ calls[c].kind = "drop"
  /\ \/ Succeeded(outcome) /\ screen' \in {live', screen} /\ UNCHANGED banner
     \/ ~Succeeded(outcome) /\ banner' = [banner EXCEPT !.drop = calls[c].row] /\ UNCHANGED screen
  /\ calls' = [calls EXCEPT ![c] = Over]
  /\ UNCHANGED <<lists, box, signing>>

DownloadAnswer(c, outcome) ==
  /\ calls[c].kind = "download"
  /\ banner' = IF Succeeded(outcome) THEN banner ELSE [banner EXCEPT !.download = calls[c].row]
  /\ signing' = IF signing = calls[c].row THEN NoRow ELSE signing
  /\ calls' = [calls EXCEPT ![c] = Over]
  /\ UNCHANGED <<screen, lists, box>>

(* The server carries a request out, or does not, and the answer arrives:  *)
(* no dialog can tell when in between the server acted.                    *)
Answer(c, outcome, s) ==
  /\ calls[c] \notin {Idle, Over}
  /\ IF outcome = "refused" THEN s = NoShare /\ UNCHANGED <<live, shares>> ELSE Effect(c, s)
  /\ \/ FormAnswer(c, outcome) \/ DeleteAnswer(c, outcome) \/ ShareAnswer(c, outcome, s)
     \/ RevokeAnswer(c, outcome) \/ DropAnswer(c, outcome) \/ DownloadAnswer(c, outcome)
  /\ UNCHANGED dismissed

DialogNext ==
  \/ \E k \in Dialog, t \in Target : Open(k, t)
  \/ \E k \in Dialog, byButton \in BOOLEAN : Close(k, byButton)
  \/ \E k \in Dialog, c \in Call, all \in BOOLEAN : Submit(k, c, all)
  \/ \E t \in Target, e \in Entry, c \in Call : HandleRevoke(t, e, c)
  \/ \E r, f \in Row, c \in Call : Drop(r, f, c)
  \/ \E r \in Row, c \in Call : Download(r, c)
  \/ \E c \in Call, outcome \in {"ok", "lost", "refused"}, s \in Share \cup {NoShare} :
       Answer(c, outcome, s)
  \/ Elsewhere
  \/ Refresh
  \/ Remount

DialogSpec == DialogInit /\ [][DialogNext]_vars

-----------------------------------------------------------------------------
(* Properties *)

(* Every component holds what its props allow: only files are moved, only  *)
(* the folder on screen takes a new one, and one dialog is open at a time, *)
(* the prompt over the share dialog excepted.                              *)
DialogTypeOK ==
  /\ live \subseteq Row /\ screen \subseteq Row
  /\ shares \in [Share -> ShareRow]
  /\ lists \in [Target -> SUBSET Entry]
  /\ box \in [Dialog -> Box]
  /\ calls \in [Call -> {Idle, Over} \cup Request]
  /\ banner \in [drop : File \cup {NoRow}, download : File \cup {NoRow}]
  /\ signing \in File \cup {NoRow}
  /\ dismissed \subseteq Share
  /\ box["move"].row \in File \cup {NoRow}
  /\ box["create"].row \in {Here, NoRow}
  /\ Cardinality({k \in Dialog \ {"cascade"} : box[k].row # NoRow}) <= 1

(* "A dialog reopened still showing the previous attempt's 409 is the      *)
(* classic bug here" (node-name-dialog.tsx:49): what a create, rename,     *)
(* move or share form shows as its failure is about the row it is open on, *)
(* however late the answer and whatever was opened in between.             *)
FormFailureIsOfItsRow ==
  \A k \in Forms : box[k].failure \in {NoRow, box[k].row}

(* "This link is shown here once and cannot be shown again"                *)
(* (share-dialog.tsx:533): a link that was on screen when its dialog was   *)
(* dismissed, by whichever gesture, is never held for display again.       *)
LinkNeverShownTwice == box["share"].share \notin dismissed

(* A control that is disabled because its request is under way has such a  *)
(* request: no form, no Delete and no Download waits for an answer that    *)
(* has come or that it will not hear (the finally blocks of the dialogs,   *)
(* use-download.ts:47).                                                    *)
BusyControlsHaveRequests ==
  /\ \A k \in Forms \cup {"delete"} :
       box[k].pending => \E c \in Call : calls[c].kind = k /\ Hears(c)
  /\ signing # NoRow => \E c \in Call : calls[c].kind = "download" /\ calls[c].row = signing
=============================================================================
