--------------------------- MODULE DialogsProofs ---------------------------
(***************************************************************************)
(* Theorems about the dialogs, for any folder, any number of shares and    *)
(* any number of requests in flight.                                       *)
(*                                                                         *)
(* What a dialog shows and what its requests are for are separate pieces   *)
(* of state, and an answer joins them long after they may have parted.     *)
(* DialogInv says what keeps them together: a form that hears a request is *)
(* open on the row the request is about, and a share is written before it  *)
(* is shown and is never unwritten.                                        *)
(***************************************************************************)
EXTENDS Dialogs, FiniteSetTheorems, TLAPS

-----------------------------------------------------------------------------
(* The inductive invariant *)

(* At most one dialog is open, the prompt before a cascade aside. *)
OneOpen ==
  \A j, k \in Dialog \ {"cascade"} : j # k => box[j].row = NoRow \/ box[k].row = NoRow

BoxesWell ==
  /\ box \in [Dialog -> Box]
  /\ box["move"].row \in File \cup {NoRow}
  /\ box["create"].row \in {Here, NoRow}
  /\ OneOpen
  /\ FormFailureIsOfItsRow

(* A request that its form still hears is about the row the form is open   *)
(* on, and a busy control has a request.                                   *)
CallsWell ==
  /\ calls \in [Call -> {Idle, Over} \cup Request]
  /\ \A c \in Call : calls[c].kind \in {"drop", "download"} => calls[c].row \in File
  /\ \A c \in Call : calls[c].kind \in Forms /\ Hears(c) => box[calls[c].kind].row = calls[c].row
  /\ BusyControlsHaveRequests

(* A share that is on screen, or was, has been written. *)
Shown == dismissed \cup ({box["share"].share} \ {NoShare})

SharesWell ==
  /\ live \subseteq Row /\ screen \subseteq Row
  /\ shares \in [Share -> ShareRow]
  /\ lists \in [Target -> SUBSET Entry]
  /\ dismissed \subseteq Share
  /\ \A s \in Shown : shares[s].row # NoRow
  /\ LinkNeverShownTwice

LinesWell ==
  /\ banner \in [drop : File \cup {NoRow}, download : File \cup {NoRow}]
  /\ signing \in File \cup {NoRow}

DialogInv == BoxesWell /\ CallsWell /\ SharesWell /\ LinesWell

-----------------------------------------------------------------------------
(* Requests and boxes *)

(* A request is one of three: never sent, over, or of a dialog.            *)
LEMMA CallTypes ==
  ASSUME calls \in [Call -> {Idle, Over} \cup Request], NEW c \in Call
  PROVE  /\ Idle.kind = "idle" /\ Over.kind = "over" /\ Idle.heard = "nowhere" /\ Over.heard = "nowhere"
         /\ calls[c] \in {Idle, Over} \/ /\ calls[c] \in Request
                                         /\ calls[c].kind \in Dialog \cup {"revoke", "drop", "download"}
                                         /\ calls[c].row \in Target
                                         /\ calls[c].share \in Share \cup {NoShare}
<1>1. Idle.kind = "idle" /\ Idle.heard = "nowhere" /\ Over.kind = "over" /\ Over.heard = "nowhere"
  BY DEF Idle, Over
<1>2. CASE calls[c] \in {Idle, Over}
  BY <1>1, <1>2
<1>3. CASE calls[c] \in Request
  BY <1>1, <1>3 DEF Request
<1> QED
  BY <1>2, <1>3

(* The names of the dialogs. *)
LEMMA Names ==
  /\ Dialog = {"create", "rename", "move", "share", "delete", "cascade"}
  /\ Forms = {"create", "rename", "move", "share"}
BY DEF Dialog, Forms

(* The rows are not NoRow. *)
LEMMA Rows ==
  /\ File \subseteq Row /\ Row \subseteq Target /\ Here \in Target /\ NoRow \notin Target
  /\ NoShare \notin Share
BY FileAssumption, NoneAssumption DEF Target

(* An unmounted component holds nothing. *)
LEMMA FreshBox ==
  /\ Fresh \in Box /\ Fresh.row = NoRow /\ Fresh.pending = FALSE /\ Fresh.failure = NoRow
  /\ Fresh.share = NoShare
BY DEF Fresh, Box

(* Boxes whose dialogs only close, or forget what they showed, stay well.  *)
LEMMA BoxesKeep ==
  ASSUME BoxesWell, box' \in [Dialog -> Box],
         \A k \in Dialog \ {"cascade"} : box'[k].row \in {box[k].row, NoRow},
         \A k \in Forms : box'[k].failure \in {NoRow, box'[k].row}
  PROVE  BoxesWell'
<1>1. {"move", "create"} \subseteq Dialog \ {"cascade"}
  BY Names
<1>2. OneOpen'
  BY DEF BoxesWell, OneOpen
<1>3. FormFailureIsOfItsRow'
  BY DEF FormFailureIsOfItsRow
<1> QED
  BY <1>1, <1>2, <1>3 DEF BoxesWell

(* Requests stay well if none is heard that was not, none is sent, and     *)
(* those still heard by a form find it open on the same row; if who is     *)
(* busy was, with a request that is still heard.                           *)
LEMMA CallsKeep ==
  ASSUME CallsWell, calls' \in [Call -> {Idle, Over} \cup Request],
         \A c \in Call : \/ calls'[c] = Over
                         \/ /\ calls'[c].kind = calls[c].kind /\ calls'[c].row = calls[c].row
                            /\ calls'[c].kind \in Forms /\ calls'[c].heard = "here" =>
                                 /\ calls[c].heard = "here"
                                 /\ box'[calls[c].kind].row = box[calls[c].kind].row,
         BusyControlsHaveRequests'
  PROVE  CallsWell'
<1>1. Over.kind = "over" /\ Over.kind \notin Forms
  BY DEF Over, Idle, Forms
<1>2. \A c \in Call : calls'[c].kind \in {"drop", "download"} => calls'[c].row \in File
  <2> TAKE c \in Call
  <2>1. CASE calls'[c] = Over
    BY <1>1, <2>1
  <2>2. CASE calls'[c] # Over
    BY <2>2 DEF CallsWell
  <2> QED
    BY <2>1, <2>2
<1>3. \A c \in Call : calls'[c].kind \in Forms /\ Hears(c)' => box'[calls'[c].kind].row = calls'[c].row
  <2> TAKE c \in Call
  <2>1. CASE calls'[c] = Over
    BY <1>1, <2>1
  <2>2. CASE calls'[c] # Over
    BY <2>2 DEF CallsWell, Hears
  <2> QED
    BY <2>1, <2>2
<1> QED
  BY <1>2, <1>3 DEF CallsWell

(* Shares stay well if none that was written is unwritten, and no share is *)
(* shown but those that were.                                              *)
LEMMA SharesKeep ==
  ASSUME SharesWell, box \in [Dialog -> Box],
         live' \subseteq Row, screen' \subseteq Row, shares' \in [Share -> ShareRow],
         lists' \in [Target -> SUBSET Entry],
         \A s \in Share : shares[s].row # NoRow => shares'[s].row # NoRow,
         \/ dismissed' = dismissed /\ box'["share"].share = box["share"].share
         \/ dismissed' \subseteq Shown /\ box'["share"].share = NoShare
  PROVE  SharesWell'
<1>1. Shown \subseteq Share /\ \A s \in Shown : shares[s].row # NoRow
  <2>1. "share" \in Dialog
    BY Names
  <2> QED
    BY <2>1 DEF SharesWell, Shown, Box
<1>2. Shown' \subseteq Shown
  BY DEF Shown
<1>3. \A s \in Shown' : shares'[s].row # NoRow
  BY <1>1, <1>2
<1>4. dismissed' \subseteq Share
  BY <1>1, <1>2 DEF Shown
<1>5. LinkNeverShownTwice'
  BY <1>4, Rows DEF SharesWell, LinkNeverShownTwice
<1> QED
  BY <1>3, <1>4, <1>5 DEF SharesWell

-----------------------------------------------------------------------------
(* The user *)

(* Opening a dialog: none is open, so no form hears anything.              *)
LEMMA OpenKeeps ==
  ASSUME DialogInv, NEW k \in Dialog, NEW t \in Target, Open(k, t)
  PROVE  DialogInv'
<1>1. /\ \A j \in Dialog : box[j].row = NoRow
      /\ t \in Offered(k)
      /\ box' = [box EXCEPT ![k].row = t]
      /\ UNCHANGED <<live, shares, screen, lists, calls, banner, signing, dismissed>>
  BY DEF Open, AllClosed
<1>2. BoxesWell /\ CallsWell /\ SharesWell /\ LinesWell
  BY DEF DialogInv
<1>3. box \in [Dialog -> Box]
  BY <1>2 DEF BoxesWell
<1>4. /\ box'[k].row = t /\ box'[k].pending = box[k].pending /\ box'[k].failure = box[k].failure
      /\ box'[k].share = box[k].share
      /\ \A j \in Dialog \ {k} : box'[j] = box[j]
      /\ box' \in [Dialog -> Box]
  BY <1>1, <1>3 DEF Box
<1>5. /\ k = "move" => t \in File
      /\ k = "create" => t = Here
      /\ k # "cascade"
  BY <1>1 DEF Offered
<1>6. \A j \in Forms : box[j].failure = NoRow
  BY <1>1, <1>2, Names DEF BoxesWell, FormFailureIsOfItsRow
<1>7. BoxesWell'
  <2>1. OneOpen'
    BY <1>1, <1>4 DEF OneOpen
  <2>2. FormFailureIsOfItsRow'
    <3> SUFFICES ASSUME NEW j \in Forms PROVE box'[j].failure \in {NoRow, box'[j].row}
      BY DEF FormFailureIsOfItsRow
    <3>1. j \in Dialog
      BY Names
    <3> QED
      BY <1>4, <1>6, <3>1
  <2>3. box'["move"].row \in File \cup {NoRow} /\ box'["create"].row \in {Here, NoRow}
    BY <1>2, <1>4, <1>5, Names DEF BoxesWell
  <2> QED
    BY <1>4, <2>1, <2>2, <2>3 DEF BoxesWell
<1>8. CallsWell'
  <2>1. \A j \in Dialog : box'[j].pending = box[j].pending
    BY <1>4
  <2>2. BusyControlsHaveRequests'
    BY <1>1, <1>2, <2>1, Names DEF CallsWell, BusyControlsHaveRequests, Hears
  <2>3. \A c \in Call : ~(calls[c].kind \in Forms /\ calls[c].heard = "here")
    <3> TAKE c \in Call
    <3>1. calls[c].kind \in Forms => calls[c].row # NoRow
      BY <1>2, CallTypes, Names, Rows DEF CallsWell
    <3> QED
      BY <1>1, <1>2, <3>1, Names DEF CallsWell, Hears
  <2> QED
    BY <1>1, <1>2, <2>2, <2>3, CallsKeep DEF CallsWell
<1>9. SharesWell'
  <2>1. box'["share"].share = box["share"].share
    BY <1>4, Names
  <2> QED
    BY <1>1, <1>2, <1>3, <2>1, SharesKeep DEF SharesWell
<1>10. LinesWell'
  BY <1>1, <1>2 DEF LinesWell
<1> QED
  BY <1>7, <1>8, <1>9, <1>10 DEF DialogInv

(* What a dialog's component keeps when it closes. *)
LEMMA ClosedBox ==
  ASSUME box \in [Dialog -> Box], NEW k \in Dialog, NEW byButton \in BOOLEAN
  PROVE  /\ Closed(k, byButton) \in Box
         /\ Closed(k, byButton).row = NoRow
         /\ k \in Forms => Closed(k, byButton) = Fresh
         /\ Closed(k, byButton).pending => box[k].pending
<1>1. CASE k \in Forms
  <2>1. Closed(k, byButton) = Fresh
    BY <1>1, Names DEF Closed
  <2> QED
    BY <1>1, <2>1, FreshBox
<1>2. CASE k \notin Forms /\ k = "delete" /\ ~byButton
  <2>1. Closed(k, byButton) = [box[k] EXCEPT !.row = NoRow, !.failure = NoRow]
    BY <1>2 DEF Closed
  <2>2. box[k] \in Box
    OBVIOUS
  <2>3. ASSUME NEW b \in Box
        PROVE  LET n == [b EXCEPT !.row = NoRow, !.failure = NoRow]
               IN  n \in Box /\ n.row = NoRow /\ n.pending = b.pending
    BY DEF Box
  <2> QED
    BY <1>2, <2>1, <2>2, <2>3
<1>3. CASE k \notin Forms /\ ~(k = "delete" /\ ~byButton)
  <2>1. Closed(k, byButton) = [box[k] EXCEPT !.row = NoRow]
    BY <1>3 DEF Closed
  <2>2. box[k] \in Box
    OBVIOUS
  <2>3. ASSUME NEW b \in Box
        PROVE  /\ [b EXCEPT !.row = NoRow] \in Box /\ [b EXCEPT !.row = NoRow].row = NoRow
               /\ [b EXCEPT !.row = NoRow].pending = b.pending
    BY DEF Box
  <2> QED
    BY <1>3, <2>1, <2>2, <2>3
<1> QED
  BY <1>1, <1>2, <1>3

(* Unmounting: the requests keep what they are for, the form hears none.   *)
LEMMA DeafCalls ==
  ASSUME calls \in [Call -> {Idle, Over} \cup Request], NEW k \in Dialog
  PROVE  /\ Deaf(k) \in [Call -> {Idle, Over} \cup Request]
         /\ \A c \in Call : /\ Deaf(k)[c].kind = calls[c].kind /\ Deaf(k)[c].row = calls[c].row
                            /\ Deaf(k)[c].heard = "here" => calls[c].heard = "here"
                            /\ calls[c].kind = k /\ k \in Forms => Deaf(k)[c].heard = "above"
                            /\ calls[c].kind \notin {k, "revoke", "cascade"} => Deaf(k)[c] = calls[c]
                            /\ k \notin Forms => Deaf(k)[c] = calls[c]
<1>1. ASSUME NEW c \in Call
      PROVE  /\ Deaf(k)[c] \in {Idle, Over} \cup Request
             /\ Deaf(k)[c].kind = calls[c].kind /\ Deaf(k)[c].row = calls[c].row
             /\ Deaf(k)[c].heard = "here" => calls[c].heard = "here"
             /\ calls[c].kind = k /\ k \in Forms => Deaf(k)[c].heard = "above"
             /\ calls[c].kind \notin {k, "revoke", "cascade"} => Deaf(k)[c] = calls[c]
             /\ k \notin Forms => Deaf(k)[c] = calls[c]
  <2>1. CASE calls[c].kind = k /\ k \in Forms
    <3>1. Deaf(k)[c] = [calls[c] EXCEPT !.heard = "above"]
      BY <2>1 DEF Deaf
    <3>2. calls[c] \in Request
      BY <2>1, CallTypes, Names
    <3> QED
      BY <2>1, <3>1, <3>2, Names DEF Request
  <2>2. CASE ~(calls[c].kind = k /\ k \in Forms) /\ calls[c].kind \in {"revoke", "cascade"} /\ k = "share"
    <3>1. Deaf(k)[c] = [calls[c] EXCEPT !.heard = "nowhere"]
      BY <2>2 DEF Deaf
    <3>2. calls[c] \in Request
      BY <2>2, CallTypes
    <3> QED
      BY <2>2, <3>1, <3>2, Names DEF Request
  <2>3. CASE ~(calls[c].kind = k /\ k \in Forms) /\ ~(calls[c].kind \in {"revoke", "cascade"} /\ k = "share")
    <3>1. Deaf(k)[c] = calls[c]
      BY <2>3 DEF Deaf
    <3> QED
      BY <2>3, <3>1
  <2> QED
    BY <2>1, <2>2, <2>3
<1>2. Deaf(k) = [c \in Call |-> Deaf(k)[c]]
  BY DEF Deaf
<1> QED
  BY <1>1, <1>2

(* Closing a dialog: a form takes its failure, and its hearing, with it; a *)
(* link that was on screen is one that has been dismissed.                 *)
LEMMA CloseKeeps ==
  ASSUME DialogInv, NEW k \in Dialog, NEW byButton \in BOOLEAN, Close(k, byButton)
  PROVE  DialogInv'
<1>1. /\ box' = Boxes(k, byButton)
      /\ calls' = Deaf(k)
      /\ dismissed' = dismissed \cup (IF k = "share" THEN {box[k].share} \ {NoShare} ELSE {})
      /\ UNCHANGED <<live, shares, screen, lists, banner, signing>>
  BY DEF Close
<1>2. BoxesWell /\ CallsWell /\ SharesWell /\ LinesWell
  BY DEF DialogInv
<1>3. box \in [Dialog -> Box] /\ calls \in [Call -> {Idle, Over} \cup Request]
  BY <1>2 DEF BoxesWell, CallsWell
<1>4. /\ box' \in [Dialog -> Box]
      /\ box'[k] = Closed(k, byButton)
      /\ \A j \in Dialog \ {k} : box'[j] = box[j] \/ (k = "share" /\ j = "cascade" /\ box'[j] = Fresh)
  <2>1. CASE k = "share"
    <3>1. box' = [box EXCEPT !["share"] = Closed(k, byButton), !["cascade"] = Fresh]
      BY <1>1, <2>1 DEF Boxes
    <3> QED
      BY <1>3, <2>1, <3>1, ClosedBox, FreshBox, Names
  <2>2. CASE k # "share"
    <3>1. box' = [box EXCEPT ![k] = Closed(k, byButton)]
      BY <1>1, <2>2 DEF Boxes
    <3> QED
      BY <1>3, <2>2, <3>1, ClosedBox
  <2> QED
    BY <2>1, <2>2
<1>5. /\ Closed(k, byButton).row = NoRow /\ (k \in Forms => Closed(k, byButton) = Fresh)
      /\ Closed(k, byButton).pending => box[k].pending
  BY <1>3, ClosedBox
<1>6. BoxesWell'
  <2>1. \A j \in Dialog \ {"cascade"} : box'[j].row \in {box[j].row, NoRow}
    BY <1>4, <1>5
  <2>2. \A j \in Forms : box'[j].failure \in {NoRow, box'[j].row}
    BY <1>2, <1>4, <1>5, FreshBox, Names DEF BoxesWell, FormFailureIsOfItsRow
  <2> QED
    BY <1>2, <1>4, <2>1, <2>2, BoxesKeep
<1>7. CallsWell'
  <2>1. BusyControlsHaveRequests'
    <3>1. ASSUME NEW j \in Forms \cup {"delete"}, box'[j].pending
          PROVE  \E c \in Call : calls'[c].kind = j /\ calls'[c].heard = "here"
      <4>1. j \in Dialog /\ j # "cascade"
        BY Names
      <4>2. box[j].pending /\ ~(j = k /\ k \in Forms)
        BY <1>4, <1>5, <3>1, <4>1, FreshBox
      <4>3. PICK c \in Call : calls[c].kind = j /\ calls[c].heard = "here"
        BY <1>2, <4>2 DEF CallsWell, BusyControlsHaveRequests, Hears
      <4>4. Deaf(k)[c] = calls[c]
        BY <1>3, <4>2, <4>3, DeafCalls, Names
      <4> QED
        BY <1>1, <4>3, <4>4
    <3>2. ASSUME signing' # NoRow
          PROVE  \E c \in Call : calls'[c].kind = "download" /\ calls'[c].row = signing'
      <4>1. PICK c \in Call : calls[c].kind = "download" /\ calls[c].row = signing
        BY <1>1, <1>2, <3>2 DEF CallsWell, BusyControlsHaveRequests
      <4> QED
        BY <1>1, <1>3, <4>1, DeafCalls
    <3> QED
      BY <3>1, <3>2 DEF BusyControlsHaveRequests, Hears
  <2>2. \A c \in Call : calls'[c].kind \in Forms /\ calls'[c].heard = "here" =>
          /\ calls[c].heard = "here" /\ box'[calls[c].kind].row = box[calls[c].kind].row
    <3> SUFFICES ASSUME NEW c \in Call, calls'[c].kind \in Forms, calls'[c].heard = "here"
                 PROVE  /\ calls[c].heard = "here"
                        /\ box'[calls[c].kind].row = box[calls[c].kind].row
      OBVIOUS
    <3>1. calls[c].kind \in Forms /\ calls[c].heard = "here" /\ calls[c].kind # k
      BY <1>1, <1>3, DeafCalls
    <3>2. calls[c].kind \in Dialog \ {k} /\ calls[c].kind # "cascade"
      BY <3>1, Names
    <3> QED
      BY <1>4, <3>1, <3>2
  <2> QED
    BY <1>1, <1>2, <1>3, <2>1, <2>2, CallsKeep, DeafCalls
<1>8. SharesWell'
  <2>1. CASE k = "share"
    <3>1. box'["share"].share = NoShare /\ dismissed' \subseteq Shown
      BY <1>1, <1>4, <1>5, <2>1, FreshBox, Names DEF Shown
    <3> QED
      BY <1>1, <1>2, <1>3, <3>1, SharesKeep DEF SharesWell
  <2>2. CASE k # "share"
    <3>1. box'["share"].share = box["share"].share /\ dismissed' = dismissed
      BY <1>1, <1>4, <2>2, Names
    <3> QED
      BY <1>1, <1>2, <1>3, <3>1, SharesKeep DEF SharesWell
  <2> QED
    BY <2>1, <2>2
<1>9. LinesWell'
  BY <1>1, <1>2 DEF LinesWell
<1> QED
  BY <1>6, <1>7, <1>8, <1>9 DEF DialogInv

(* A new request, of a control that is on screen. *)
LEMMA AskedTypes ==
  ASSUME NEW k \in Dialog \cup {"revoke", "drop", "download"}, NEW t \in Target,
         NEW s \in Share \cup {NoShare}, NEW all \in BOOLEAN
  PROVE  /\ Asked(k, t, s, all) \in Request
         /\ Asked(k, t, s, all).kind = k /\ Asked(k, t, s, all).row = t
         /\ Asked(k, t, s, all).heard = "here"
BY DEF Asked, Request

(* A request is sent from a place that was free: the others are what they  *)
(* were, and no control loses the request it waits for.                    *)
LEMMA SentKeeps ==
  ASSUME CallsWell, box \in [Dialog -> Box],
         NEW c \in Call, NEW a \in Request, calls[c] = Idle,
         calls' = [calls EXCEPT ![c] = a],
         a.kind \in {"drop", "download"} => a.row \in File,
         a.kind \in Forms => box'[a.kind].row = a.row,
         \A k \in Forms : box'[k].row = box[k].row,
         \A k \in Forms \cup {"delete"} : box'[k].pending => box[k].pending \/ (a.kind = k /\ a.heard = "here"),
         signing' \in {NoRow, signing} \/ (a.kind = "download" /\ a.row = signing')
  PROVE  CallsWell'
<1>1. /\ calls \in [Call -> {Idle, Over} \cup Request]
      /\ calls' \in [Call -> {Idle, Over} \cup Request]
      /\ calls'[c] = a /\ \A d \in Call \ {c} : calls'[d] = calls[d]
  BY DEF CallsWell
<1>2. Idle.kind = "idle" /\ "idle" \notin Forms \cup {"delete", "download"}
  BY Names DEF Idle
<1>3. \A d \in Call : calls'[d].kind \in {"drop", "download"} => calls'[d].row \in File
  BY <1>1 DEF CallsWell
<1>4. \A d \in Call : calls'[d].kind \in Forms /\ Hears(d)' => box'[calls'[d].kind].row = calls'[d].row
  <2> TAKE d \in Call
  <2>1. CASE d = c
    BY <1>1, <2>1
  <2>2. CASE d # c
    BY <1>1, <2>2 DEF CallsWell, Hears
  <2> QED
    BY <2>1, <2>2
<1>5. BusyControlsHaveRequests'
  <2>1. ASSUME NEW k \in Forms \cup {"delete"}, box'[k].pending
        PROVE  \E d \in Call : calls'[d].kind = k /\ calls'[d].heard = "here"
    <3>1. CASE a.kind = k /\ a.heard = "here"
      BY <1>1, <3>1
    <3>2. CASE box[k].pending
      <4>1. PICK d \in Call : calls[d].kind = k /\ calls[d].heard = "here"
        BY <3>2 DEF CallsWell, BusyControlsHaveRequests, Hears
      <4>2. d # c
        BY <1>2, <4>1
      <4> QED
        BY <1>1, <4>1, <4>2
    <3> QED
      BY <2>1, <3>1, <3>2
  <2>2. ASSUME signing' # NoRow
        PROVE  \E d \in Call : calls'[d].kind = "download" /\ calls'[d].row = signing'
    <3>1. CASE a.kind = "download" /\ a.row = signing'
      BY <1>1, <3>1
    <3>2. CASE signing' = signing
      <4>1. PICK d \in Call : calls[d].kind = "download" /\ calls[d].row = signing
        BY <2>2, <3>2 DEF CallsWell, BusyControlsHaveRequests
      <4>2. d # c
        BY <1>2, <4>1
      <4> QED
        BY <1>1, <3>2, <4>1, <4>2
    <3> QED
      BY <2>2, <3>1, <3>2
  <2> QED
    BY <2>1, <2>2 DEF BusyControlsHaveRequests, Hears
<1> QED
  BY <1>1, <1>3, <1>4, <1>5 DEF CallsWell

(* A submit: the box that waits is the one the request is about.           *)
LEMMA SubmitKeeps ==
  ASSUME DialogInv, NEW k \in Dialog, NEW c \in Call, NEW all \in BOOLEAN, Submit(k, c, all)
  PROVE  DialogInv'
<1> DEFINE a == Asked(k, box[k].row, IF k = "cascade" THEN box[k].share ELSE NoShare, all)
<1>1. /\ calls[c] = Idle
      /\ box[k].row # NoRow
      /\ calls' = [calls EXCEPT ![c] = a]
      /\ box' = [box EXCEPT ![k].pending = TRUE, ![k].failure = NoRow]
      /\ UNCHANGED <<live, shares, screen, lists, banner, signing, dismissed>>
  BY DEF Submit, Visible
<1>2. BoxesWell /\ CallsWell /\ SharesWell /\ LinesWell /\ box \in [Dialog -> Box]
  BY DEF DialogInv, BoxesWell
<1>3. box[k].row \in Target /\ box[k].share \in Share \cup {NoShare}
  BY <1>1, <1>2 DEF Box
<1>4. a \in Request /\ a.kind = k /\ a.row = box[k].row /\ a.heard = "here"
  <2>1. (IF k = "cascade" THEN box[k].share ELSE NoShare) \in Share \cup {NoShare}
    BY <1>3
  <2> QED
    BY <1>3, <2>1, AskedTypes
<1> HIDE DEF a
<1>5. /\ box'[k].row = box[k].row /\ box'[k].pending = TRUE /\ box'[k].failure = NoRow
      /\ box'[k].share = box[k].share
      /\ \A j \in Dialog \ {k} : box'[j] = box[j]
      /\ box' \in [Dialog -> Box]
  BY <1>1, <1>2 DEF Box
<1>6. BoxesWell'
  <2>1. \A j \in Forms : box'[j].failure \in {NoRow, box'[j].row}
    BY <1>2, <1>5, Names DEF BoxesWell, FormFailureIsOfItsRow
  <2> QED
    BY <1>2, <1>5, <2>1, BoxesKeep
<1>7. CallsWell'
  <2>1. /\ \A j \in Forms : box'[j].row = box[j].row
        /\ \A j \in Forms \cup {"delete"} : box'[j].pending => box[j].pending \/ (a.kind = j /\ a.heard = "here")
        /\ a.kind \notin {"drop", "download"}
    BY <1>4, <1>5, Names
  <2>2. a.kind \in Forms => box'[a.kind].row = a.row
    BY <1>4, <1>5
  <2> QED
    BY <1>1, <1>2, <1>4, <2>1, <2>2, SentKeeps
<1>8. SharesWell'
  <2>1. box'["share"].share = box["share"].share
    BY <1>5, Names
  <2> QED
    BY <1>1, <1>2, <2>1, SharesKeep DEF SharesWell
<1>9. LinesWell'
  BY <1>1, <1>2 DEF LinesWell
<1> QED
  BY <1>6, <1>7, <1>8, <1>9 DEF DialogInv

(* The bin on an entry: the prompt opens, or the revocation is sent; no    *)
(* form is involved.                                                       *)
LEMMA HandleRevokeKeeps ==
  ASSUME DialogInv, NEW t \in Target, NEW e \in Entry, NEW c \in Call, HandleRevoke(t, e, c)
  PROVE  DialogInv'
<1>1. /\ box["share"].row = t /\ t # NoRow
      /\ AskCascade(e) \/ RevokeAtOnce(e, c)
      /\ UNCHANGED <<live, shares, screen, lists, banner, signing, dismissed>>
  BY DEF HandleRevoke, ListOpen
<1>2. BoxesWell /\ CallsWell /\ SharesWell /\ LinesWell /\ box \in [Dialog -> Box]
  BY DEF DialogInv, BoxesWell
<1>3. e.share \in Share
  BY DEF Entry
<1>4. LinesWell'
  BY <1>1, <1>2 DEF LinesWell
<1>5. CASE AskCascade(e)
  <2>1. /\ box' = [box EXCEPT !["cascade"].row = t, !["cascade"].share = e.share]
        /\ calls' = calls
    BY <1>1, <1>5 DEF AskCascade
  <2>2. /\ \A j \in Dialog \ {"cascade"} : box'[j] = box[j]
        /\ box' \in [Dialog -> Box]
    <3>1. \A j \in Dialog \ {"cascade"} : box'[j] = box[j]
      BY <1>2, <2>1
    <3>2. box'["cascade"] = [box["cascade"] EXCEPT !.row = t, !.share = e.share]
      BY <1>2, <2>1, Names
    <3>3. box'["cascade"] \in Box
      BY <1>2, <1>3, <3>2, Names DEF Box
    <3> QED
      BY <1>2, <2>1, <3>1, <3>3
  <2>3. BoxesWell'
    <3>1. \A j \in Forms : box'[j].failure \in {NoRow, box'[j].row}
      BY <1>2, <2>2, Names DEF BoxesWell, FormFailureIsOfItsRow
    <3> QED
      BY <1>2, <2>2, <3>1, BoxesKeep
  <2>4. CallsWell'
    <3>1. \A j \in Forms \cup {"delete"} : box'[j] = box[j]
      BY <2>2, Names
    <3>2. BusyControlsHaveRequests'
      BY <1>1, <1>2, <2>1, <3>1 DEF CallsWell, BusyControlsHaveRequests, Hears
    <3> QED
      BY <1>2, <2>1, <3>1, <3>2, CallsKeep DEF CallsWell
  <2>5. SharesWell'
    <3>1. box'["share"].share = box["share"].share
      BY <2>2, Names
    <3> QED
      BY <1>1, <1>2, <3>1, SharesKeep DEF SharesWell
  <2> QED
    BY <1>4, <2>3, <2>4, <2>5 DEF DialogInv
<1>6. CASE RevokeAtOnce(e, c)
  <2> DEFINE a == Asked("revoke", t, e.share, FALSE)
  <2>1. calls[c] = Idle /\ calls' = [calls EXCEPT ![c] = a] /\ box' = box
    BY <1>1, <1>6 DEF RevokeAtOnce
  <2>2. a \in Request /\ a.kind = "revoke"
    BY <1>3 DEF Asked, Request
  <2> HIDE DEF a
  <2>3. CallsWell'
    BY <1>1, <1>2, <2>1, <2>2, SentKeeps, Names
  <2>4. BoxesWell'
    BY <1>2, <2>1, BoxesKeep DEF BoxesWell, FormFailureIsOfItsRow
  <2>5. SharesWell'
    BY <1>1, <1>2, <2>1, SharesKeep DEF SharesWell
  <2> QED
    BY <1>4, <2>3, <2>4, <2>5 DEF DialogInv
<1> QED
  BY <1>1, <1>5, <1>6

(* A drop and a download: no dialog is involved, the row is a file's.      *)
LEMMA DropKeeps ==
  ASSUME DialogInv, NEW r \in Row, NEW f \in Row, NEW c \in Call, Drop(r, f, c)
  PROVE  DialogInv'
<1> DEFINE a == Asked("drop", r, NoShare, FALSE)
<1>1. /\ calls[c] = Idle /\ r \in File
      /\ calls' = [calls EXCEPT ![c] = a]
      /\ banner' = [drop |-> NoRow, download |-> NoRow]
      /\ UNCHANGED <<live, shares, screen, lists, box, signing, dismissed>>
  BY DEF Drop
<1>2. BoxesWell /\ CallsWell /\ SharesWell /\ LinesWell /\ box \in [Dialog -> Box]
  BY DEF DialogInv, BoxesWell
<1>3. a \in Request /\ a.kind = "drop" /\ a.row = r
  BY Rows DEF Asked, Request
<1> HIDE DEF a
<1>4. CallsWell'
  BY <1>1, <1>2, <1>3, SentKeeps, Names
<1>5. BoxesWell' /\ SharesWell'
  BY <1>1, <1>2, BoxesKeep, SharesKeep DEF BoxesWell, FormFailureIsOfItsRow, SharesWell
<1>6. LinesWell'
  BY <1>1, <1>2 DEF LinesWell
<1> QED
  BY <1>4, <1>5, <1>6 DEF DialogInv

(* A download: the row whose control is taken is the request's.            *)
LEMMA DownloadKeeps ==
  ASSUME DialogInv, NEW r \in Row, NEW c \in Call, Download(r, c)
  PROVE  DialogInv'
<1> DEFINE a == Asked("download", r, NoShare, FALSE)
<1>1. /\ calls[c] = Idle /\ r \in File
      /\ calls' = [calls EXCEPT ![c] = a]
      /\ banner' = [drop |-> NoRow, download |-> NoRow]
      /\ signing' = r
      /\ UNCHANGED <<live, shares, screen, lists, box, dismissed>>
  BY DEF Download
<1>2. BoxesWell /\ CallsWell /\ SharesWell /\ LinesWell /\ box \in [Dialog -> Box]
  BY DEF DialogInv, BoxesWell
<1>3. a \in Request /\ a.kind = "download" /\ a.row = r
  BY Rows DEF Asked, Request
<1> HIDE DEF a
<1>4. CallsWell'
  BY <1>1, <1>2, <1>3, SentKeeps, Names
<1>5. BoxesWell' /\ SharesWell'
  BY <1>1, <1>2, BoxesKeep, SharesKeep DEF BoxesWell, FormFailureIsOfItsRow, SharesWell
<1>6. LinesWell'
  BY <1>1, <1>2 DEF LinesWell
<1> QED
  BY <1>4, <1>5, <1>6 DEF DialogInv

-----------------------------------------------------------------------------
(* The server, other tabs, and refreshing *)

(* Ending shares leaves the others as they are, and unwrites none.         *)
LEMMA EndedShares ==
  ASSUME shares \in [Share -> ShareRow], NEW S
  PROVE  /\ Ended(S) \in [Share -> ShareRow]
         /\ \A s \in Share : Ended(S)[s].row = shares[s].row
<1>1. \A s \in Share : /\ [shares[s] EXCEPT !.live = FALSE] \in ShareRow
                       /\ [shares[s] EXCEPT !.live = FALSE].row = shares[s].row
  BY DEF ShareRow
<1> QED
  BY <1>1 DEF Ended

(* A list of shares has entries. *)
LEMMA ListedEntries ==
  ASSUME NEW t
  PROVE  Listed(t) \in SUBSET Entry
<1>1. \A s : HasNested(s) \in BOOLEAN
  BY DEF HasNested
<1> QED
  BY <1>1 DEF Listed, Entry

(* What other tabs do reaches the screen only through a refresh.           *)
LEMMA ElsewhereKeeps ==
  ASSUME DialogInv, Elsewhere
  PROVE  DialogInv'
<1>1. BoxesWell /\ CallsWell /\ SharesWell /\ LinesWell /\ box \in [Dialog -> Box]
  BY DEF DialogInv, BoxesWell
<1>2. UNCHANGED <<screen, lists, box, calls, banner, signing, dismissed>>
  BY DEF Elsewhere
<1>3. /\ live' \subseteq Row /\ shares' \in [Share -> ShareRow]
      /\ \A s \in Share : shares'[s].row = shares[s].row
  <2>1. CASE \E r \in live : live' = live \ {r} /\ UNCHANGED shares
    BY <1>1, <2>1 DEF SharesWell
  <2>2. CASE \E s \in Share : shares[s].live /\ shares' = Ended({s}) /\ UNCHANGED live
    BY <1>1, <2>2, EndedShares DEF SharesWell
  <2> QED
    BY <2>1, <2>2 DEF Elsewhere
<1>4. SharesWell'
  BY <1>1, <1>2, <1>3, SharesKeep DEF SharesWell
<1>5. BoxesWell'
  BY <1>1, <1>2, BoxesKeep DEF BoxesWell, FormFailureIsOfItsRow
<1>6. CallsWell' /\ LinesWell'
  <2>1. BusyControlsHaveRequests'
    BY <1>1, <1>2 DEF CallsWell, BusyControlsHaveRequests, Hears
  <2> QED
    BY <1>1, <1>2, <2>1, CallsKeep DEF CallsWell, LinesWell
<1> QED
  BY <1>4, <1>5, <1>6 DEF DialogInv

(* A list without entries ends the prompt's request, not its dialog.       *)
LEMMA PromptBox ==
  ASSUME NEW b \in [Dialog -> Box], NEW list
  PROVE  /\ Prompt(list, b) \in [Dialog -> Box]
         /\ \A k \in Dialog \ {"cascade"} : Prompt(list, b)[k] = b[k]
<1>1. CASE list = {}
  <2>1. Prompt(list, b) = [b EXCEPT !["cascade"].pending = FALSE, !["cascade"].failure = NoRow]
    BY <1>1 DEF Prompt
  <2>2. [b["cascade"] EXCEPT !.pending = FALSE, !.failure = NoRow] \in Box
    BY Names DEF Box
  <2>3. Prompt(list, b) = [b EXCEPT !["cascade"] = [b["cascade"] EXCEPT !.pending = FALSE, !.failure = NoRow]]
    BY <2>1, Names
  <2> QED
    BY <2>2, <2>3, Names
<1>2. CASE list # {}
  BY <1>2 DEF Prompt
<1> QED
  BY <1>1, <1>2

(* An empty list: the requests keep what they are for, and none is heard   *)
(* that was not.                                                           *)
LEMMA UnlistedCalls ==
  ASSUME calls \in [Call -> {Idle, Over} \cup Request], NEW list
  PROVE  /\ Unlisted(list) \in [Call -> {Idle, Over} \cup Request]
         /\ \A c \in Call : /\ Unlisted(list)[c].kind = calls[c].kind
                            /\ Unlisted(list)[c].row = calls[c].row
                            /\ Unlisted(list)[c].heard = "here" => calls[c].heard = "here"
                            /\ calls[c].kind \notin {"revoke", "cascade"} => Unlisted(list)[c] = calls[c]
<1>1. ASSUME NEW c \in Call
      PROVE  /\ Unlisted(list)[c] \in {Idle, Over} \cup Request
             /\ Unlisted(list)[c].kind = calls[c].kind
             /\ Unlisted(list)[c].row = calls[c].row
             /\ Unlisted(list)[c].heard = "here" => calls[c].heard = "here"
             /\ calls[c].kind \notin {"revoke", "cascade"} => Unlisted(list)[c] = calls[c]
  <2>1. CASE list = {} /\ calls[c].kind \in {"revoke", "cascade"} /\ calls[c].heard = "here"
    <3>1. Unlisted(list)[c] = [calls[c] EXCEPT !.heard = "above"]
      BY <2>1 DEF Unlisted
    <3>2. calls[c] \in Request
      BY <2>1, CallTypes, Names
    <3> QED
      BY <2>1, <3>1, <3>2 DEF Request
  <2>2. CASE ~(list = {} /\ calls[c].kind \in {"revoke", "cascade"} /\ calls[c].heard = "here")
    <3>1. Unlisted(list)[c] = calls[c]
      BY <2>2 DEF Unlisted
    <3> QED
      BY <3>1
  <2> QED
    BY <2>1, <2>2
<1>2. Unlisted(list) = [c \in Call |-> Unlisted(list)[c]]
  BY DEF Unlisted
<1> QED
  BY <1>1, <1>2

(* A refresh: the table or a list is what the server says; no form is      *)
(* mounted or unmounted by it.                                             *)
LEMMA RefreshKeeps ==
  ASSUME DialogInv, Refresh
  PROVE  DialogInv'
<1>1. BoxesWell /\ CallsWell /\ SharesWell /\ LinesWell /\ box \in [Dialog -> Box]
      /\ calls \in [Call -> {Idle, Over} \cup Request]
  BY DEF DialogInv, BoxesWell, CallsWell
<1>2. UNCHANGED <<live, shares, banner, signing, dismissed>>
  BY DEF Refresh
<1>3. LinesWell'
  BY <1>1, <1>2 DEF LinesWell
<1>4. CASE screen' = live /\ UNCHANGED <<lists, box, calls>>
  <2>1. SharesWell'
    BY <1>1, <1>2, <1>4, SharesKeep DEF SharesWell
  <2>2. BoxesWell'
    BY <1>1, <1>4, BoxesKeep DEF BoxesWell, FormFailureIsOfItsRow
  <2>3. CallsWell'
    <3>1. BusyControlsHaveRequests'
      BY <1>1, <1>2, <1>4 DEF CallsWell, BusyControlsHaveRequests, Hears
    <3> QED
      BY <1>1, <1>4, <3>1, CallsKeep DEF CallsWell
  <2> QED
    BY <1>3, <2>1, <2>2, <2>3 DEF DialogInv
<1>5. ASSUME NEW t \in Target, NEW list \in {Listed(t), {}},
             lists' = [lists EXCEPT ![t] = list],
             box' = Prompt(list, box), calls' = Unlisted(list), UNCHANGED screen
      PROVE  DialogInv'
  <2>1. /\ box' \in [Dialog -> Box] /\ \A k \in Dialog \ {"cascade"} : box'[k] = box[k]
        /\ \A k \in Forms \cup {"delete"} : box'[k] = box[k]
    BY <1>1, <1>5, PromptBox, Names
  <2>2. list \in SUBSET Entry
    BY ListedEntries
  <2>3. SharesWell'
    <3>1. lists' \in [Target -> SUBSET Entry]
      BY <1>1, <1>5, <2>2 DEF SharesWell
    <3>2. box'["share"].share = box["share"].share
      BY <2>1, Names
    <3> QED
      BY <1>1, <1>2, <1>5, <3>1, <3>2, SharesKeep DEF SharesWell
  <2>4. BoxesWell'
    BY <1>1, <2>1, BoxesKeep DEF BoxesWell, FormFailureIsOfItsRow
  <2>5. CallsWell'
    <3>1. \A c \in Call : calls[c].kind \notin {"revoke", "cascade"} => calls'[c] = calls[c]
      BY <1>1, <1>5, UnlistedCalls
    <3>2. BusyControlsHaveRequests'
      BY <1>1, <1>2, <2>1, <3>1, Names DEF CallsWell, BusyControlsHaveRequests, Hears
    <3> QED
      BY <1>1, <1>5, <2>1, <3>2, CallsKeep, UnlistedCalls
  <2> QED
    BY <1>3, <2>3, <2>4, <2>5 DEF DialogInv
<1> QED
  BY <1>4, <1>5 DEF Refresh, Refetch

(* The browser is mounted anew: nothing is open, nothing is heard.         *)
LEMMA RemountKeeps ==
  ASSUME DialogInv, Remount
  PROVE  DialogInv'
<1>1. BoxesWell /\ CallsWell /\ SharesWell /\ LinesWell /\ box \in [Dialog -> Box]
  BY DEF DialogInv, BoxesWell
<1>2. /\ screen' = live
      /\ box' = [k \in Dialog |-> Fresh]
      /\ calls' = [c \in Call |-> IF calls[c] = Idle THEN Idle ELSE Over]
      /\ banner' = [drop |-> NoRow, download |-> NoRow] /\ signing' = NoRow
      /\ dismissed' = dismissed \cup ({box["share"].share} \ {NoShare})
      /\ UNCHANGED <<live, shares, lists>>
  BY DEF Remount
<1>3. /\ box' \in [Dialog -> Box]
      /\ \A k \in Dialog : box'[k].row = NoRow /\ box'[k].failure = NoRow /\ box'[k].pending = FALSE
                           /\ box'[k].share = NoShare
  BY <1>2, FreshBox
<1>4. BoxesWell'
  BY <1>1, <1>3, BoxesKeep, Names
<1>5. CallsWell'
  <2>1. BusyControlsHaveRequests'
    BY <1>2, <1>3, Names DEF BusyControlsHaveRequests
  <2>2. \A c \in Call : calls'[c] = Over \/ (calls'[c] = calls[c] /\ calls'[c] = Idle)
    BY <1>2
  <2>3. Idle.kind = "idle" /\ "idle" \notin Forms
    BY Names DEF Idle
  <2>4. calls' \in [Call -> {Idle, Over} \cup Request]
    BY <1>2
  <2> QED
    BY <1>1, <2>1, <2>2, <2>3, <2>4, CallsKeep
<1>6. SharesWell'
  <2>1. dismissed' \subseteq Shown /\ box'["share"].share = NoShare
    BY <1>2, <1>3, Names DEF Shown
  <2> QED
    BY <1>1, <1>2, <2>1, SharesKeep DEF SharesWell
<1>7. LinesWell'
  BY <1>2 DEF LinesWell
<1> QED
  BY <1>4, <1>5, <1>6, <1>7 DEF DialogInv

-----------------------------------------------------------------------------
(* The answers *)

(* What the server does for a request: it unwrites no share, and a share   *)
(* that it creates had not been written.                                   *)
ServerDid(c, outcome, s) ==
  /\ live' \subseteq Row /\ shares' \in [Share -> ShareRow]
  /\ \A z \in Share : shares[z].row # NoRow => shares'[z].row # NoRow
  /\ calls[c].kind = "share" /\ outcome # "refused" =>
       s \in Share /\ shares[s].row = NoRow /\ shares'[s].row # NoRow

(* What a request changes at the server, by its kind.                      *)
LEMMA EffectKeeps ==
  ASSUME SharesWell, NEW c \in Call, calls[c] \in Request, NEW outcome, NEW s \in Share \cup {NoShare},
         IF outcome = "refused" THEN s = NoShare /\ UNCHANGED <<live, shares>> ELSE Effect(c, s)
  PROVE  ServerDid(c, outcome, s)
<1> DEFINE q == calls[c]
<1>1. live \subseteq Row /\ shares \in [Share -> ShareRow]
  BY DEF SharesWell
<1>2. CASE outcome = "refused"
  BY <1>1, <1>2 DEF ServerDid
<1>3. CASE outcome # "refused"
  <2>1. Effect(c, s)
    BY <1>3
  <2>2. CASE q.kind = "create" /\ (\E n \in Row \ (live \cup screen) : live' = live \cup {n})
             /\ UNCHANGED shares
    BY <1>1, <2>2 DEF ServerDid
  <2>3. CASE q.kind \in {"rename", "download"} /\ UNCHANGED <<live, shares>>
    BY <1>1, <2>3 DEF ServerDid
  <2>4. CASE q.kind \in {"move", "delete", "drop"} /\ live' = live \ {q.row} /\ UNCHANGED shares
    BY <1>1, <2>4 DEF ServerDid
  <2>5. CASE /\ q.kind = "share" /\ s \in Share /\ shares[s] = NeverWritten
             /\ \E mode \in {"LINK", "USER"} :
                  shares' = [shares EXCEPT ![s] = [row |-> q.row, mode |-> mode, live |-> TRUE]]
             /\ UNCHANGED live
    <3>1. q.row \in Target /\ q.row # NoRow
      BY Rows DEF Request
    <3>2. PICK mode \in {"LINK", "USER"} :
            shares' = [shares EXCEPT ![s] = [row |-> q.row, mode |-> mode, live |-> TRUE]]
      BY <2>5
    <3>3. [row |-> q.row, mode |-> mode, live |-> TRUE] \in ShareRow
      BY <3>1 DEF ShareRow
    <3>4. /\ shares' \in [Share -> ShareRow] /\ shares'[s].row = q.row
          /\ \A z \in Share \ {s} : shares'[z] = shares[z]
      BY <1>1, <2>5, <3>2, <3>3
    <3>5. shares[s].row = NoRow
      BY <2>5 DEF NeverWritten
    <3> QED
      BY <1>1, <2>5, <3>1, <3>4, <3>5 DEF ServerDid
  <2>6. CASE q.kind \in {"revoke", "cascade"} /\ (\E S : shares' = Ended(S)) /\ UNCHANGED live
    BY <1>1, <2>6, EndedShares DEF ServerDid
  <2> QED
    BY <2>1, <2>2, <2>3, <2>4, <2>5, <2>6 DEF Effect
<1> QED
  BY <1>2, <1>3

(* A failure is written into one box, whose request is over. *)
LEMMA FailedBox ==
  ASSUME box \in [Dialog -> Box], NEW k \in Dialog, NEW c \in Call, calls[c] \in Request
  PROVE  /\ Failed(k, c) \in [Dialog -> Box]
         /\ Failed(k, c)[k].row = box[k].row /\ Failed(k, c)[k].share = box[k].share
         /\ Failed(k, c)[k].pending = FALSE /\ Failed(k, c)[k].failure = calls[c].row
         /\ \A j \in Dialog \ {k} : Failed(k, c)[j] = box[j]
<1>1. calls[c].row \in Target
  BY DEF Request
<1>2. Failed(k, c) = [box EXCEPT ![k] = [box[k] EXCEPT !.pending = FALSE, !.failure = calls[c].row]]
  BY DEF Failed
<1>3. ASSUME NEW b \in Box
      PROVE  LET n == [b EXCEPT !.pending = FALSE, !.failure = calls[c].row]
             IN  /\ n \in Box /\ n.row = b.row /\ n.share = b.share
                 /\ n.pending = FALSE /\ n.failure = calls[c].row
  BY <1>1 DEF Box
<1> DEFINE n == [box[k] EXCEPT !.pending = FALSE, !.failure = calls[c].row]
<1>4. box[k] \in Box
  OBVIOUS
<1>5. /\ n \in Box /\ n.row = box[k].row /\ n.share = box[k].share
      /\ n.pending = FALSE /\ n.failure = calls[c].row
  BY <1>3, <1>4
<1>6. Failed(k, c) = [box EXCEPT ![k] = n]
  BY <1>2
<1> HIDE DEF n
<1> QED
  BY <1>5, <1>6

(* An answer leaves every control that is still busy with a request that   *)
(* is still heard: the one that is over was not it.                        *)
LEMMA BusyKeeps ==
  ASSUME CallsWell, NEW c \in Call,
         \A d \in Call \ {c} : calls'[d].kind = calls[d].kind /\ calls'[d].row = calls[d].row,
         \A k \in Forms \cup {"delete"} : box'[k].pending =>
           /\ box[k].pending
           /\ \A d \in Call : calls[d].kind = k /\ calls[d].heard = "here" =>
                d # c /\ calls'[d].heard = "here",
         signing' # NoRow => /\ signing' = signing
                             /\ ~(calls[c].kind = "download" /\ calls[c].row = signing)
  PROVE  BusyControlsHaveRequests'
<1>1. ASSUME NEW k \in Forms \cup {"delete"}, box'[k].pending
      PROVE  \E d \in Call : calls'[d].kind = k /\ calls'[d].heard = "here"
  <2>1. PICK d \in Call : calls[d].kind = k /\ calls[d].heard = "here"
    BY <1>1 DEF CallsWell, BusyControlsHaveRequests, Hears
  <2>2. d # c /\ calls'[d].heard = "here"
    BY <1>1, <2>1
  <2> QED
    BY <2>1, <2>2
<1>2. ASSUME signing' # NoRow
      PROVE  \E d \in Call : calls'[d].kind = "download" /\ calls'[d].row = signing'
  <2>1. PICK d \in Call : calls[d].kind = "download" /\ calls[d].row = signing
    BY <1>2 DEF CallsWell, BusyControlsHaveRequests
  <2> QED
    BY <1>2, <2>1
<1> QED
  BY <1>1, <1>2 DEF BusyControlsHaveRequests, Hears

(* Writing that a request is over changes no other. *)
LEMMA OverCalls ==
  ASSUME NEW f \in [Call -> {Idle, Over} \cup Request], NEW c \in Call
  PROVE  /\ [f EXCEPT ![c] = Over] \in [Call -> {Idle, Over} \cup Request]
         /\ [f EXCEPT ![c] = Over][c] = Over
         /\ \A d \in Call \ {c} : [f EXCEPT ![c] = Over][d] = f[d]
  OBVIOUS

(* A form's answer: a success unmounts whatever form of its kind is open,  *)
(* which then hears nothing; a failure is heard only by the form that sent *)
(* the request, open on the same row.                                      *)
LEMMA FormAnswerKeeps ==
  ASSUME DialogInv, NEW c \in Call, calls[c] \in Request, NEW outcome, NEW s,
         ServerDid(c, outcome, s), FormAnswer(c, outcome), dismissed' = dismissed
  PROVE  DialogInv'
<1> DEFINE k == calls[c].kind
<1>1. BoxesWell /\ CallsWell /\ SharesWell /\ LinesWell /\ box \in [Dialog -> Box]
      /\ calls \in [Call -> {Idle, Over} \cup Request]
  BY DEF DialogInv, BoxesWell, CallsWell
<1>2. /\ k \in {"create", "rename", "move"} /\ k \in Dialog /\ k \in Forms
      /\ UNCHANGED <<lists, banner, signing>>
  BY Names DEF FormAnswer
<1>3. k # "share" /\ k # "cascade" /\ k # "download"
  BY <1>2
<1>4. live' \subseteq Row /\ shares' \in [Share -> ShareRow]
      /\ \A z \in Share : shares[z].row # NoRow => shares'[z].row # NoRow
  BY DEF ServerDid
<1>5. LinesWell'
  BY <1>1, <1>2 DEF LinesWell
<1>6. screen' \subseteq Row
  BY <1>1, <1>4 DEF FormAnswer, SharesWell
<1>7. CASE Succeeded(outcome)
  <2>1. box' = [box EXCEPT ![k] = Fresh] /\ calls' = [Deaf(k) EXCEPT ![c] = Over]
    BY <1>7 DEF FormAnswer
  <2>2. /\ box' \in [Dialog -> Box] /\ box'[k] = Fresh
        /\ \A j \in Dialog \ {k} : box'[j] = box[j]
    BY <1>1, <1>2, <2>1, FreshBox
  <2>3. Deaf(k) \in [Call -> {Idle, Over} \cup Request]
    BY <1>1, <1>2, DeafCalls
  <2>4. /\ calls' \in [Call -> {Idle, Over} \cup Request] /\ calls'[c] = Over
        /\ \A d \in Call \ {c} : calls'[d] = Deaf(k)[d]
    BY <2>1, <2>3, OverCalls
  <2>5. \A d \in Call \ {c} : /\ calls'[d].kind = calls[d].kind /\ calls'[d].row = calls[d].row
                              /\ calls'[d].heard = "here" => calls[d].heard = "here" /\ calls[d].kind # k
                              /\ calls[d].kind \notin {k, "revoke", "cascade"} => calls'[d] = calls[d]
    BY <1>1, <1>2, <2>4, DeafCalls
  <2>6. BoxesWell'
    <3>1. \A j \in Dialog \ {"cascade"} : box'[j].row \in {box[j].row, NoRow}
      BY <2>2, FreshBox
    <3>2. \A j \in Forms : box'[j].failure \in {NoRow, box'[j].row}
      BY <1>1, <2>2, FreshBox, Names DEF BoxesWell, FormFailureIsOfItsRow
    <3> QED
      BY <1>1, <2>2, <3>1, <3>2, BoxesKeep
  <2>7. CallsWell'
    <3>1. BusyControlsHaveRequests'
      <4>1. ASSUME NEW j \in Forms \cup {"delete"}, box'[j].pending
            PROVE  /\ box[j].pending
                   /\ \A d \in Call : calls[d].kind = j /\ calls[d].heard = "here" =>
                        d # c /\ calls'[d].heard = "here"
        <5>1. j # k /\ j \in Dialog /\ j \notin {"revoke", "cascade"}
          BY <2>2, <4>1, FreshBox, Names
        <5>2. box[j].pending
          BY <2>2, <4>1, <5>1
        <5> QED
          BY <2>5, <5>1, <5>2
      <4> QED
        BY <1>1, <1>2, <1>3, <2>5, <4>1, BusyKeeps
    <3>2. \A d \in Call \ {c} : calls'[d].kind \in Forms /\ calls'[d].heard = "here" =>
            calls[d].heard = "here" /\ box'[calls[d].kind].row = box[calls[d].kind].row
      BY <2>2, <2>5, Names
    <3> QED
      BY <1>1, <2>4, <2>5, <3>1, <3>2, CallsKeep
  <2>8. SharesWell'
    <3>1. box'["share"].share = box["share"].share
      BY <1>3, <2>2, Names
    <3>2. lists' \in [Target -> SUBSET Entry]
      BY <1>1, <1>2 DEF SharesWell
    <3> QED
      BY <1>1, <1>4, <1>6, <3>1, <3>2, SharesKeep
  <2> QED
    BY <1>5, <2>6, <2>7, <2>8 DEF DialogInv
<1>8. CASE ~Succeeded(outcome)
  <2>1. /\ box' = IF Hears(c) THEN Failed(k, c) ELSE box
        /\ calls' = [calls EXCEPT ![c] = Over]
    BY <1>8 DEF FormAnswer
  <2>2. /\ box' \in [Dialog -> Box]
        /\ \A j \in Dialog \ {k} : box'[j] = box[j]
        /\ box'[k].row = box[k].row /\ box'[k].share = box[k].share
        /\ ~Hears(c) => box' = box
        /\ Hears(c) => box'[k].pending = FALSE /\ box'[k].failure = calls[c].row
    BY <1>1, <1>2, <2>1, FailedBox
  <2>3. Hears(c) => calls[c].row = box[k].row
    BY <1>1, <1>2 DEF CallsWell
  <2>4. /\ calls' \in [Call -> {Idle, Over} \cup Request] /\ calls'[c] = Over
        /\ \A d \in Call \ {c} : calls'[d] = calls[d]
    BY <1>1, <2>1, OverCalls
  <2>5. BoxesWell'
    <3>1. \A j \in Dialog \ {"cascade"} : box'[j].row \in {box[j].row, NoRow}
      BY <2>2
    <3>2. ASSUME NEW j \in Forms PROVE box'[j].failure \in {NoRow, box'[j].row}
      <4>1. box[j].failure \in {NoRow, box[j].row} /\ j \in Dialog
        BY <1>1, Names DEF BoxesWell, FormFailureIsOfItsRow
      <4> QED
        BY <2>2, <2>3, <4>1
    <3> QED
      BY <1>1, <2>2, <3>1, <3>2, BoxesKeep
  <2>6. CallsWell'
    <3>1. BusyControlsHaveRequests'
      <4>1. ASSUME NEW j \in Forms \cup {"delete"}, box'[j].pending
            PROVE  /\ box[j].pending
                   /\ \A d \in Call : calls[d].kind = j /\ calls[d].heard = "here" =>
                        d # c /\ calls'[d].heard = "here"
        <5>1. box[j].pending /\ (j = k => ~Hears(c))
          BY <1>2, <2>2, <4>1, Names
        <5>2. \A d \in Call : calls[d].kind = j /\ calls[d].heard = "here" => d # c
          BY <5>1 DEF Hears
        <5> QED
          BY <2>4, <5>1, <5>2
      <4> QED
        BY <1>1, <1>2, <1>3, <2>4, <4>1, BusyKeeps
    <3>2. \A j \in Forms : box'[j].row = box[j].row
      BY <2>2, Names
    <3> QED
      BY <1>1, <2>4, <3>1, <3>2, CallsKeep
  <2>7. SharesWell'
    <3>1. box'["share"].share = box["share"].share
      BY <1>3, <2>2, Names
    <3>2. lists' \in [Target -> SUBSET Entry]
      BY <1>1, <1>2 DEF SharesWell
    <3> QED
      BY <1>1, <1>4, <1>6, <3>1, <3>2, SharesKeep
  <2> QED
    BY <1>5, <2>5, <2>6, <2>7 DEF DialogInv
<1> QED
  BY <1>7, <1>8

(* Delete's answer: the dialog stays mounted and hears it, open or not.    *)
LEMMA DeleteAnswerKeeps ==
  ASSUME DialogInv, NEW c \in Call, calls[c] \in Request, NEW outcome, NEW s,
         ServerDid(c, outcome, s), DeleteAnswer(c, outcome), dismissed' = dismissed
  PROVE  DialogInv'
<1>1. BoxesWell /\ CallsWell /\ SharesWell /\ LinesWell /\ box \in [Dialog -> Box]
      /\ calls \in [Call -> {Idle, Over} \cup Request]
  BY DEF DialogInv, BoxesWell, CallsWell
<1>2. /\ calls[c].kind = "delete" /\ calls' = [calls EXCEPT ![c] = Over]
      /\ UNCHANGED <<lists, banner, signing>>
  BY DEF DeleteAnswer
<1>3. live' \subseteq Row /\ shares' \in [Share -> ShareRow]
      /\ \A z \in Share : shares[z].row # NoRow => shares'[z].row # NoRow
  BY DEF ServerDid
<1>4. screen' \subseteq Row
  BY <1>1, <1>3 DEF DeleteAnswer, SharesWell
<1>5. /\ box' \in [Dialog -> Box]
      /\ box'["delete"].row \in {box["delete"].row, NoRow} /\ box'["delete"].pending = FALSE
      /\ \A j \in Dialog \ {"delete"} : box'[j] = box[j]
  <2>1. CASE box' = Failed("delete", c)
    BY ZenonT(60), <1>1, <2>1, FailedBox, Names
  <2>2. CASE box' = [box EXCEPT !.delete.row = NoRow, !.delete.pending = FALSE]
    <3>1. box' = [box EXCEPT !["delete"] = [box["delete"] EXCEPT !.row = NoRow, !.pending = FALSE]]
      BY <1>1, <2>2, Names
    <3>2. ASSUME NEW b \in Box
          PROVE  LET n == [b EXCEPT !.row = NoRow, !.pending = FALSE]
                 IN  n \in Box /\ n.row = NoRow /\ n.pending = FALSE
      BY DEF Box
    <3>3. box["delete"] \in Box /\ "delete" \in Dialog
      BY <1>1, Names
    <3> QED
      BY <1>1, <3>1, <3>2, <3>3
  <2> QED
    BY <2>1, <2>2 DEF DeleteAnswer
<1>6. \A j \in Forms : box'[j] = box[j]
  BY <1>5, Names
<1>7. /\ calls' \in [Call -> {Idle, Over} \cup Request] /\ calls'[c] = Over
      /\ \A d \in Call \ {c} : calls'[d] = calls[d]
  BY <1>1, <1>2, OverCalls
<1>8. BoxesWell'
  <2>1. \A j \in Dialog \ {"cascade"} : box'[j].row \in {box[j].row, NoRow}
    BY <1>5
  <2>2. \A j \in Forms : box'[j].failure \in {NoRow, box'[j].row}
    BY <1>1, <1>6 DEF BoxesWell, FormFailureIsOfItsRow
  <2> QED
    BY <1>1, <1>5, <2>1, <2>2, BoxesKeep
<1>9. CallsWell'
  <2>1. BusyControlsHaveRequests'
    <3>1. "delete" \notin Forms
      BY Names
    <3>2. \A j \in Forms \cup {"delete"} : box'[j].pending =>
            /\ box[j].pending
            /\ \A d \in Call : calls[d].kind = j /\ calls[d].heard = "here" =>
                 d # c /\ calls'[d].heard = "here"
      BY <1>2, <1>5, <1>6, <1>7, <3>1
    <3> QED
      BY <1>1, <1>2, <1>7, <3>2, BusyKeeps
  <2> QED
    BY <1>1, <1>6, <1>7, <2>1, CallsKeep
<1>10. SharesWell'
  <2>1. box'["share"].share = box["share"].share
    BY <1>6, Names
  <2>2. lists' \in [Target -> SUBSET Entry]
    BY <1>1, <1>2 DEF SharesWell
  <2> QED
    BY <1>1, <1>3, <1>4, <2>1, <2>2, SharesKeep
<1>11. LinesWell'
  BY <1>1, <1>2 DEF LinesWell
<1> QED
  BY <1>8, <1>9, <1>10, <1>11 DEF DialogInv

(* The share dialog's answer: what was created is shown by the dialog,     *)
(* whatever row it is on by now; it had not been written before, so it has *)
(* not been dismissed.                                                     *)
LEMMA ShareAnswerKeeps ==
  ASSUME DialogInv, NEW c \in Call, calls[c] \in Request, NEW outcome, NEW s \in Share \cup {NoShare},
         Succeeded(outcome) => outcome # "refused",
         ServerDid(c, outcome, s), ShareAnswer(c, outcome, s), dismissed' = dismissed
  PROVE  DialogInv'
<1>1. BoxesWell /\ CallsWell /\ SharesWell /\ LinesWell /\ box \in [Dialog -> Box]
      /\ calls \in [Call -> {Idle, Over} \cup Request]
  BY DEF DialogInv, BoxesWell, CallsWell
<1>2. /\ calls[c].kind = "share" /\ "share" \in Dialog /\ "share" \in Forms
      /\ UNCHANGED <<screen, lists, banner, signing>>
  BY Names DEF ShareAnswer
<1>3. live' \subseteq Row /\ shares' \in [Share -> ShareRow]
      /\ \A z \in Share : shares[z].row # NoRow => shares'[z].row # NoRow
  BY DEF ServerDid
<1>4. LinesWell'
  BY <1>1, <1>2 DEF LinesWell
<1>5. CASE Succeeded(outcome)
  <2> DEFINE n == [Fresh EXCEPT !.row = box["share"].row, !.share = s]
  <2>1. /\ box' = [box EXCEPT !["share"] = n, !["cascade"] = Fresh]
        /\ calls' = [Deaf("share") EXCEPT ![c] = Over]
    BY <1>5 DEF ShareAnswer, Succeeded
  <2>2. /\ n \in Box /\ n.row = box["share"].row /\ n.share = s
        /\ n.pending = FALSE /\ n.failure = NoRow
    <3>1. box["share"].row \in Target \cup {NoRow}
      BY <1>1, <1>2 DEF Box
    <3> QED
      BY <3>1 DEF Fresh, Box
  <2> HIDE DEF n
  <2>3. /\ box' \in [Dialog -> Box] /\ box'["share"] = n
        /\ \A j \in Dialog \ {"share", "cascade"} : box'[j] = box[j]
    BY <1>1, <2>1, <2>2, FreshBox, Names
  <2>4. Deaf("share") \in [Call -> {Idle, Over} \cup Request]
    BY <1>1, <1>2, DeafCalls
  <2>5. /\ calls' \in [Call -> {Idle, Over} \cup Request] /\ calls'[c] = Over
        /\ \A d \in Call \ {c} : calls'[d] = Deaf("share")[d]
    BY <2>1, <2>4, OverCalls
  <2>6. \A d \in Call \ {c} :
          /\ calls'[d].kind = calls[d].kind /\ calls'[d].row = calls[d].row
          /\ calls'[d].heard = "here" => calls[d].heard = "here" /\ calls[d].kind # "share"
          /\ calls[d].kind \notin {"share", "revoke", "cascade"} => calls'[d] = calls[d]
    BY <1>1, <1>2, <2>5, DeafCalls
  <2>7. BoxesWell'
    <3>1. \A j \in Dialog \ {"cascade"} : box'[j].row \in {box[j].row, NoRow}
      BY <2>2, <2>3
    <3>2. \A j \in Forms : box'[j].failure \in {NoRow, box'[j].row}
      BY <1>1, <2>2, <2>3, Names DEF BoxesWell, FormFailureIsOfItsRow
    <3> QED
      BY <1>1, <2>3, <3>1, <3>2, BoxesKeep
  <2>8. CallsWell'
    <3>1. BusyControlsHaveRequests'
      <4>1. ASSUME NEW j \in Forms \cup {"delete"}, box'[j].pending
            PROVE  /\ box[j].pending
                   /\ \A d \in Call : calls[d].kind = j /\ calls[d].heard = "here" =>
                        d # c /\ calls'[d].heard = "here"
        <5>1. j # "share" /\ j \in Dialog /\ j \notin {"revoke", "cascade"}
          BY <2>2, <2>3, <4>1, Names
        <5>2. box[j].pending
          BY <2>3, <4>1, <5>1
        <5> QED
          BY <1>2, <2>6, <5>1, <5>2
      <4> QED
        BY <1>1, <1>2, <2>6, <4>1, BusyKeeps
    <3>2. \A d \in Call \ {c} : calls'[d].kind \in Forms /\ calls'[d].heard = "here" =>
            calls[d].heard = "here" /\ box'[calls[d].kind].row = box[calls[d].kind].row
      BY <2>3, <2>6, Names
    <3> QED
      BY <1>1, <2>5, <2>6, <3>1, <3>2, CallsKeep
  <2>9. SharesWell'
    <3>1. s \in Share /\ shares[s].row = NoRow /\ shares'[s].row # NoRow
      BY <1>2, <1>5 DEF ServerDid
    <3>2. /\ dismissed \subseteq Share /\ \A z \in dismissed : shares[z].row # NoRow
      BY <1>1 DEF SharesWell, Shown
    <3>3. box'["share"].share = s
      BY <2>2, <2>3
    <3>4. s \notin dismissed
      BY <3>1, <3>2
    <3>5. \A z \in Shown' : shares'[z].row # NoRow
      BY <1>3, <3>1, <3>2, <3>3 DEF Shown
    <3>6. LinkNeverShownTwice'
      BY <3>3, <3>4 DEF LinkNeverShownTwice
    <3>7. screen' \subseteq Row /\ lists' \in [Target -> SUBSET Entry]
      BY <1>1, <1>2 DEF SharesWell
    <3> QED
      BY <1>3, <3>2, <3>5, <3>6, <3>7 DEF SharesWell
  <2> QED
    BY <1>4, <2>7, <2>8, <2>9 DEF DialogInv
<1>6. CASE ~Succeeded(outcome)
  <2>1. /\ box' = IF Hears(c) THEN Failed("share", c) ELSE box
        /\ calls' = [calls EXCEPT ![c] = Over]
    BY <1>6 DEF ShareAnswer
  <2>2. /\ box' \in [Dialog -> Box]
        /\ \A j \in Dialog \ {"share"} : box'[j] = box[j]
        /\ box'["share"].row = box["share"].row /\ box'["share"].share = box["share"].share
        /\ ~Hears(c) => box' = box
        /\ Hears(c) => box'["share"].pending = FALSE /\ box'["share"].failure = calls[c].row
    BY <1>1, <1>2, <2>1, FailedBox
  <2>3. Hears(c) => calls[c].row = box["share"].row
    BY <1>1, <1>2 DEF CallsWell
  <2>4. /\ calls' \in [Call -> {Idle, Over} \cup Request] /\ calls'[c] = Over
        /\ \A d \in Call \ {c} : calls'[d] = calls[d]
    BY <1>1, <2>1, OverCalls
  <2>5. BoxesWell'
    <3>1. \A j \in Dialog \ {"cascade"} : box'[j].row \in {box[j].row, NoRow}
      BY <2>2
    <3>2. ASSUME NEW j \in Forms PROVE box'[j].failure \in {NoRow, box'[j].row}
      <4>1. box[j].failure \in {NoRow, box[j].row} /\ j \in Dialog
        BY <1>1, Names DEF BoxesWell, FormFailureIsOfItsRow
      <4> QED
        BY <2>2, <2>3, <4>1
    <3> QED
      BY <1>1, <2>2, <3>1, <3>2, BoxesKeep
  <2>6. CallsWell'
    <3>1. BusyControlsHaveRequests'
      <4>1. ASSUME NEW j \in Forms \cup {"delete"}, box'[j].pending
            PROVE  /\ box[j].pending
                   /\ \A d \in Call : calls[d].kind = j /\ calls[d].heard = "here" =>
                        d # c /\ calls'[d].heard = "here"
        <5>1. box[j].pending /\ (j = "share" => ~Hears(c))
          BY <1>2, <2>2, <4>1, Names
        <5>2. \A d \in Call : calls[d].kind = j /\ calls[d].heard = "here" => d # c
          BY <1>2, <5>1 DEF Hears
        <5> QED
          BY <2>4, <5>1, <5>2
      <4> QED
        BY <1>1, <1>2, <2>4, <4>1, BusyKeeps
    <3>2. \A j \in Forms : box'[j].row = box[j].row
      BY <2>2, Names
    <3> QED
      BY <1>1, <2>4, <3>1, <3>2, CallsKeep
  <2>7. SharesWell'
    <3>1. screen' \subseteq Row /\ lists' \in [Target -> SUBSET Entry]
      BY <1>1, <1>2 DEF SharesWell
    <3> QED
      BY <1>1, <1>3, <2>2, <3>1, SharesKeep
  <2> QED
    BY <1>4, <2>5, <2>6, <2>7 DEF DialogInv
<1> QED
  BY <1>5, <1>6

(* Only the prompt's box changes with the answer to a revocation. *)
LEMMA PromptedBox ==
  ASSUME box \in [Dialog -> Box], NEW c \in Call, calls[c] \in Request, NEW outcome
  PROVE  /\ Prompted(c, outcome) \in [Dialog -> Box]
         /\ \A k \in Dialog \ {"cascade"} : Prompted(c, outcome)[k] = box[k]
<1>1. Prompted(c, outcome) \in {box, [box EXCEPT !.cascade.row = NoRow], Failed("cascade", c)}
  BY DEF Prompted
<1>2. CASE Prompted(c, outcome) = [box EXCEPT !.cascade.row = NoRow]
  <2>1. ASSUME NEW b \in Box PROVE [b EXCEPT !.row = NoRow] \in Box
    BY DEF Box
  <2>2. [box["cascade"] EXCEPT !.row = NoRow] \in Box
    BY <2>1, Names
  <2> QED
    BY <1>2, <2>2, Names
<1>3. CASE Prompted(c, outcome) = Failed("cascade", c)
  <2>1. /\ "cascade" \in Dialog /\ Failed("cascade", c) \in [Dialog -> Box]
        /\ \A k \in Dialog \ {"cascade"} : Failed("cascade", c)[k] = box[k]
    BY FailedBox, Names
  <2> QED
    BY <1>3, <2>1
<1> QED
  BY <1>1, <1>2, <1>3

(* The answer to a revocation is for the list of shares and its prompt: no *)
(* form hears it.                                                          *)
LEMMA RevokeAnswerKeeps ==
  ASSUME DialogInv, NEW c \in Call, calls[c] \in Request, NEW outcome, NEW s,
         ServerDid(c, outcome, s), RevokeAnswer(c, outcome), dismissed' = dismissed
  PROVE  DialogInv'
<1> DEFINE b == Prompted(c, outcome)
<1>1. BoxesWell /\ CallsWell /\ SharesWell /\ LinesWell /\ box \in [Dialog -> Box]
      /\ calls \in [Call -> {Idle, Over} \cup Request]
  BY DEF DialogInv, BoxesWell, CallsWell
<1>2. /\ calls[c].kind \in {"revoke", "cascade"} /\ calls[c].kind \notin Forms \cup {"delete", "download"}
      /\ UNCHANGED <<screen, banner, signing>>
  BY Names DEF RevokeAnswer
<1>3. live' \subseteq Row /\ shares' \in [Share -> ShareRow]
      /\ \A z \in Share : shares[z].row # NoRow => shares'[z].row # NoRow
  BY DEF ServerDid
<1>4. b \in [Dialog -> Box] /\ \A k \in Dialog \ {"cascade"} : b[k] = box[k]
  BY <1>1, PromptedBox
<1>5. /\ box' \in [Dialog -> Box] /\ \A k \in Dialog \ {"cascade"} : box'[k] = box[k]
      /\ lists' \in [Target -> SUBSET Entry]
      /\ calls' \in [Call -> {Idle, Over} \cup Request] /\ calls'[c] = Over
      /\ \A d \in Call \ {c} :
           /\ calls'[d].kind = calls[d].kind /\ calls'[d].row = calls[d].row
           /\ calls'[d].heard = "here" => calls[d].heard = "here"
           /\ calls[d].kind \notin {"revoke", "cascade"} => calls'[d] = calls[d]
  <2>1. lists \in [Target -> SUBSET Entry]
    BY <1>1 DEF SharesWell
  <2>2. CASE box' = b /\ UNCHANGED lists /\ calls' = [calls EXCEPT ![c] = Over]
    BY <1>1, <1>4, <2>1, <2>2, OverCalls
  <2>3. ASSUME NEW t, NEW list \in {Listed(t)', {}},
               lists' = [lists EXCEPT ![t] = list],
               box' = Prompt(list, b), calls' = [Unlisted(list) EXCEPT ![c] = Over]
        PROVE  /\ box' \in [Dialog -> Box] /\ \A k \in Dialog \ {"cascade"} : box'[k] = box[k]
               /\ lists' \in [Target -> SUBSET Entry]
               /\ calls' \in [Call -> {Idle, Over} \cup Request] /\ calls'[c] = Over
               /\ \A d \in Call \ {c} :
                    /\ calls'[d].kind = calls[d].kind /\ calls'[d].row = calls[d].row
                    /\ calls'[d].heard = "here" => calls[d].heard = "here"
                    /\ calls[d].kind \notin {"revoke", "cascade"} => calls'[d] = calls[d]
    <3>1. list \in SUBSET Entry
      <4>1. \A z : HasNested(z)' \in BOOLEAN
        BY DEF HasNested
      <4> QED
        BY <4>1 DEF Listed, Entry
    <3>2. lists' \in [Target -> SUBSET Entry]
      BY <2>1, <2>3, <3>1
    <3>3. box' \in [Dialog -> Box] /\ \A k \in Dialog \ {"cascade"} : box'[k] = box[k]
      BY <1>4, <2>3, PromptBox
    <3>4. Unlisted(list) \in [Call -> {Idle, Over} \cup Request]
      BY <1>1, UnlistedCalls
    <3>5. /\ calls' \in [Call -> {Idle, Over} \cup Request] /\ calls'[c] = Over
          /\ \A d \in Call \ {c} : calls'[d] = Unlisted(list)[d]
      BY <2>3, <3>4, OverCalls
    <3> QED
      BY <1>1, <3>2, <3>3, <3>5, UnlistedCalls
  <2> QED
    BY <2>2, <2>3 DEF RevokeAnswer, Relist
<1>6. \A k \in Forms \cup {"delete"} : box'[k] = box[k]
  BY <1>5, Names
<1>7. BoxesWell'
  BY <1>1, <1>5, <1>6, BoxesKeep DEF BoxesWell, FormFailureIsOfItsRow
<1>8. CallsWell'
  <2>1. BusyControlsHaveRequests'
    <3>1. ASSUME NEW j \in Forms \cup {"delete"}, box'[j].pending
          PROVE  /\ box[j].pending
                 /\ \A d \in Call : calls[d].kind = j /\ calls[d].heard = "here" =>
                      d # c /\ calls'[d].heard = "here"
      <4>1. j \notin {"revoke", "cascade"}
        BY Names
      <4> QED
        BY <1>2, <1>5, <1>6, <3>1, <4>1
    <3> QED
      BY <1>1, <1>2, <1>5, <3>1, BusyKeeps
  <2> QED
    BY <1>1, <1>5, <1>6, <2>1, CallsKeep
<1>9. SharesWell'
  <2>1. screen' \subseteq Row /\ box'["share"].share = box["share"].share
    BY <1>1, <1>2, <1>6, Names DEF SharesWell
  <2> QED
    BY <1>1, <1>3, <1>5, <2>1, SharesKeep
<1>10. LinesWell'
  BY <1>1, <1>2 DEF LinesWell
<1> QED
  BY <1>7, <1>8, <1>9, <1>10 DEF DialogInv

(* A drop's or a download's answer: a line about the file of its request,  *)
(* and the row's control is given back by the request that took it.        *)
LEMMA LineAnswersKeep ==
  ASSUME DialogInv, NEW c \in Call, calls[c] \in Request, NEW outcome, NEW s,
         ServerDid(c, outcome, s), DropAnswer(c, outcome) \/ DownloadAnswer(c, outcome),
         dismissed' = dismissed
  PROVE  DialogInv'
<1>1. BoxesWell /\ CallsWell /\ SharesWell /\ LinesWell /\ box \in [Dialog -> Box]
      /\ calls \in [Call -> {Idle, Over} \cup Request]
  BY DEF DialogInv, BoxesWell, CallsWell
<1>2. /\ calls[c].kind \in {"drop", "download"} /\ calls' = [calls EXCEPT ![c] = Over]
      /\ calls[c].kind = "drop" => signing' = signing
      /\ calls[c].kind = "download" => signing' = IF signing = calls[c].row THEN NoRow ELSE signing
      /\ UNCHANGED <<lists, box>>
  BY DEF DropAnswer, DownloadAnswer
<1>3. live' \subseteq Row /\ shares' \in [Share -> ShareRow]
      /\ \A z \in Share : shares[z].row # NoRow => shares'[z].row # NoRow
  BY DEF ServerDid
<1>4. screen' \subseteq Row
  BY <1>1, <1>3 DEF DropAnswer, DownloadAnswer, SharesWell
<1>5. calls[c].row \in File
  BY <1>1, <1>2 DEF CallsWell
<1>6. /\ calls' \in [Call -> {Idle, Over} \cup Request] /\ calls'[c] = Over
      /\ \A d \in Call \ {c} : calls'[d] = calls[d]
  BY <1>1, <1>2, OverCalls
<1>7. BoxesWell'
  BY <1>1, <1>2, BoxesKeep DEF BoxesWell, FormFailureIsOfItsRow
<1>8. CallsWell'
  <2>1. BusyControlsHaveRequests'
    <3>1. ASSUME NEW j \in Forms \cup {"delete"}, box'[j].pending
          PROVE  /\ box[j].pending
                 /\ \A d \in Call : calls[d].kind = j /\ calls[d].heard = "here" =>
                      d # c /\ calls'[d].heard = "here"
      <4>1. j \notin {"drop", "download"}
        BY Names
      <4> QED
        BY <1>2, <1>6, <3>1, <4>1
    <3>2. signing' # NoRow => /\ signing' = signing
                              /\ ~(calls[c].kind = "download" /\ calls[c].row = signing)
      BY <1>2
    <3> QED
      BY <1>1, <1>6, <3>1, <3>2, BusyKeeps
  <2> QED
    BY <1>1, <1>2, <1>6, <2>1, CallsKeep
<1>9. SharesWell'
  <2>1. lists' \in [Target -> SUBSET Entry] /\ box'["share"].share = box["share"].share
    BY <1>1, <1>2 DEF SharesWell
  <2> QED
    BY <1>1, <1>3, <1>4, <2>1, SharesKeep
<1>10. LinesWell'
  <2>1. banner' \in [drop : File \cup {NoRow}, download : File \cup {NoRow}]
    <3>1. banner' \in {banner, [banner EXCEPT !.drop = calls[c].row],
                       [banner EXCEPT !.download = calls[c].row]}
      BY DEF DropAnswer, DownloadAnswer
    <3> QED
      BY <1>1, <1>5, <3>1 DEF LinesWell
  <2>2. signing' \in File \cup {NoRow}
    BY <1>1, <1>2 DEF LinesWell
  <2> QED
    BY <2>1, <2>2 DEF LinesWell
<1> QED
  BY <1>7, <1>8, <1>9, <1>10 DEF DialogInv

(* Whatever the server did, and whichever answer arrives. *)
LEMMA AnswerKeeps ==
  ASSUME DialogInv, NEW c \in Call, NEW outcome \in {"ok", "lost", "refused"},
         NEW s \in Share \cup {NoShare}, Answer(c, outcome, s)
  PROVE  DialogInv'
<1>1. calls[c] \in Request /\ SharesWell
  BY DEF Answer, DialogInv, CallsWell
<1>2. ServerDid(c, outcome, s)
  BY <1>1, EffectKeeps DEF Answer
<1>3. Succeeded(outcome) => outcome # "refused"
  BY DEF Succeeded
<1>4. /\ \/ FormAnswer(c, outcome) \/ DeleteAnswer(c, outcome) \/ ShareAnswer(c, outcome, s)
         \/ RevokeAnswer(c, outcome) \/ DropAnswer(c, outcome) \/ DownloadAnswer(c, outcome)
      /\ dismissed' = dismissed
  BY DEF Answer
<1> QED
  BY <1>1, <1>2, <1>3, <1>4, FormAnswerKeeps, DeleteAnswerKeeps, ShareAnswerKeeps,
     RevokeAnswerKeeps, LineAnswersKeep

-----------------------------------------------------------------------------
(* The theorems *)

(* The screen as it is mounted, on a folder as it may be found.            *)
LEMMA DialogInitWell == DialogInit => DialogInv
<1> SUFFICES ASSUME DialogInit PROVE DialogInv
  OBVIOUS
<1>1. /\ screen = live /\ live \subseteq Row
      /\ lists = [t \in Target |-> {}]
      /\ box = [k \in Dialog |-> Fresh]
      /\ calls = [c \in Call |-> Idle]
      /\ banner = [drop |-> NoRow, download |-> NoRow]
      /\ signing = NoRow /\ dismissed = {}
  BY DEF DialogInit
<1>2. \A k \in Dialog : /\ box[k] \in Box /\ box[k].row = NoRow /\ box[k].pending = FALSE
                        /\ box[k].failure = NoRow /\ box[k].share = NoShare
  BY <1>1, FreshBox
<1>3. BoxesWell
  BY <1>1, <1>2, Names DEF BoxesWell, OneOpen, FormFailureIsOfItsRow
<1>4. CallsWell
  <2>1. Idle.kind = "idle" /\ "idle" \notin Forms
    BY Names DEF Idle
  <2> QED
    BY <1>1, <1>2, <2>1, Names DEF CallsWell, BusyControlsHaveRequests
<1>5. shares \in [Share -> ShareRow]
  <2>1. NeverWritten \in ShareRow /\ \A t \in Target : Granted(t) \in ShareRow
    BY DEF NeverWritten, Granted, ShareRow
  <2>2. \A a, z \in Share, r \in Row : Nested(a, z, r) \in [Share -> ShareRow]
    <3> TAKE a, z \in Share, r \in Row
    <3>1. \A s \in Share : (CASE s = a -> Granted(Here) [] s = z -> Granted(r) [] OTHER -> NeverWritten)
                             \in ShareRow
      <4> TAKE s \in Share
      <4>1. Granted(Here) \in ShareRow /\ Granted(r) \in ShareRow
        BY <2>1, Rows
      <4> QED
        BY <2>1, <4>1
    <3> QED
      BY <3>1 DEF Nested
  <2> QED
    BY <2>1, <2>2 DEF DialogInit
<1>6. SharesWell
  <2>1. Shown = {} /\ box["share"].share = NoShare
    BY <1>1, <1>2, Names DEF Shown
  <2> QED
    BY <1>1, <1>5, <2>1 DEF SharesWell, LinkNeverShownTwice
<1>7. LinesWell
  BY <1>1 DEF LinesWell
<1> QED
  BY <1>3, <1>4, <1>6, <1>7 DEF DialogInv

(* No step breaks the invariant. *)
LEMMA DialogStep == DialogInv /\ [DialogNext]_vars => DialogInv'
<1> SUFFICES ASSUME DialogInv, [DialogNext]_vars PROVE DialogInv'
  OBVIOUS
<1>1. CASE UNCHANGED vars
  BY <1>1 DEF vars, DialogInv, BoxesWell, CallsWell, SharesWell, LinesWell, OneOpen, Shown, Hears,
     FormFailureIsOfItsRow, LinkNeverShownTwice, BusyControlsHaveRequests
<1>2. CASE \E k \in Dialog, t \in Target : Open(k, t)
  BY <1>2, OpenKeeps
<1>3. CASE \E k \in Dialog, byButton \in BOOLEAN : Close(k, byButton)
  BY <1>3, CloseKeeps
<1>4. CASE \E k \in Dialog, c \in Call, all \in BOOLEAN : Submit(k, c, all)
  BY <1>4, SubmitKeeps
<1>5. CASE \E t \in Target, e \in Entry, c \in Call : HandleRevoke(t, e, c)
  BY <1>5, HandleRevokeKeeps
<1>6. CASE \E r, f \in Row, c \in Call : Drop(r, f, c)
  BY <1>6, DropKeeps
<1>7. CASE \E r \in Row, c \in Call : Download(r, c)
  BY <1>7, DownloadKeeps
<1>8. CASE \E c \in Call, outcome \in {"ok", "lost", "refused"}, s \in Share \cup {NoShare} :
             Answer(c, outcome, s)
  BY <1>8, AnswerKeeps
<1>9. CASE Elsewhere \/ Refresh \/ Remount
  BY <1>9, ElsewhereKeeps, RefreshKeeps, RemountKeeps
<1> QED
  BY <1>1, <1>2, <1>3, <1>4, <1>5, <1>6, <1>7, <1>8, <1>9 DEF DialogNext

(* The inductive invariant holds in every state. *)
LEMMA DialogInvAlways == DialogSpec => []DialogInv
<1> QED
  BY DialogInitWell, DialogStep, PTL DEF DialogSpec

(* Every component holds what its props allow, and one dialog is open at a *)
(* time, the prompt over the share dialog excepted.                        *)
THEOREM DialogTypeCorrect == DialogSpec => []DialogTypeOK
<1>1. DialogInv => DialogTypeOK
  <2> SUFFICES ASSUME DialogInv PROVE DialogTypeOK
    OBVIOUS
  <2> DEFINE O == {k \in Dialog \ {"cascade"} : box[k].row # NoRow}
  <2>1. OneOpen /\ box \in [Dialog -> Box] /\ \A j, k \in O : j = k
    BY DEF DialogInv, BoxesWell, OneOpen
  <2>2. Cardinality(O) <= 1
    <3>1. CASE O = {}
      BY <3>1, FS_EmptySet
    <3>2. CASE O # {}
      <4>1. PICK k \in O : O = {k}
        BY <2>1, <3>2
      <4> HIDE DEF O
      <4> QED
        BY <4>1, FS_Singleton
    <3> QED
      BY <3>1, <3>2
  <2> QED
    BY <2>2 DEF DialogInv, BoxesWell, CallsWell, SharesWell, LinesWell, DialogTypeOK
<1> QED
  BY <1>1, DialogInvAlways, PTL

(* What a form shows as its failure is about the row it is open on,        *)
(* however late the answer and whatever was opened in between.             *)
THEOREM FormFailureIsOfItsRowAlways == DialogSpec => []FormFailureIsOfItsRow
<1>1. DialogInv => FormFailureIsOfItsRow
  BY DEF DialogInv, BoxesWell
<1> QED
  BY <1>1, DialogInvAlways, PTL

(* A link that was on screen when its dialog was dismissed is never held   *)
(* for display again, whatever answers are still to come.                  *)
THEOREM LinkNeverShownTwiceAlways == DialogSpec => []LinkNeverShownTwice
<1>1. DialogInv => LinkNeverShownTwice
  BY DEF DialogInv, SharesWell
<1> QED
  BY <1>1, DialogInvAlways, PTL

(* A control that is disabled because its request is under way has such a  *)
(* request, which it still hears.                                          *)
THEOREM BusyControlsHaveRequestsAlways == DialogSpec => []BusyControlsHaveRequests
<1>1. DialogInv => BusyControlsHaveRequests
  BY DEF DialogInv, CallsWell
<1> QED
  BY <1>1, DialogInvAlways, PTL
=============================================================================
