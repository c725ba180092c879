---------------------------- MODULE UploadQueue ----------------------------
(***************************************************************************)
(* The web app's upload queue (use-upload-queue.ts, put-object.ts).  Every *)
(* drop of files starts a run of its own, which signs its files in batches *)
(* and then, one file after the other, sends the bytes to storage and asks *)
(* the API to complete.  The user cancels files and clears finished rows   *)
(* at any moment, several runs go on side by side, and every request may   *)
(* fail, also after the server has carried it out.                         *)
(*                                                                         *)
(* The server is what the queue sees of it (module Upload has the rest):   *)
(* presign reserves one blob per file, in the order asked, storage keeps   *)
(* the bytes put to a blob, complete makes a file of a blob that holds     *)
(* the bytes it was reserved for.                                          *)
(***************************************************************************)
EXTENDS Naturals, Sequences, SequencesExt, FiniteSets

CONSTANTS
  Files,      \* bound: the files are 1..Files, dropped in this order
  Runs,       \* bound: one per drop
  MaxBatch,   \* MAX_PRESIGN_BATCH
  NoFile      \* nothing reserved, nothing stored

ASSUME QueueAssumption ==
  /\ Files \in Nat \ {0} /\ MaxBatch \in Nat \ {0}
  /\ NoFile \notin 1..Files

VARIABLES
  status,     \* file -> its row
  cleared,    \* the files whose rows were cleared from the list
  signal,     \* file -> its AbortController
  runs,       \* run -> what it still has to do, and the request it awaits
  reserved,   \* server: the blobs, each with the file it was signed for
  stored,     \* storage: blob -> the file whose bytes it holds
  created     \* server: the files that complete made nodes of

vars == <<status, cleared, signal, runs, reserved, stored, created>>

File == 1..Files
Blob == File            \* a file is signed at most once
Settled == {"error", "cancelled", "complete"}
Status == {"absent", "pending", "uploading"} \cup Settled

(* left: not yet batched; live: the batch under way, with its targets;     *)
(* at: the next of them.                                                   *)
Run == [left : SUBSET File, live : Seq(File), targets : Seq(Blob), at : Nat,
        step : {"unused", "next", "presign", "put", "complete", "done"}]
Unused == [left |-> {}, live |-> <<>>, targets |-> <<>>, at |-> 1, step |-> "unused"]

QueueInit ==
  /\ status = [f \in File |-> "absent"]
  /\ cleared = {}
  /\ signal = [f \in File |-> "none"]
  /\ runs = [r \in Runs |-> Unused]
  /\ reserved = <<>>
  /\ stored = [b \in Blob |-> NoFile]
  /\ created = {}

-----------------------------------------------------------------------------
(* Rows.  A row that was cleared is gone, and later changes do not find it.*)

Patch(S, to) == status' = [f \in File |-> IF f \in S \ cleared THEN to ELSE status[f]]

(* Variant: a row is given its final state, its controller is kept. *)
KeepControllers(S) == UNCHANGED signal

(* A final state, and the controller that will never be needed again. *)
Release(S) == signal' = [f \in File |-> IF f \in S THEN "none" ELSE signal[f]]

Settle(S, to) == Patch(S, to) /\ Release(S)

-----------------------------------------------------------------------------
(* The user *)

Undropped == {f \in File : status[f] = "absent"}

(* Screening looks at a name, a type and a size: it may refuse any of them.*)
Refusable(dropped) == SUBSET dropped

(* Some files, in order; those that screening refuses are error rows and   *)
(* are never queued.                                                       *)
Enqueue(r, last, refused) ==
  LET dropped == {f \in Undropped : f <= last}
      accepted == dropped \ refused IN
  /\ runs[r] = Unused
  /\ dropped # {} /\ refused \in Refusable(dropped)
  /\ status' = [f \in File |-> IF f \in refused THEN "error"
                               ELSE IF f \in dropped THEN "pending" ELSE status[f]]
  /\ signal' = [f \in File |-> IF f \in accepted THEN "armed" ELSE signal[f]]
  /\ runs' = [runs EXCEPT ![r].left = accepted,
                          ![r].step = IF accepted = {} THEN "done" ELSE "next"]
  /\ UNCHANGED <<cleared, reserved, stored, created>>

(* Run r is at this step for file f. *)
At(r, f, step) ==
  runs[r].step = step /\ runs[r].at <= Len(runs[r].live) /\ f = runs[r].live[runs[r].at]

Advanced(r) == [runs EXCEPT ![r].step = "next", ![r].at = @ + 1]

(* Variant: cancelling settles the row at once, whatever its request is    *)
(* doing.                                                                  *)
CancelAnyRow(f) ==
  /\ status[f] \in {"pending", "uploading"}
  /\ \/ \E r \in Runs : At(r, f, "put") /\ runs' = Advanced(r) /\ Settle({f}, "cancelled")
     \/ /\ ~\E r \in Runs : At(r, f, "put")
        /\ signal' = [signal EXCEPT ![f] = "aborted"]
        /\ Patch({f}, "cancelled")
        /\ UNCHANGED runs
  /\ UNCHANGED <<cleared, reserved, stored, created>>

(* Cancel is offered for a pending row and for one that is uploading; the  *)
(* row on screen may be one render old, so the click can come after the    *)
(* last byte.  It aborts a transfer that is under way, and is without      *)
(* effect on one that has been answered.                                   *)
Cancel(f) ==
  /\ status[f] \in {"pending", "uploading"}
  /\ \/ \E r \in Runs : At(r, f, "put") /\ runs' = Advanced(r) /\ Settle({f}, "cancelled")
     \/ /\ ~\E r \in Runs : At(r, f, "put")
        /\ signal' = [signal EXCEPT ![f] = "aborted"]
        /\ IF status[f] = "pending" THEN Patch({f}, "cancelled") ELSE UNCHANGED status
        /\ UNCHANGED runs
  /\ UNCHANGED <<cleared, reserved, stored, created>>

ClearFinished ==
  /\ cleared' = {f \in File : status[f] \in Settled}
  /\ cleared' # cleared
  /\ UNCHANGED <<status, signal, runs, reserved, stored, created>>

-----------------------------------------------------------------------------
(* A run *)

(* A file cancelled while it waited is not signed. *)
Wanted(f) == signal[f] # "aborted"

BatchDone(r) == runs[r].step = "next" /\ runs[r].at > Len(runs[r].live)

(* The first of the files S, as many as presign takes. *)
Chunk(S) == {f \in S : Cardinality({g \in S : g <= f}) <= MaxBatch}

(* The files S in the order they were dropped in, which is also the order  *)
(* of what is left when some of a batch are filtered out.                  *)
InOrder(S) ==
  CHOOSE s \in [1..Cardinality(S) -> S] : \A i, j \in DOMAIN s : i < j => s[i] < s[j]

(* The next files of the run, and of these the ones still wanted. *)
NextBatch(r) ==
  LET batch == Chunk(runs[r].left)
      live == {f \in batch : Wanted(f)} IN
  /\ BatchDone(r) /\ runs[r].left # {}
  /\ Settle(batch \ live, "cancelled")
  /\ runs' = [runs EXCEPT ![r] =
       [left |-> runs[r].left \ batch, live |-> InOrder(live), targets |-> <<>>, at |-> 1,
        step |-> IF live = {} THEN "next" ELSE "presign"]]
  /\ UNCHANGED <<cleared, reserved, stored, created>>

(* Variant: a failed presign ends the run. *)
StopAfterFailure(r) == [runs EXCEPT ![r].step = "done", ![r].live = <<>>]

(* The run goes on with its next batch. *)
NextAfterFailure(r) == [runs EXCEPT ![r].step = "next", ![r].live = <<>>]

(* Presign is for the whole batch: all of it is reserved, or all of it     *)
(* fails.  An answer that is lost has reserved too.                        *)
PresignAnswer(r, outcome) ==
  /\ runs[r].step = "presign"
  /\ reserved' = IF outcome = "refused" THEN reserved ELSE reserved \o runs[r].live
  /\ IF outcome = "ok"
     THEN /\ runs' = [runs EXCEPT ![r].step = "next",
                        ![r].targets = [i \in DOMAIN runs[r].live |-> Len(reserved) + i]]
          /\ UNCHANGED <<status, signal>>
     ELSE /\ runs' = NextAfterFailure(r)
          /\ Settle(ToSet(runs[r].live), "error")
  /\ UNCHANGED <<cleared, stored, created>>

(* Variant: the files cancelled while presign was under way are filtered   *)
(* out again, and the entries of the answer counted among those left.      *)
IndexAmongKept(r) ==
  Cardinality({i \in 1..runs[r].at : status[runs[r].live[i]] # "cancelled"})

(* The entry of the answer that is for the file at this place. *)
TargetIndex(r) == runs[r].at
Target(r) == runs[r].targets[TargetIndex(r)]
HasTarget(r) == TargetIndex(r) \in DOMAIN runs[r].targets

Aborted(f) == signal[f] # "armed"

StartTransfer(r) ==
  \E f \in File :
    /\ At(r, f, "next")
    /\ CASE ~HasTarget(r) -> runs' = Advanced(r) /\ Settle({f}, "error")
         [] HasTarget(r) /\ Aborted(f) -> runs' = Advanced(r) /\ Settle({f}, "cancelled")
         [] OTHER -> /\ runs' = [runs EXCEPT ![r].step = "put"]
                     /\ Patch({f}, "uploading") /\ UNCHANGED signal
    /\ UNCHANGED <<cleared, reserved, stored, created>>

(* The bytes reach storage at some moment of the transfer, also of one     *)
(* that is then cancelled or whose answer is lost.                         *)
BytesStored(r) ==
  \E f \in File :
    /\ At(r, f, "put") /\ stored[Target(r)] = NoFile
    /\ stored' = [stored EXCEPT ![Target(r)] = f]
    /\ UNCHANGED <<status, cleared, signal, runs, reserved, created>>

PutAnswer(r, outcome) ==
  \E f \in File :
    /\ At(r, f, "put")
    /\ outcome = "ok" => stored[Target(r)] # NoFile
    /\ IF outcome = "ok"
       THEN runs' = [runs EXCEPT ![r].step = "complete"] /\ UNCHANGED <<status, signal>>
       ELSE runs' = Advanced(r) /\ Settle({f}, "error")
    /\ UNCHANGED <<cleared, reserved, stored, created>>

(* Complete makes a file of the blob, or refuses; the listing is fetched   *)
(* again before the next file.                                             *)
CompleteAnswer(r, outcome) ==
  \E f \in File :
    /\ At(r, f, "complete")
    /\ IF outcome = "refused"
       THEN UNCHANGED created
       ELSE reserved[Target(r)] = stored[Target(r)] /\ created' = created \cup {f}
    /\ runs' = Advanced(r)
    /\ Settle({f}, IF outcome = "ok" THEN "complete" ELSE "error")
    /\ UNCHANGED <<cleared, reserved, stored>>

Finish(r) ==
  /\ BatchDone(r) /\ runs[r].left = {}
  /\ runs' = [runs EXCEPT ![r].step = "done"]
  /\ UNCHANGED <<status, cleared, signal, reserved, stored, created>>

RunStep(r) ==
  \/ NextBatch(r) \/ StartTransfer(r) \/ Finish(r)
  \/ \E outcome \in {"ok", "refused", "lost"} :
       PresignAnswer(r, outcome) \/ PutAnswer(r, outcome) \/ CompleteAnswer(r, outcome)

QueueNext ==
  \/ \E r \in Runs, last \in File, refused \in SUBSET File : Enqueue(r, last, refused)
  \/ \E f \in File : Cancel(f)
  \/ ClearFinished
  \/ \E r \in Runs : RunStep(r) \/ BytesStored(r)

(* Every request is answered or fails in the end (the browser gives up on  *)
(* a dead connection), and the promise of a run then continues.            *)
QueueSpec == QueueInit /\ [][QueueNext]_vars /\ \A r \in Runs : WF_vars(RunStep(r))

-----------------------------------------------------------------------------
(* Properties *)

(* Rows, runs and blobs have their shape; and "a long session of drops     *)
(* does not accumulate one AbortController per file that finished" (:138): *)
(* a file has a controller exactly while some run has it ahead of it.      *)
Ahead(r) ==
  runs[r].left \cup {runs[r].live[i] : i \in {j \in DOMAIN runs[r].live : j >= runs[r].at}}

QueueTypeOK ==
  /\ status \in [File -> Status] /\ cleared \subseteq {f \in File : status[f] \in Settled}
  /\ runs \in [Runs -> Run]
  /\ reserved \in Seq(File) /\ Len(reserved) <= Files
  /\ stored \in [Blob -> File \cup {NoFile}]
  /\ created \subseteq File
  /\ signal \in [File -> {"none", "armed", "aborted"}]
  /\ \A f \in File : signal[f] # "none" <=> \E r \in Runs : f \in Ahead(r)

(* "A row claiming the upload was stopped would be a lie" (:264): a file   *)
(* whose row says cancelled, still listed or cleared since, has not been   *)
(* made and never will be, whatever its run was doing when it was          *)
(* cancelled.                                                              *)
CancelledIsNotCreated == \A f \in File : status[f] = "cancelled" => f \notin created

(* "The response mirrors the request, one entry per file in the same order *)
(* - the only correspondence there is" (:223): bytes only ever go to the   *)
(* URL that was signed for their file, whatever was cancelled before,      *)
(* during or after the presign and however two runs interleave.            *)
PutToOwnReservation ==
  \A b \in Blob : stored[b] # NoFile => b \in DOMAIN reserved /\ reserved[b] = stored[b]

(* Every accepted file ends as complete, cancelled or failed: neither a    *)
(* failed batch nor a failed or cancelled file strands the ones behind it. *)
EveryRowSettles == \A f \in File : status[f] \in {"pending", "uploading"} ~> status[f] \in Settled
=============================================================================
