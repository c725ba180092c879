--------------------------- MODULE MCUploadQueue ---------------------------
(***************************************************************************)
(* An instance of UploadQueue for TLC.                                     *)
(***************************************************************************)
EXTENDS UploadQueue

CONSTANTS r1, r2   \* two drops
=============================================================================
