----------------------------- MODULE MCListing -----------------------------
(***************************************************************************)
(* An instance of Listing for TLC: a folder and two files to begin with,   *)
(* and one more file that may be created.                                  *)
(***************************************************************************)
EXTENDS Listing, TLC

CONSTANTS d, f, g, h

StartRows == (d :> 2) @@ (f :> 1) @@ (g :> 3)
=============================================================================
