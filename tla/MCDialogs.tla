----------------------------- MODULE MCDialogs ------------------------------
(***************************************************************************)
(* An instance of Dialogs for TLC.                                         *)
(***************************************************************************)
EXTENDS Dialogs, TLC

CONSTANTS file, folder   \* the nodes of the folder

(* Call ids and shares only tell requests apart. *)
Ids == Permutations(Call) \cup Permutations(Share)
=============================================================================
