------------------------------- MODULE MCSeed -------------------------------
(***************************************************************************)
(* An instance of Seed, and with it of SignIn, for TLC.                    *)
(***************************************************************************)
EXTENDS Seed

CONSTANTS alice, s1, s2

(* The shared folder with a file in it, and a folder outside. *)
SmallTree ==
  << [name |-> "shared", parent |-> "room", file |-> FALSE],
     [name |-> "agreement", parent |-> "shared", file |-> TRUE],
     [name |-> "internal", parent |-> "room", file |-> FALSE] >>
=============================================================================
