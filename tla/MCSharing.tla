------------------------------ MODULE MCSharing ------------------------------
(***************************************************************************)
(* Instances of Sharing for TLC.                                           *)
(***************************************************************************)
EXTENDS Sharing, TLC

CONSTANTS
  d1, d2,       \* folders that exist when a behaviour starts
  alice, bob,   \* addresses
  link,         \* the value of Link
  never         \* the value of Never

MCFolder(parent, name, path, folders) ==
  [NewRow("FOLDER", parent, name, path, 0, NoBlob) EXCEPT !.folderCount = folders]

(* Two folders side by side, and one inside the other. *)
SideBySide ==
  d1 :> MCFolder(Root, "a", <<d1>>, 0) @@ d2 :> MCFolder(Root, "b", <<d2>>, 0)

OneInside ==
  d1 :> MCFolder(Root, "a", <<d1>>, 1) @@ d2 :> MCFolder(d1, "b", <<d1, d2>>, 0)

StartNested == {OneInside}
TwoFolders == {SideBySide, OneInside}

MCWish(node, to, expires) == [node |-> node, to |-> to, expires |-> expires]

(* A folder to Alice, until 1 or for good, and a link to the room. *)
ThreeWishes ==
  {MCWish(d1, alice, 1), MCWish(d2, alice, never), MCWish(Root, link, never)}

(* The same, the inner folder to Bob and the room to Alice as well. *)
FiveWishes ==
  ThreeWishes \cup {MCWish(d2, bob, never), MCWish(Root, alice, never)}

OwnerRequests == Permutations(Desk)
=============================================================================
