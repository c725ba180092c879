------------------------------ MODULE MCUpload ------------------------------
(***************************************************************************)
(* Instances of Upload for TLC.                                            *)
(***************************************************************************)
EXTENDS Upload, TLC

CONSTANTS
  d1,       \* the folder that exists when a behaviour starts
  b1, b2    \* blobs still to be presigned

EmptyFolder == d1 :> NewRow("FOLDER", Root, "a1", <<d1>>, 0, NoBlob)

OneFolder == {EmptyFolder}

MCSuffixed == [name \in UploadName |-> [i \in 1..Attempts - 1 |-> "a1"]]

Uploaders == Permutations(Uploader)
BlobsAndUploaders == Permutations({b1, b2}) \cup Permutations(Uploader)
=============================================================================
