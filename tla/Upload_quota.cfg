\* Uploads side by side, with room for one of them, and deletes.
SPECIFICATION UploadSpec
CONSTANTS
  d1 = d1
  b1 = b1
  b2 = b2
  Root = Root
  NoBlob = NoBlob
  Node = {d1, n1, n2}
  Name = {"a", "a1"}
  UploadName = {"a"}
  Blob = {b1, b2}
  MaxFileSize = 2
  Quota = 2
  Attempts = 2
  MaxBatch = 2
  Suffixed <- MCSuffixed
  NoUploader = NoUploader
  RePut = FALSE
  Worker = {w1}
  Uploader = {u1, u2}
  Ops = {"delete"}
  StartRows <- OneFolder
INVARIANT UploadTypeOK
INVARIANT RoomTotals
INVARIANT WithinQuota
INVARIANT OneFilePerReadyBlob
INVARIANT StoredBehindEveryFile
CHECK_DEADLOCK FALSE
SYMMETRY BlobsAndUploaders
