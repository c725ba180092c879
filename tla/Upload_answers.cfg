\* Two completes that queue for the lock.
SPECIFICATION FairUploadSpec
CONSTANTS
  d1 = d1
  b1 = b1
  b2 = b2
  Root = Root
  NoBlob = NoBlob
  Node = {d1, n1, n2}
  Name = {"a", "a1"}
  UploadName = {"a"}
  Blob = {b1, b2}
  MaxFileSize = 1
  Quota = 1
  Attempts = 2
  MaxBatch = 2
  Suffixed <- MCSuffixed
  NoUploader = NoUploader
  RePut = FALSE
  Worker = {w1}
  Uploader = {u1, u2}
  Ops = {"delete"}
  StartRows <- OneFolder
PROPERTY EveryCompleteEnds
CHECK_DEADLOCK FALSE
