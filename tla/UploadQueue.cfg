\* Two drops, three files, batches of two.
SPECIFICATION QueueSpec
CONSTANTS
  Files = 3
  Runs = {r1, r2}
  MaxBatch = 2
  NoFile = NoFile
  r1 = r1
  r2 = r2
INVARIANT QueueTypeOK
INVARIANT CancelledIsNotCreated
INVARIANT PutToOwnReservation
PROPERTY EveryRowSettles
CHECK_DEADLOCK FALSE
