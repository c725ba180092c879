\* Deletes and moves that overlap.
SPECIFICATION Spec
CONSTANTS
  d1 = d1
  d2 = d2
  x = x
  b = b
  n1 = n1
  n2 = n2
  Root = Root
  NoBlob = NoBlob
  Node = {d1, d2, x}
  Name = {"a", "b"}
  Blob = {b}
  MaxFileSize = 2
  Worker = {w1, w2}
  Ops = {"delete", "move"}
  StartRows <- FilledRooms
PROPERTIES
  DeletedRowsStay
SYMMETRY Workers
CHECK_DEADLOCK FALSE
CONSTRAINT BoundedDrift
