\* Creates, renames and deletes that overlap, and no move.
SPECIFICATION Spec
CONSTANTS
  d1 = d1
  d2 = d2
  x = x
  b = b
  n1 = n1
  n2 = n2
  Root = Root
  NoBlob = NoBlob
  Node = {d1, x, n1}
  Name = {"a", "b"}
  Blob = {b}
  MaxFileSize = 2
  Worker = {w1, w2}
  Ops = {"create", "rename", "delete"}
  StartRows <- SmallRooms
INVARIANTS
  FolderAggregates
PROPERTIES
  DeletesItsNode
  DeletedRowsStay
SYMMETRY Workers
