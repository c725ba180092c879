\* One request at a time: every operation, from every kind of room.
SPECIFICATION Spec
CONSTANTS
  d1 = d1
  d2 = d2
  x = x
  b = b
  n1 = n1
  n2 = n2
  Root = Root
  NoBlob = NoBlob
  Node = {d1, d2, x, n1}
  Name = {"a", "b"}
  Blob = {b}
  MaxFileSize = 2
  Worker = {w1}
  Ops = {"create", "rename", "delete", "move"}
  StartRows <- FilledRooms
INVARIANTS
  TypeOK
  PathsFollowParents
  FolderAggregates
  NoCycles
  LiveUnderLive
PROPERTIES
  DeletesWholeSubtree
  ImplementsRoomTree
