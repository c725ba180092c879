\* A reader, two shares, moves of two folders, and revocations.
\* The ids and the clock run out: a behaviour may stop.
CHECK_DEADLOCK FALSE
SPECIFICATION SharingSpec
CONSTANTS
  d1 = d1
  d2 = d2
  never = never
  Root = Root
  NoBlob = NoBlob
  Node = {d1, d2}
  Name = {"a", "b"}
  Blob = {}
  MaxFileSize = 1
  Worker = {w1}
  Ops = {"move"}
  StartRows <- StartNested
  Share = {1, 2}
  Email = {alice}
  Verified = {alice}
  Link = link
  alice = alice
  bob = bob
  link = link
  Never = never
  Horizon = 1
  Wish <- ThreeWishes
  Desk = {o1}
  Reader = {c1}
INVARIANTS
  ShareTypeOK
  NarrowNeverHidesBroad
PROPERTIES
  ServedUnderLiveShare
