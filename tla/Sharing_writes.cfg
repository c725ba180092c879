\* Two shares, two requests of the owner that overlap, beside deletes.
\* The ids, the clock and the nodes run out: a behaviour may stop.
CHECK_DEADLOCK FALSE
SPECIFICATION SharingSpec
CONSTANTS
  d1 = d1
  d2 = d2
  never = never
  Root = Root
  NoBlob = NoBlob
  Node = {d1, d2}
  Name = {"a", "b"}
  Blob = {}
  MaxFileSize = 1
  Worker = {w1}
  Ops = {"delete"}
  StartRows <- TwoFolders
  Share = {1, 2}
  Email = {alice, bob}
  Verified = {alice, bob}
  Link = link
  alice = alice
  bob = bob
  link = link
  Never = never
  Horizon = 1
  Wish <- FiveWishes
  Desk = {o1, o2}
  Reader = {}
SYMMETRY OwnerRequests
INVARIANTS
  OneScopePerGrantee
  DeadNeverShadowsLive
PROPERTIES
  RevocationStands
  CascadeStaysWithGrantee
