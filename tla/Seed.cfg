\* Two sign-ins of a new user, and a seed that dies twice.
SPECIFICATION DemoSpec
CONSTANTS
  Identity = {alice}
  Verified = {alice}
  SignIns = {s1, s2}
  Nobody = Nobody
  Shared = "shared"
  Tree <- SmallTree
  Top = "room"
  Blob = {1, 2, 3, 4}
  MaxCrashes = 2
  alice = alice
  s1 = s1
  s2 = s2
INVARIANT DemoTypeOK
INVARIANT SignedInHasRoom
INVARIANT SeededFilesOpen
INVARIANT RepeatSignInAddsNothing
PROPERTY SeedRecovers
