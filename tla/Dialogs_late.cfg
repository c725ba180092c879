\* Two requests, one file and one folder, two shares.
SPECIFICATION DialogSpec
CONSTANTS
  Row = {file, folder}
  File = {file}
  Here = Here
  NoRow = NoRow
  Share = {s1, s2}
  NoShare = NoShare
  Call = {c1, c2}
  file = file
  folder = folder
INVARIANT DialogTypeOK
INVARIANT FormFailureIsOfItsRow
INVARIANT LinkNeverShownTwice
INVARIANT BusyControlsHaveRequests
SYMMETRY Ids
CHECK_DEADLOCK FALSE
