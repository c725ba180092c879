\* Pages of one row, two changes to four rows (one of them absent at first), one failed request.
SPECIFICATION ListingSpec
CONSTANTS
  d = d
  f = f
  g = g
  h = h
  Folders = {d}
  Files = {f, g, h}
  Name = {1, 2, 3}
  Initial <- StartRows
  PageSize = 1
  MaxChanges = 2
  MaxFailures = 1
  Top = Top
INVARIANT SteadyRowsListedOnce
INVARIANT OwnChangeShown
PROPERTY ReaderLearns
CHECK_DEADLOCK FALSE
