SPECIFICATION FairSpec
CONSTANTS
  r = r
  d = d
  x = x
  f = f
  g = g
  w1 = w1
  w2 = w2
  Dirs = {r, d, x}
  Files = {f, g}
  Root = r
  Sub <- Tree
  Holds <- Songs
  LinkSets <- AllLinks
  Workers = {w1, w2}
  Capacity = 1
  MaxDepth = 4
  None = None
CHECK_DEADLOCK FALSE
INVARIANTS TypeOK NilMeansAll NoCycleOfLinks
PROPERTY ScanReturns
