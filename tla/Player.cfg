SPECIFICATION Spec
CONSTANTS
  a = a
  b = b
  Tracks = {a, b}
  Lists <- OneList
  MaxQueue = 3
  NoTrack = NoTrack
  Undefined = Undefined
  NaN = NaN
  Null = Null
INVARIANTS TypeOK AudioIsCurrent EveryTrackOncePerRound ButtonTellsTruth
PROPERTIES PrevUndoesNext NavigationResumes LostOnlyAfterRestore
