SPECIFICATION Spec
CONSTANTS
  a = a
  b = b
  Tracks = {a, b}
  Lists <- OneList
  MaxQueue = 2
  NoTrack = NoTrack
  Undefined = Undefined
  NaN = NaN
  Null = Null
PROPERTIES QueueEnds EveryTurnComes
