SPECIFICATION Spec
CONSTANTS
  Slots <- TwoSlots
  Pages = 3
INVARIANTS PageAgrees GridInOrder ButtonsHold
PROPERTY GridFills
