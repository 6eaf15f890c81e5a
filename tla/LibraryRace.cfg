SPECIFICATION Spec
CONSTANTS
  Files = {f1}
  Artists = {a, b}
  Scans = {s1, s2}
  Editors = {}
  Workers = 1
  MaxId = 3
  MaxTime = 2
  Steps = {2}
  Troubles = {}
  None = None
SYMMETRY Symmetry
CHECK_DEADLOCK FALSE
INVARIANTS SkippedIsRight
