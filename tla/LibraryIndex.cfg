SPECIFICATION Spec
CONSTANTS
  Files = {f1, f2, f3}
  Artists = {a}
  Scans = {s1}
  Editors = {}
  Workers = 1
  MaxId = 3
  MaxTime = 0
  Steps = {2}
  Troubles = {}
  None = None
SYMMETRY Symmetry
CHECK_DEADLOCK FALSE
INVARIANT FullScanIndexesAll
