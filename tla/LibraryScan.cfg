SPECIFICATION Spec
CONSTANTS
  Files = {f1, f2}
  Artists = {a, b}
  Scans = {s1}
  Editors = {e1}
  Workers = 2
  MaxId = 2
  MaxTime = 2
  Steps = {2}
  Troubles = {"cancel", "error", "plays"}
  None = None
SYMMETRY Symmetry
CHECK_DEADLOCK FALSE
INVARIANTS TypeOK SkippedIsRight ScanRepairs NoOrphans
