SPECIFICATION Spec
CONSTANTS
  Mounts = {m1}
  Servers = {s1}
  ServerOf <- OneServer
  Handles = {h1, h2}
  Requests = {r1, r2}
  Ops = {"create", "start", "stop"}
  Faults = {}
  None = None
SYMMETRY Symmetry
INVARIANT StreamingIsEnabled
