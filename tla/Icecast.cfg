SPECIFICATION FairSpec
CONSTANTS
  Mounts = {m1}
  Servers = {s1}
  ServerOf <- OneServer
  Handles = {h1, h2}
  Requests = {r1, r2}
  Ops = {"create", "start", "stop", "update", "delete"}
  Faults = {"crash", "timeout", "lost"}
  None = None
INVARIANTS TypeOK AtMostOneStream RegistryExact StatusTruth CleanExit
PROPERTIES PromiseKept StopReturns ShutdownEnds
