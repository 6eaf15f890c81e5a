SPECIFICATION GoodPeerSpec
CONSTANTS
  Songs = {a, b}
  Troubles = {"store", "peer", "files", "ffmpeg", "library", "empty", "server"}
  None = None
CHECK_DEADLOCK FALSE
INVARIANTS TypeOK NoLeak BackoffForgets ResumesTrack
PROPERTIES ManagerView CancelReturns EverySongGetsATurn
