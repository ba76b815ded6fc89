CONSTANTS
  Boot = {"io", "agent_mgr"}
  Client = "io"
  Supervisor = "agent_mgr"
  Supervised = {"concierge"}
  MaxRestarts = 1
  InboxMax = 1
  MayPanic = TRUE
SPECIFICATION Spec
INVARIANTS FoundUnlessOverlapped SnapshotsKept
PROPERTIES StopEnds Restarted
CHECK_DEADLOCK FALSE
