CONSTANTS
  MaxRequests = 2
  MaxSignals = 2
  SignalKinds = {"Veto", "Shutdown"}
SPECIFICATION InterruptSpec
INVARIANTS SnapshotTaken
CHECK_DEADLOCK FALSE
