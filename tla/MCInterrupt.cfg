CONSTANTS
  MaxRequests = 3
  MaxSignals = 2
  SignalKinds = {"Veto", "Shutdown"}
SPECIFICATION InterruptSpec
INVARIANTS NoLeftoverInterrupt
PROPERTIES InterruptLands
CHECK_DEADLOCK FALSE
