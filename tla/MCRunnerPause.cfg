CONSTANTS
  Self = self
  Request = {"plain"}
  Pattern = {"shell"}
  Needs <- NeedsNone
  SignalKinds = {"Pause", "Resume", "Cancel"}
  AbortsOn = {}
  HookMaySkip = FALSE
  MayKill = TRUE
  MayTimeOut = FALSE
  SignalMax = 2
  EventMax = 2
  PausedMax = 2
  MaxSignals = 3
  MaxEvents = 3
  MaxRpcs = 0
  MaxApprovals = 0
SPECIFICATION Spec
INVARIANTS DeliveryInOrder
PROPERTIES PauseHolds StopHeard EventsHandled
CHECK_DEADLOCK FALSE
