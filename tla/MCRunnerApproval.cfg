CONSTANTS
  Self = self
  Request = {"exec"}
  Pattern = {"shell", "sandbox"}
  Needs <- NeedsTwo
  SignalKinds = {"Approve", "Reject", "Cancel"}
  AbortsOn = {}
  HookMaySkip = TRUE
  MayKill = FALSE
  MayTimeOut = TRUE
  SignalMax = 2
  EventMax = 1
  PausedMax = 1
  MaxSignals = 2
  MaxEvents = 2
  MaxRpcs = 1
  MaxApprovals = 2
SPECIFICATION Spec
INVARIANTS GrantsApproved ApprovalRoutes StopLeavesTerminal
PROPERTIES ApprovedResumes
CHECK_DEADLOCK FALSE
