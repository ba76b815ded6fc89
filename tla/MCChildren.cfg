CONSTANTS
  Child = {"worker", "manager", "agent"}
  Owner = "component"
  Calls <- MCCalls
  MaxChildren = 2
  MaxCalls = 5
  MaxTasks = 3
  MaxRequests = 2
  MaxSignals = 2
SPECIFICATION Spec
INVARIANTS NoDeadlock AllAborted
PROPERTIES SignalHandled SentIsRun
CHECK_DEADLOCK FALSE
