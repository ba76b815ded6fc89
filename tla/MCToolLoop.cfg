CONSTANTS
  Task = {t1, t2}
  NoTask = none
  Tool <- Tools
  Mutating <- MutatingTools
  Outside <- OutsideTools
  MaxTurns = 2
  MaxRetries = 1
  MaxBatch = 2
  MaxSessions = 2
  MaxReplies = 6
SPECIFICATION Spec
INVARIANTS TurnsCarried UsesAnswered BudgetKept SpeaksForTask
CHECK_DEADLOCK FALSE
