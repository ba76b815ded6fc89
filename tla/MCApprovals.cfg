CONSTANTS
  Component = {"mgr", "shell"}
  Elevated = {"mgr"}
  Op = {"write", "make", "exec"}
  Gates <- GatesThree
  Does <- DoesEach
  Missing = {"/out/new"}
  Within <- BelowOut
  OutMax = 2
  ScreenMax = 2
  MaxRequests = 2
  MaxAsks = 4
  MaxBare = 1
  MaxRuns = 2
SPECIFICATION Spec
INVARIANTS RunOnlyApproved AskedOnce GrantsResumed
PROPERTIES OwnAnswerOnly NoneForgotten
CHECK_DEADLOCK FALSE
