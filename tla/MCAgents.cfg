CONSTANTS
  MaxInputs = 1
  MaxDelegations = 1
  MaxAsks = 1
  QueueCap = 2
  EventCap = 1
SPECIFICATION Spec
INVARIANTS WaitersServed ToldInOrder
PROPERTIES HandlersEnd DelegationTold
CHECK_DEADLOCK FALSE
