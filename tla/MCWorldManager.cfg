CONSTANTS
  c1 = c1  c2 = c2  k1 = k1  k2 = k2
  Client = {k1, k2}
  ChannelId = {c1, c2}
  ApprovalId = {a1}
  Principal = {"System"}
  NoChannel = NoChannel
  NoApproval = NoApproval
  Configs <- OneConfig
  Offered <- AbortOnly
  Capacity = 2
SPECIFICATION Spec
INVARIANTS KillOrdersSpawn
PROPERTIES ImplementsWorld Released
CHECK_DEADLOCK FALSE
