CONSTANTS
  c1 = c1  c2 = c2  c3 = c3  c4 = c4
  ChannelId = {c1, c2, c3, c4}
  ApprovalId = {a1}
  Principal = {user}
  NoChannel = NoChannel
  NoApproval = NoApproval
SPECIFICATION TreeSpec
SYMMETRY Symmetric
INVARIANTS LinksAgree PathsAgree PrivilegeCapped
PROPERTIES KillIsExact
CHECK_DEADLOCK FALSE
