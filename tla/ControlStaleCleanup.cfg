SPECIFICATION Spec
CONSTANTS
  User = {alice, bob}
  Conn = {c1, c2}
  Channel = {lobby}
  NoUser = NoUser
  NoConn = NoConn
  NoChannel = NoChannel
  Requests = {"join"}
  Overlap = TRUE
  MaxMail = 1
SYMMETRY Renamings
CHECK_DEADLOCK FALSE
INVARIANT SessionChannelsAreMemberships
