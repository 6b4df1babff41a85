SPECIFICATION FairSpec
CONSTANTS
  User = {alice, bob}
  Conn = {c1, c2}
  Channel = {lobby}
  NoUser = NoUser
  NoConn = NoConn
  NoChannel = NoChannel
  Requests = {"join", "leave", "key"}
  Overlap = TRUE
  MaxMail = 1
CHECK_DEADLOCK FALSE
INVARIANT SocketsAreLive
INVARIANT MembersAreServed
INVARIANT NoResidue
PROPERTY DepartedUsersLeave
