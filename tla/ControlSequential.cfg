SPECIFICATION Spec
CONSTANTS
  User = {alice, bob}
  Conn = {c1, c2, c3}
  Channel = {lobby}
  NoUser = NoUser
  NoConn = NoConn
  NoChannel = NoChannel
  Requests = {"join", "leave", "key"}
  Overlap = FALSE
  MaxMail = 2
SYMMETRY Renamings
VIEW SafetyView
CHECK_DEADLOCK FALSE
INVARIANT TypeOK
INVARIANT SessionMatchesManager
INVARIANT ServedUsersAreReachable
INVARIANT LastWordUnlessOvertaken
INVARIANT VoiceKeysAgree
PROPERTY IsMembershipService
