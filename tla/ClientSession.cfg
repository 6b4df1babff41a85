SPECIFICATION Spec
CONSTANTS
  Me = me
  Other = {bob}
  Channel = {c1, c2}
  General = c1
  NoChannel = NoChannel
  MaxMail = 1
  MaxClicks = 2
  MaxMoves = 3
  MaxRegistrations = 2
CHECK_DEADLOCK FALSE
INVARIANT NothingLeftBehind
INVARIANT RostersSettle
INVARIANT NobodyIsMissing
INVARIANT VoiceFollowsMembership
