SPECIFICATION Spec
CONSTANTS
  Channel = {1,2}
  Key <- MCKey
  FKeys <- MCFKeys
  Defaults <- MCDefaults
  MaxHeld = 2
  Calm = TRUE
VIEW View
INVARIANT HotkeysAgree
INVARIANT PttFollowsKeys
INVARIANT LightsAreTrue
INVARIANT IndicatorIsTrue
CHECK_DEADLOCK FALSE
