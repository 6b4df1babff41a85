SPECIFICATION FairSpec
CONSTANTS
  Channel = {c1, c2}
  NoChannel = NoChannel
CHECK_DEADLOCK FALSE
INVARIANT NoUseAfterFree
INVARIANT SilentWhenStopped
INVARIANT CallbacksSetAtRest
INVARIANT EverythingReleased
PROPERTY ShutdownReturns
