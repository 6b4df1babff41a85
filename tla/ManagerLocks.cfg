SPECIFICATION FairLockSpec
CONSTANTS
  Task = {t1, t2, t3}
  Methods = {"register_user", "unregister_user", "join_channel", "broadcast_to_channel", "get_channel_users", "send_to_user"}
CHECK_DEADLOCK FALSE
INVARIANT StuckOnlyWhenOpposed
PROPERTY CallsReturnUnlessOpposed
