SPECIFICATION Spec
CONSTANTS
  User = {ann}
  Role = {r1, r2}
  Channel = {c1, c2}
  Permission = {JOIN}
  JOIN = JOIN
  NoParent = NoParent
  NoPermission = NoPermission
  NoChannel = NoChannel
  Task = {t1}
SYMMETRY Names
INVARIANT ReferencesHold
INVARIANT DecisionsAreJustified
