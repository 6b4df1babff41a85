SPECIFICATION Spec
CONSTANTS
  Addr = {a1, a2, a3}
  User = {ann, bob, cat}
  Channel = {c1}
  Nobody = Nobody
  NoPacket = NoPacket
INVARIANT NeverEchoed
