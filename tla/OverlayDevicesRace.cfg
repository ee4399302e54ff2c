SPECIFICATION Spec
CONSTANTS
  Devices = {d1, d2}
  Minters = {m1}
  Revokers = {r1}
  Conns = {c1}
  NoConn = NoConn
  NoDevice = NoDevice
  MaxTail = 0
SYMMETRY Symmetry
INVARIANTS RevocationIsImmediate
