SPECIFICATION Spec
CONSTANTS
  Devices = {d1, d2, d3}
  Minters = {m1}
  Revokers = {r1}
  Conns = {c1, c2}
  NoConn = NoConn
  NoDevice = NoDevice
  MaxTail = 1
SYMMETRY Symmetry
INVARIANTS OneActiveToken RevokedIsDropped NoHistoryReplayed
PROPERTIES OnlyRevokeLeavesNone ValidDeviceKeepsConnection
