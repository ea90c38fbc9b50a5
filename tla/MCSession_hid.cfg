SPECIFICATION Spec
CONSTANTS
  m1 = m1
  m2 = m2
  m3 = m3
  m4 = m4
  NoMac = NoMac
  Mac <- ThreeMacs
  NPeers = 3
  MaxSlots = 1
  HidSupported = TRUE
  HandleClientLost = TRUE
SYMMETRY Symmetry3
INVARIANT DeviceOnlyWhileConnected
