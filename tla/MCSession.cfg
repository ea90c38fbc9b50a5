SPECIFICATION Spec
CONSTANTS
  m1 = m1
  m2 = m2
  m3 = m3
  m4 = m4
  NoMac = NoMac
  Mac <- FourMacs
  NPeers = 4
  MaxSlots = 2
  HidSupported = FALSE
  HandleClientLost = TRUE
SYMMETRY Symmetry
INVARIANTS
  TypeOK
  OneWcidPerController
  SlotHasOwner
  NoCrossTalk
  GuideBitAgrees
  GreetedOnce
  
PROPERTIES
  StreamTellsTruth
  ImplementsControllerSlots
