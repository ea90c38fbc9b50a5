SPECIFICATION FairSpec
CONSTANTS
  MaxSlots = 2
  Forcings = {0, 44}
  Adapters = {"sound", "faulty"}
INVARIANTS
  TypeOK
  ChannelIsTuned
PROPERTIES
  
  ReopensWhenEmpty
  ReopensWhileSlotIsFree
  
  ScanVisitsEveryChannel
