SPECIFICATION Spec
CONSTANTS
  MaxSlots = 2
  Inputs <- TwoInputs
  Layouts = {"xone"}
  Settings <- PairAndSolo
  NoInput = NoInput
  NoDevice = NoDevice
  MaxJoys = 2
  StickGain = 1
  Deadzone = 500
  SwapLr = FALSE
  SwapSticks = FALSE
  XoneLayout = FALSE
INVARIANTS
  TypeOK
  InjectorFollowsDaemon
  JoysticksFollowSlotsInSdl3
  SticksKeepDirection
  BridgeShowsDaemonsReport
