SPECIFICATION Spec
CONSTANTS
  MaxSlots = 2
  Forcings = {0}
  Adapters = {"sound"}
PROPERTY NoHopWhileConnected
