SPECIFICATION Spec
CONSTANTS
  Ilm = 3
  Dlm = 1
  Reader = {r1, r2}
  Controls = {"sound", "lossy"}
INVARIANT ReusedFirmwareIsWhole
