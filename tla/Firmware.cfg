SPECIFICATION FairSpec
CONSTANTS
  Ilm = 3
  Dlm = 1
  Reader = {r1, r2}
  Controls = {"sound", "lossy"}
INVARIANTS
  TypeOK
  ForcedReloadRunsWholeImage
  ResidentUnlessCut
PROPERTIES
  StartEnds
  StopEnds
