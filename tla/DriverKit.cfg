SPECIFICATION Spec
CONSTANTS
  MaxControllers = 2
  Client = {1}
  Inputs <- OneInput
  NoInput = NoInput
  NoDevice = NoDevice
  NoFrame = NoFrame
  QueueBound = 2
INVARIANTS
  TypeOK
  
  OneReadAtATime
  
  DeviceOnlyForConnected
PROPERTY
  LossReleasesDevice
