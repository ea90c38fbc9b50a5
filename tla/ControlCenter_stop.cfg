SPECIFICATION Spec
CONSTANTS
  Slot = {0, 1}
  App = {a1, a2}
  NoApp = NoApp
  MaxDaemons = 2
  MaxLines = 3
PROPERTY StoppedDaemonIsGone
