CONSTANTS
  Color = {red}
  MaxEvents = 1
  MaxFrames = 1
SPECIFICATION Spec
INVARIANTS LockSuspendsCapture
