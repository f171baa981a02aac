CONSTANTS
  Color = {red, blue}
  MaxEvents = 1
  MaxFrames = 1
SPECIFICATION Spec
CONSTRAINT Bounded
INVARIANTS
  TypeOK
  LampTicks
  NeverBlind
PROPERTIES
  LockSilences
  OffStopsTheLights
  LampReturns
