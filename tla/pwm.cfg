CONSTANTS
  Width = 8
  Shades = {0, 2, 7}
  Depths = {2, 7}
  Slowdowns = {0, 2}
  FirstDepth = 4
  FirstSlowdown = 3
SPECIFICATION Spec
INVARIANTS
  TypeOK
  DutyCycle
PROPERTIES
  PeriodsEnd
  Approaches
  Settles
