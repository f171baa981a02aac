CONSTANTS
  p1 = p1
  p2 = p2
  a1 = a1
  a2 = a2
  PortOrder <- TwoPorts
  Address = {a1, a2}
  ByteSetting <- OneSetting
  Picture <- Pictures
  Adjustments = 1
  MaxReopens = 1
SPECIFICATION Spec
INVARIANTS
  TypeOK
  OpenedIsConfigured
  HandlesAreOpen
  WholeReports
  SlotsAnswer
PROPERTIES FirstReopens
