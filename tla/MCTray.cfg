SPECIFICATION Spec
CONSTANTS
  t1 = t1
  t2 = t2
  Trays <- MCTrays
  MaxLevel = 64
  DimPercent = 0
  WriteMayFail = TRUE
  MaxUnread = 2
  MaxActions = 3
SYMMETRY Symmetry
INVARIANTS
  TrayTypeOK
  SliderCurrent
  RequestsInForce
PROPERTIES
  ActsAsShown
CHECK_DEADLOCK FALSE
