SPECIFICATION Spec
CONSTANTS
  NoFile = NoFile
  Machines <- ClassMachine
  FullCharge = 4
  Threshold = 0
  CannotOpen = {}
  CannotRead = {"max"}
INVARIANTS
  AutodimKnowsAC
