SPECIFICATION Spec
CONSTANTS
  t1 = t1
  t2 = t2
  Trays <- MCTrays
  Watched <- MCWatched
  Cap = 2
  MaxErrors = 2
  MaxChanges = 1
  MaxMoves = 1
INVARIANTS
  TypeOK
  ShownCurrent
PROPERTIES
  NeverStuck
CHECK_DEADLOCK FALSE
