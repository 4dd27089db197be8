SPECIFICATION Spec
CONSTANTS
  Wait = 3
  Gate = 7
  Late = 1
  Window = 24
  Limit = 4
  MaxTime = 34
INVARIANTS
  FewWrites
  URLKeepsUp
  LeavesOnce
CHECK_DEADLOCK FALSE
