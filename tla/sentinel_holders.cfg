CONSTANTS
  MaxProcs = 7
  MaxNumber = 5
SPECIFICATION Spec
INVARIANT OneHolder
CHECK_DEADLOCK FALSE
