CONSTANTS
  MaxProcs = 7
  MaxNumber = 5
SPECIFICATION Spec
INVARIANTS TypeOK Detached
PROPERTY SignsDeath
CHECK_DEADLOCK FALSE
