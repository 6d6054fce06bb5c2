\* Every call may fail.  caam_test ends.
SPECIFICATION Spec
CONSTANTS
  Fails = TRUE
  Cells = 3
INVARIANTS PassIsEarned NoFalseAlarm
CHECK_DEADLOCK FALSE
