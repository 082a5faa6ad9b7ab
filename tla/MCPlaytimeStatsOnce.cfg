SPECIFICATION Spec
CONSTANTS
  MaxPlays = 2
  MaxScans = 0
INVARIANT CountedOnce
CHECK_DEADLOCK FALSE
