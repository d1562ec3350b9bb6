CONSTANTS
  MaxChanges = 2
  Expires = 1
  MaxTime = 1
SPECIFICATION Spec
INVARIANT InputChangeIsCaught
CHECK_DEADLOCK FALSE
