CONSTANTS
  MaxChanges = 2
  Expires = 1
  MaxTime = 1
SPECIFICATION Spec
INVARIANTS ResultFollowsFromInputs ChangeIsCaught AuthorizationCovers
CHECK_DEADLOCK FALSE
