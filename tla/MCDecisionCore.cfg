CONSTANTS
  Requests <- MCRequests
  Callers <- MCCallers
  Inventory <- MCInventory
  Registry <- MCRegistry
  RequiredTypes = {"endpoint", "identity"}
  MinSources = 2
  MinStrength = 5500
  MinRelevance = 50
  MaxAge = 2
  MaxDuration = 1800
  ApprovalDowntime = 60
  DowntimeReference = 120
  DowntimeWeight = 1
  HighScore = 70
  MaxRequestAge = 1
  Skew = 1
  VerifierLag = 1
  ReceiptLife = 1
  Ttl = 2
  Start = 3
  MaxTime = 5
  MaxMoves = 1
SPECIFICATION CoreSpec
INVARIANTS EffectIsSupported EffectOnAuthorizedState RefusedForCause
CHECK_DEADLOCK FALSE
