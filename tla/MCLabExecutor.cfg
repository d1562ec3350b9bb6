SPECIFICATION Spec
CONSTANTS
    Null = Null  Torn = Torn
    c1 = c1  c2 = c2  e1 = e1  e2 = e2  k1 = k1  k2 = k2
    Clients = {c1, c2}
    Persistent = {c1}
    Executors = {e1, e2}
    Keys = {k1, k2}
    KeysOf <- SharedKey
    MaxRuns = 1
    MaxRecords = 3
    Lifetime = 1
    MaxTime = 1
    MaxFaults = 2
INVARIANTS LabTypeOK EffectsAreReserved EffectsFindOpenTarget AnswersAreTrue
PROPERTIES PersistedCommandsSettle
CHECK_DEADLOCK FALSE
