SPECIFICATION FairStageSpec
CONSTANTS
    Null = Null
    r1 = r1  r2 = r2  d1 = d1  d2 = d2  g1 = g1  g2 = g2  g3 = g3
    Requests = {r1, r2}
    Digests = {d1, d2}
    Targets = {g1, g2, g3}
    Fault <- Varied
    MaxTime = 1
    ClockMayStepBack = FALSE
    MaxLifecycles = 2
    MaxStops = 2
INVARIANTS StoresAlwaysCorrelated StoresAlwaysValid VerdictsAreHonest
PROPERTIES PendingRecoveryOwnsTheStores ImplementsGatedEffect 
CHECK_DEADLOCK FALSE
