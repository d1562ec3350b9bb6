SPECIFICATION AdapterSpec
CONSTANTS
    Null = Null
    r1 = r1  r2 = r2  k1 = k1  k2 = k2
    g1 = g1  g2 = g2  a1 = a1  a2 = a2  a3 = a3
    Requests = {r1, r2}
    Tokens = {k1, k2}
    Targets = {g1, g2}
    Attempts = {a1, a2, a3}
    Fault <- Disturbed
    MaxTime = 1
    MaxPrepared = 3
    ClockMayStepBack = TRUE
SYMMETRY CallerSymmetry
INVARIANTS AdapterTypeOK StoreAcceptsItself ReplayIsExact ObservationSpentOnce OneEffectPerRequest
PROPERTIES EffectsAreReceipted
CHECK_DEADLOCK FALSE
