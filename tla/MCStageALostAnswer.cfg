SPECIFICATION StageSpec
CONSTANTS
    Null = Null
    r1 = r1  r2 = r2  d1 = d1  d2 = d2  g1 = g1  g2 = g2  g3 = g3
    Requests = {r1}
    Digests = {d1}
    Targets = {g1}
    Fault <- Working
    MaxTime = 0
    ClockMayStepBack = FALSE
    MaxLifecycles = 1
    MaxStops = 2
INVARIANTS ReconciledRequestsStayReadable
CHECK_DEADLOCK FALSE
