SPECIFICATION Spec
CONSTANTS
    Null = Null
    r1 = r1  r2 = r2  d1 = d1  d2 = d2  k1 = k1  k2 = k2
    v1 = v1  v2 = v2  a1 = a1  a2 = a2  x1 = x1  x2 = x2
    Requests = {r1}
    Digests = {d1}
    Tokens = {k1, k2}
    Decisions = {v1, v2}
    Attempts = {a1, a2}
    Receipts = {x1}
    Links <- Mixed
    MaxTime = 1
    ClockMayStepBack = FALSE
CONSTRAINT SecondPassesEarly
SYMMETRY IdentifierSymmetry
INVARIANTS TypeOK LifecyclesCoherent OneAttemptPerAuthority
PROPERTIES AuthorityIsSpentOnce TerminalRowsFrozen
CHECK_DEADLOCK FALSE
