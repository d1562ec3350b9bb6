SPECIFICATION Spec
CONSTANTS
  p1 = p1
  p2 = p2
  r1 = r1
  k1 = k1
  k2 = k2
  n1 = n1
  n2 = n2
  Procs = {p1, p2}
  Requests = {r1}
  Names = {n1, n2}
  Values = {k1, k2}
  None = None
  MaxCrashes = 1
  MaxLosses = 1
  MaxRotations = 1
  MaxBackups = 1
SYMMETRY Sym
CHECK_DEADLOCK FALSE
INVARIANTS ServiceTypeOK BoundSetIsOneState BackupIsOneCut AnswersStay
