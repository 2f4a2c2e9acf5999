CONSTANTS
  p1 = p1
  p2 = p2
  a = a
  b = b
  Process = {p1, p2}
  Target = {a}
  CacheKey <- MCCacheKey
  MaxAttempt = 2
  Disjoint = FALSE
SPECIFICATION Spec
SYMMETRY ProcessSymmetry
INVARIANTS ReportWhole FilesCoherent ScansCoherent
