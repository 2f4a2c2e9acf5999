CONSTANTS
  p1 = p1
  p2 = p2
  a = a
  b = b
  Process = {p1, p2}
  Target = {a, b}
  CacheKey <- MCCacheKey
  MaxAttempt = 2
  Disjoint = TRUE
SPECIFICATION Spec
SYMMETRY ProcessSymmetry
INVARIANTS TypeOK NewestLast NoLostCheckpoint NothingLeftBehind
