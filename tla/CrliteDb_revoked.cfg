CONSTANTS
  ca = ca  w1 = w1  w2 = w2
  Client <- MCOneClient
  Cert <- MCCert
  Enrolled <- MCEnrolled
  Covered <- MCCovered
  Filtered <- MCFiltered
  Stashed <- MCStashed
  Reported <- MCReported
  Expired <- MCExpired
  Size <- MCSize
  MaxFilter = 2
  MaxStash = 1
  MaxReport = 2
SPECIFICATION Spec
INVARIANT RevokedReported
