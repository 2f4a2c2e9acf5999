CONSTANTS
  a = a  b = b  b8443 = b8443
  hostA = hostA  hostB = hostB
  leaf = leaf  ca = ca
  p1 = p1  p2 = p2
  None = None
  Target = {a, b, b8443}
  Host = {hostA, hostB}
  Key = {"protocol", "certificate"}
  Cert = {leaf, ca}
  Path = {p1, p2}
  HostOf <- MCHostOf
  Evaluations <- MCEvaluations
  CertsOf <- MCCertsOf
  Configurations <- MCConfigurations
  Options <- MCOptions
  MaxScan = 3
SPECIFICATION Spec
INVARIANTS TypeOK OwnResults SteadyKept AloneSame DiskFirst ReportFirst
  SavedMeansReports
CONSTRAINT UploadEnds
CHECK_DEADLOCK FALSE
