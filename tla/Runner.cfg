CONSTANTS
  Worker = {w1, w2}
  NumTargets = 2
  MaxInterrupts = 1
  MaxDeaths = 2
  Wires = {"ok", "unpicklable", "unloadable"}
SPECIFICATION Spec
INVARIANTS TypeOK InOrderAndAccounted Accounted WaitsOnlyForLost RealRecordFirst
PROPERTIES ImplementsReport EndsUnlessLost
CHECK_DEADLOCK FALSE
