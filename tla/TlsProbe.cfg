CONSTANTS
  Client = {3, 4, 5, 6}
  Endings = {"alert", "close"}
  MaxFailures = 3
SPECIFICATION ProbeSpec
INVARIANTS TypeOK Consistent Complete
CHECK_DEADLOCK FALSE
