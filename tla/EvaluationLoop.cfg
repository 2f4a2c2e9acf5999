CONSTANTS
  Groups <- MCGroups
  NumCerts = 2
  Outcomes <- MCOutcomes
SPECIFICATION Spec
INVARIANTS OwnResult CompleteInOrder
CHECK_DEADLOCK FALSE
