CONSTANTS
    Scenarios <- MCScenarios
    MaxDepth = 1
    MaxFaults = 2
    MaxPending = 3
    NoKey = NoKey
    NoRobots = NoRobots
SPECIFICATION Spec
INVARIANTS ChainSound RobotsKept 
PROPERTY TasksEnd
CHECK_DEADLOCK FALSE
