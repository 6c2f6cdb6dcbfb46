SPECIFICATION Spec
CONSTANTS
    MaxConns = 3
    MaxSessions = 3
    MaxEvents = 2
    MaxFaults = 2
INVARIANTS OneConnection
PROPERTIES SessionKept StreamSpec Recovers
CHECK_DEADLOCK FALSE
