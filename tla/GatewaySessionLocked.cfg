SPECIFICATION Spec
CONSTANTS
    MaxConns = 3
    MaxSessions = 1
    MaxEvents = 3
    MaxFaults = 1
PROPERTIES RequestObeyed
CHECK_DEADLOCK FALSE
