SPECIFICATION Spec
CONSTANTS
    Callers = {ann, bob}
    Buckets = {text, react}
    Custom = {react}
    Limit = 2
    Window = 2
    GlobalWindow = 1
    CustomReset = 1
    MaxRestRetries = 1
    MaxFaults = 1
INVARIANTS NeverRefused ReactionsSpaced
PROPERTY Returns
CHECK_DEADLOCK FALSE
