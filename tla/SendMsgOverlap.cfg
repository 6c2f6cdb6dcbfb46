SPECIFICATION Spec
CONSTANTS
    g = g
    h = h
    u = u
    e = e
    both = both
    group = group
    private = private
    again = again
    NoKey = NoKey
    Keys = {g, h, u, e}
    Actions = {both, again}
    Request <- MCRequest
    HasGuildId = {g}
    Overlap = TRUE
INVARIANTS WithinTheList
CHECK_DEADLOCK FALSE
