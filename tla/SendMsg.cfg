SPECIFICATION FairSpec
CONSTANTS
    g = g
    h = h
    u = u
    e = e
    both = both
    group = group
    private = private
    again = again
    NoKey = NoKey
    Keys = {g, h, u, e}
    Actions = {both, group, private}
    Request <- MCRequest
    HasGuildId = {g}
    Overlap = FALSE
INVARIANTS SentOnce EveryWayTried NothingLeft
PROPERTIES Returns
CHECK_DEADLOCK FALSE
