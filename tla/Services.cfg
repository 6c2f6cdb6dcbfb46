SPECIFICATION Spec
CONSTANTS
    Pages = {p1, p2}
    Capacity = 1
    MaxEntries = 2
    Members = {ann}
    MaxBans = 3
    MaxGuild = 3
    Limit = 1
    Callers = {c1, c2}
    u1 = u1
    u2 = u2
    k1 = k1
    k2 = k2
    k3 = k3
    Makers = {m1, m2, m3}
    Remote = {m3}
    Urls = {u1, u2}
    Keys = {k1, k2, k3}
    HashedKey <- MCHashedKey
    NoUrl = NoUrl
    MaxLinks = 3
    Requests = {q1, q2}
    Contents = {f1}
    MaxRequests = 1
    Interval = 1
    MaxTime = 3
    MaxUploads = 3
    Apps = {a1, a2}
    Events = {e1}
    MaxJoins = 3
INVARIANTS EntriesInOrder  LinksLead Limited WholeLinks EveryoneTold
PROPERTIES PagesForgotten BanEnds
CHECK_DEADLOCK FALSE
