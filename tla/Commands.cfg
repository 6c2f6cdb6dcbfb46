SPECIFICATION FCSpec
CONSTANTS
    ann = ann
    bob = bob
    hall = hall
    e1 = e1
    e2 = e2
    aa = aa
    NoRow = NoRow
    NoId = NoId
    Ids = {ann, bob, hall}
    Pairs <- MCPairs
    Rows <- MCRows
    CounterRows <- MCNoRows
    BindRows <- MCBindRows
    HashIdValue = TRUE
    Hash9 <- MCHash9
    Hash10 <- MCHash10
    Codes = {aa}
    Events = {e1, e2}
    Requests <- MCRequests
    Masters <- MCMasters
    IdmapPro = TRUE
    Lotuses = {TRUE, FALSE}
SYMMETRY MCSymmetry
INVARIANTS  CodesPaid
CHECK_DEADLOCK FALSE
