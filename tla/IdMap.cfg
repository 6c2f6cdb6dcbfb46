SPECIFICATION MCSpec
CONSTANTS
    ann = ann
    bob = bob
    cat = cat
    dan = dan
    NoRow = NoRow
    NoId = NoId
    Handlers = {h1, h2}
    Known = {ann, cat}
    Notes = {v1, v2}
    MaxCalls = 3
    Ids = {ann, cat}
    Pairs <- MCCollidingPairs
    Rows <- MCRows
    CounterRows <- MCCounterRows
    BindRows <- MCBindRows
    HashIdValue = FALSE
    Hash9 <- MCHash9
    Hash10 <- MCHash10
INVARIANTS RoundTrip PairResolves NumbersAgree NotesKept
PROPERTIES RowKeepsOwner NamesSpec
CHECK_DEADLOCK FALSE
