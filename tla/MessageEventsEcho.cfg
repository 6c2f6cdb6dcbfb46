SPECIFICATION Spec
CONSTANTS
    m1 = m1
    m2 = m2
    m3 = m3
    ann = ann
    bob = bob
    hall = hall
    dm = dm
    NoKey = NoKey
    Messages = {m1, m2, m3}
    DMs = {dm}
    Author <- MCAuthor
    Chat <- MCChat
    Modes <- MCDefault
    HashIdValue = TRUE
    NamesUser = FALSE
    TwoWayEcho = TRUE
    MaxS = 3
    MaxRestarts = 1
INVARIANT AnswersArrive
CHECK_DEADLOCK FALSE
