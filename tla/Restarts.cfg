SPECIFICATION MCSpec
CONSTANTS
    m1 = m1
    m2 = m2
    m3 = m3
    ann = ann
    bob = bob
    hall = hall
    dm = dm
    NoKey = NoKey
    Messages = {m1, m2}
    DMs = {dm}
    Author <- MCAuthor
    Chat <- MCChat
    Modes <- MCModes
    HashIdValue = TRUE
    NamesUser = FALSE
    TwoWayEcho = FALSE
    MaxS = 3
    MaxRestarts = 1
    Template <- MCTemplate
    UserFiles <- MCUserFiles
    Dirs <- MCDirs
    Root = "root"
    Procs = {g1, g2}
    Changes = {w1}
    MaxFaults = 1
INVARIANTS AnswersArrive FilesSound
PROPERTY Settles
CHECK_DEADLOCK FALSE
