SPECIFICATION FairSpec
CONSTANTS
    b1 = b1
    h1 = h1
    Broadcasts = {b1}
    Beats = {h1}
    LastGen = 2
    MaxRetryAttempts = 1
    FailuresCap = 1
INVARIANTS  OneLink
  
CHECK_DEADLOCK FALSE
