CONSTANTS
    NumRows = 2
    Relay = {w1}
    Token = {1, 2, 3, 4}
    NoToken = NoToken
    BatchSize = 2
    MaxAttempts = 2
SPECIFICATION FairSpec
CHECK_DEADLOCK FALSE
PROPERTIES EventuallySettled
