CONSTANTS
    NumRows = 2
    Relay = {w1, w2}
    Token = {1, 2, 3, 4, 5}
    NoToken = NoToken
    BatchSize = 2
    MaxAttempts = 2
SPECIFICATION Spec
CHECK_DEADLOCK FALSE
SYMMETRY Symmetry
INVARIANTS TypeOK NeverLost
PROPERTIES AtLeastOnce
