CONSTANTS
    Msg = {m1}
    Copy = {c1, c2}
    Handler = {h1}
    Sender = {s1}
    Nobody = Nobody
    MaxDeaths = 1
    MaxAttempts = 2
    MaxSends = 2
SPECIFICATION FairSpec
PROPERTIES EventuallyTold
CHECK_DEADLOCK FALSE
