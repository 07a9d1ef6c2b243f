CONSTANTS
    Msg = {m1}
    Copy = {c1, c2}
    Handler = {h1, h2}
    Sender = {s1, s2}
    Nobody = Nobody
    MaxDeaths = 1
    MaxAttempts = 2
    MaxSends = 2
SPECIFICATION Spec
SYMMETRY Symmetry
INVARIANTS TypeOK NeverLost SentOnce
PROPERTIES ExactlyOnce
CHECK_DEADLOCK FALSE
