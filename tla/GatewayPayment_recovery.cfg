CONSTANTS
    Proc = {p1}
    Item = {i1}
    Closing = {"deny", "expire"}
    Clock = {2}
SPECIFICATION FairSpec
PROPERTIES Recovered
CHECK_DEADLOCK FALSE
