CONSTANTS
    Proc = {p1, p2}
    Item = {}
    Closing = {"deny"}
    Clock = {2}
SPECIFICATION Spec
SYMMETRY Symmetry
INVARIANTS TypeOK LedgerAgrees SettledMeansDone AckedMeansConcluded
PROPERTIES LedgerFinal
CHECK_DEADLOCK FALSE
