CONSTANTS
    Proc = {p1, p2}
    Courier = {paxel, jne}
    ByHand = {}
    Slotted = {paxel}
    Polled = {paxel}
    MaxParcels = 2
    MaxSaid = 2
    Vocabulary = {"IN_TRANSIT", "CANCELLED"}
SPECIFICATION FairSpec
INVARIANTS TypeOK BookedOnceUndisturbed ToldOnce
PROPERTIES ForwardOnly EventuallyAttempted EventuallyTracked
CHECK_DEADLOCK FALSE
