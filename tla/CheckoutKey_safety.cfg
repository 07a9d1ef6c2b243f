CONSTANTS
    r1 = r1
    r2 = r2
    r3 = r3
    other = other
    None = None
    Request <- Requests
    Fingerprint <- Fingerprints
    FP <- Prints
SPECIFICATION Spec
SYMMETRY Symmetry
INVARIANTS TypeOK AtMostOneOrder CompletedIffPlaced
PROPERTIES Idempotent
CHECK_DEADLOCK FALSE
