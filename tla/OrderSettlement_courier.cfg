CONSTANTS
    Proc = {p1}
    Free = Free
    outletItem = outletItem
    legacyItem = legacyItem
    Item <- Items
    OutletItem = {outletItem}
    Qty <- OneEach
    Stock0 <- TwoEach
SPECIFICATION Spec
INVARIANTS CancelledIsRestocked
CHECK_DEADLOCK FALSE
