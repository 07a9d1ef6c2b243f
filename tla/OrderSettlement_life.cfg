CONSTANTS
    Proc = {p1, p2}
    Free = Free
    outletItem = outletItem
    legacyItem = legacyItem
    Item <- Items
    OutletItem = {outletItem}
    Qty <- OneEach
    Stock0 <- TwoEach
SPECIFICATION FairSpec
INVARIANTS TypeOK StockConserved CancelledHoldsNothing EventsExactlyOnce UnpaidOrderIsDead NoDeadlyEmbrace
PROPERTIES Serializable EventuallyDecided HoldsEnd
CHECK_DEADLOCK FALSE
