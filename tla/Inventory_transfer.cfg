CONSTANTS
    A = A
    B = B
    o1 = o1
    o2 = o2
    t1 = t1
    Shop = Shop
    Nobody = Nobody
    Products = 2
    Outlet = {A, B}
    Order = {o1, o2}
    Cart <- Carts
    Transfer = {t1}
    Move <- Moves
    Admin = {a1, a2}
    Migrated <- Migrations
    Stock0 = 2
    Counted <- CountedRows
    Counts = {0, 2}
SPECIFICATION Spec
INVARIANTS TransferMovesOnce
