----------------------------- MODULE Inventory -----------------------------
(***************************************************************************)
(* The stock that orders share: the rows of ProductInventory (a product at an *)
(* outlet) and of Product (the shop's stock before outlets had their own), the *)
(* reservations of several orders on them, and the admins who count stock and  *)
(* move it between outlets (backend/src/modules/inventory).                   *)
(*                                                                         *)
(* reserveForOrder, commitForOrder, releaseForOrder, expireReservation and   *)
(* completeTransfer are PostgreSQL transactions at READ COMMITTED: a statement *)
(* that locks a row waits for it, is evaluated on its committed value and      *)
(* keeps it; what the transaction wrote is seen when it commits.  The          *)
(* transactions that fight over one order are OrderSettlement's: here an order *)
(* has one at a time, and every cart line is of one unit.                     *)
(***************************************************************************)
EXTENDS Integers, FiniteSets

CONSTANTS
    Products,       \* how many products there are, numbered in the order of productId
    Outlet,         \* the active outlets
    Shop,           \* where the stock of Product.stock lies
    Order,
    Cart,           \* [Order -> the products ordered]
    Transfer,
    Move,           \* [Transfer -> product, from and to]
    Admin,
    Nobody,
    Migrated,       \* the rows ProductInventory may start with, a set of sets
    Stock0,         \* units in each row at the start
    Counted,        \* bound: the outlet rows an admin may enter a stock for
    Counts          \* bound: the numbers an admin may enter

Product     == 1 .. Products
Place       == Outlet \cup {Shop}
Row         == Product \X Place
OutletRow   == Product \X Outlet
Reservation == Order \X Product
Actor       == Order \cup Admin

ASSUME ConstantsAssumption ==
    /\ Products \in Nat
    /\ Shop \notin Outlet
    /\ Order \cap Admin = {}
    /\ Nobody \notin Order \cup Admin \cup Place \cup Row
    /\ Cart \in [Order -> SUBSET Product]
    /\ Move \in [Transfer -> [product : Product, from : Outlet, to : Outlet]]
    /\ \A t \in Transfer : Move[t].from # Move[t].to
    /\ Migrated \subseteq SUBSET OutletRow
    /\ Stock0 \in Nat
    /\ Counted \subseteq OutletRow
    /\ Counts \subseteq Nat
    /\ IsFiniteSet(Order)

VARIABLES
    \* committed rows
    present,    \* the stock rows there are
    stock,      \* [Row -> Int]
    reserved,   \* [OutletRow -> Int]
    status,     \* [Reservation -> ReservationStatus, or "none"]
    moving,     \* [Transfer -> StockTransferStatus]
    \* row locks
    rowLock, resLock, moveLock,
    \* the transaction of each order
    op,         \* [Order -> what it does]
    outlet,     \* [Order -> the outlet it was allocated]
    todo,       \* [Order -> SUBSET Product], still to reserve, commit or release
    row,        \* [Order -> the row it found for the product it works on]
    used,       \* [Order -> [Product -> the row it has locked for it]]
    \* the request of each admin
    work, on,
    \* history
    via,        \* [Reservation -> the row it was reserved on]
    skewed,     \* outlet rows that paid for a reservation made elsewhere
    lowered,    \* rows an admin counted below what was promised
    moved       \* [Transfer -> Nat], times its stock was moved

rows    == <<present, stock, reserved, status, moving>>
locks   == <<rowLock, resLock, moveLock>>
orders  == <<op, outlet, todo, row, used>>
admins  == <<work, on>>
history == <<via, skewed, lowered, moved>>
vars    == <<rows, locks, orders, admins, history>>

Unused == [p \in Product |-> Nobody]

TypeOK ==
    /\ present \in SUBSET Row
    /\ stock \in [Row -> Int]
    /\ reserved \in [OutletRow -> Int]
    /\ \A r \in Row \ present : stock[r] = 0
    /\ \A r \in OutletRow \ present : reserved[r] = 0
    /\ status \in [Reservation -> {"none", "RESERVED", "COMMITTED", "RELEASED", "EXPIRED"}]
    /\ moving \in [Transfer -> {"REQUESTED", "APPROVED", "COMPLETED"}]
    /\ rowLock \in [Row -> Actor \cup {Nobody}]
    /\ resLock \in [Reservation -> Order \cup {Nobody}]
    /\ moveLock \in [Transfer -> Admin \cup {Nobody}]
    /\ op \in [Order -> {"idle", "reserve", "commit", "release", "expire"}]
    /\ outlet \in [Order -> Outlet \cup {Nobody}]
    /\ todo \in [Order -> SUBSET Product]
    /\ row \in [Order -> Row \cup {Nobody}]
    /\ used \in [Order -> [Product -> Row \cup {Nobody}]]
    /\ work \in [Admin -> {"idle", "approve", "complete", "source", "target"}]
    /\ on \in [Admin -> Transfer \cup {Nobody}]
    /\ via \in [Reservation -> Row \cup {Nobody}]
    /\ skewed \in SUBSET Row
    /\ lowered \in SUBSET Row
    /\ moved \in [Transfer -> Nat]

(* Nothing is ordered yet, the transfers have just been requested. *)
Init ==
    /\ \E migrated \in Migrated : present = migrated \cup (Product \X {Shop})
    /\ stock = [r \in Row |-> IF r \in present THEN Stock0 ELSE 0]
    /\ reserved = [r \in OutletRow |-> 0]
    /\ status = [x \in Reservation |-> "none"]
    /\ moving = [t \in Transfer |-> "REQUESTED"]
    /\ rowLock = [r \in Row |-> Nobody]
    /\ resLock = [x \in Reservation |-> Nobody]
    /\ moveLock = [t \in Transfer |-> Nobody]
    /\ op = [o \in Order |-> "idle"]
    /\ outlet = [o \in Order |-> Nobody]
    /\ todo = [o \in Order |-> {}]
    /\ row = [o \in Order |-> Nobody]
    /\ used = [o \in Order |-> Unused]
    /\ work = [a \in Admin |-> "idle"]
    /\ on = [a \in Admin |-> Nobody]
    /\ via = [x \in Reservation |-> Nobody]
    /\ skewed = {}
    /\ lowered = {}
    /\ moved = [t \in Transfer |-> 0]

-----------------------------------------------------------------------------
(* The rows *)

(* The outlet's row for the product if there is one, else the product's own. *)
RowFor(p, l) == IF <<p, l>> \in present THEN <<p, l>> ELSE <<p, Shop>>

Available(r) == stock[r] - reserved[r]

Reserved(p) == {x \in Reservation : x[2] = p /\ status[x] = "RESERVED"}

(* What is promised from a row. *)
Promised(r) == Cardinality({x \in Reservation : status[x] = "RESERVED" /\ via[x] = r})

Released(lock, a) == [k \in DOMAIN lock |-> IF lock[k] = a THEN Nobody ELSE lock[k]]

-----------------------------------------------------------------------------
(* Transactions of an order *)

Begins(o, what, products) ==
    /\ op[o] = "idle"
    /\ op' = [op EXCEPT ![o] = what]
    /\ todo' = [todo EXCEPT ![o] = products]
    /\ UNCHANGED <<rows, locks, row, used, admins, history>>

Ends(o) ==
    /\ op' = [op EXCEPT ![o] = "idle"]
    /\ todo' = [todo EXCEPT ![o] = {}]
    /\ row' = [row EXCEPT ![o] = Nobody]
    /\ used' = [used EXCEPT ![o] = Unused]
    /\ rowLock' = Released(rowLock, o)
    /\ resLock' = Released(resLock, o)
    /\ UNCHANGED moveLock

(* Too little stock, an error, a lost process, or the victim of a deadlock. *)
Rollback(o) ==
    /\ op[o] # "idle"
    /\ Ends(o)
    /\ outlet' = IF op[o] = "reserve" THEN [outlet EXCEPT ![o] = Nobody] ELSE outlet
    /\ UNCHANGED <<rows, admins, history>>

(* allocate: an outlet that has every product available, or any active outlet    *)
(* while ProductInventory knows none of them; then the checkout's transaction.    *)
Allocated(o, l) ==
    \/ \A p \in Cart[o] : <<p, l>> \in present /\ Available(<<p, l>>) >= 1
    \/ Cart[o] \X Outlet \cap present = {}

Checkout(o, l) ==
    /\ \A p \in Product : status[<<o, p>>] = "none"
    /\ Allocated(o, l)
    /\ outlet' = [outlet EXCEPT ![o] = l]
    /\ Begins(o, "reserve", Cart[o])

(* Mutant: the products are reserved in the order of the cart. *)
InTurnAny(o) == todo[o]

(* ascending productId *)
InTurn(o) == {p \in todo[o] : \A q \in todo[o] : p <= q}

FindRow(o, p) ==
    /\ op[o] = "reserve" /\ row[o] = Nobody
    /\ p \in InTurn(o)
    /\ row' = [row EXCEPT ![o] = RowFor(p, outlet[o])]
    /\ UNCHANGED <<rows, locks, op, outlet, todo, used, admins, history>>

Takes(o, r) ==
    /\ used' = [used EXCEPT ![o][r[1]] = r]
    /\ todo' = [todo EXCEPT ![o] = @ \ {r[1]}]
    /\ row' = [row EXCEPT ![o] = Nobody]

(* Mutant: the row is read without FOR UPDATE, and what was read is written back. *)
ReserveAtOutletUnlocked(o) ==
    LET r == row[o]
    IN  /\ op[o] = "reserve" /\ r \in OutletRow
        /\ Available(r) >= 1
        /\ Takes(o, r)
        /\ UNCHANGED <<rows, resLock, rowLock, moveLock, op, outlet, admins, history>>

(* SELECT ... FOR UPDATE on the outlet's row, and enough of it. *)
ReserveAtOutlet(o) ==
    LET r == row[o]
    IN  /\ op[o] = "reserve" /\ r \in OutletRow
        /\ rowLock[r] = Nobody
        /\ Available(r) >= 1
        /\ rowLock' = [rowLock EXCEPT ![r] = o]
        /\ Takes(o, r)
        /\ UNCHANGED <<rows, resLock, moveLock, op, outlet, admins, history>>

LockProduct(o) ==
    LET r == row[o]
    IN  /\ op[o] = "reserve" /\ r \in Row \ OutletRow
        /\ rowLock[r] = Nobody
        /\ rowLock' = [rowLock EXCEPT ![r] = o]
        /\ UNCHANGED <<rows, resLock, moveLock, orders, admins, history>>

(* BF-017: the product's RESERVED reservations are read FOR UPDATE. *)
ReserveAtShop(o) ==
    LET r    == row[o]
        held == Reserved(r[1])
    IN  /\ op[o] = "reserve" /\ r \in Row \ OutletRow
        /\ rowLock[r] = o
        /\ \A x \in held : resLock[x] \in {Nobody, o}
        /\ stock[r] - Cardinality(held) >= 1
        /\ resLock' = [x \in Reservation |-> IF x \in held THEN o ELSE resLock[x]]
        /\ Takes(o, r)
        /\ UNCHANGED <<rows, rowLock, moveLock, op, outlet, admins, history>>

(* commitForOrder and releaseForOrder find the order's reservations, in no order. *)
Settle(o) ==
    LET found == {p \in Product : status[<<o, p>>] = "RESERVED"}
    IN  found # {} /\ Begins(o, "commit", found) /\ UNCHANGED outlet

Release(o) ==
    LET found == {p \in Product : status[<<o, p>>] \in {"RESERVED", "COMMITTED"}}
    IN  found # {} /\ Begins(o, "release", found) /\ UNCHANGED outlet

Expire(o, p) ==
    status[<<o, p>>] = "RESERVED" /\ Begins(o, "expire", {p}) /\ UNCHANGED outlet

(* The CAS on the reservation, then lockedPiFor's look for the outlet's row.      *)
(* Giving back a hold on the shop touches no stock row.                          *)
ClaimReservation(o, p) ==
    LET x == <<o, p>>
        r == RowFor(p, outlet[o])
    IN  /\ op[o] \in {"commit", "release", "expire"}
        /\ p \in todo[o] /\ row[o] = Nobody
        /\ resLock[x] = Nobody
        /\ resLock' = [resLock EXCEPT ![x] = o]
        /\ IF r[2] = Shop /\ op[o] # "commit" /\ status[x] = "RESERVED"
           THEN todo' = [todo EXCEPT ![o] = @ \ {p}] /\ UNCHANGED row
           ELSE row' = [row EXCEPT ![o] = r] /\ UNCHANGED todo
        /\ UNCHANGED <<rows, rowLock, moveLock, op, outlet, used, admins, history>>

LockRow(o) ==
    LET r == row[o]
    IN  /\ op[o] \in {"commit", "release", "expire"} /\ r # Nobody
        /\ rowLock[r] = Nobody
        /\ rowLock' = [rowLock EXCEPT ![r] = o]
        /\ Takes(o, r)
        /\ UNCHANGED <<rows, resLock, moveLock, op, outlet, admins, history>>

Outcome(o) ==
    CASE op[o] = "reserve" -> "RESERVED"
      [] op[o] = "commit"  -> "COMMITTED"
      [] op[o] = "release" -> "RELEASED"
      [] OTHER             -> "EXPIRED"

(* The reservations a transaction created or won. *)
Won(o) == {x \in {o} \X Product : IF op[o] = "reserve" THEN used[o][x[2]] # Nobody ELSE resLock[x] = o}

(* The row r as left by the transaction that used it for its product's reservation. *)
Uses(o, r) == used[o][r[1]] = r

StockAfter(o, r) ==
    CASE Uses(o, r) /\ op[o] = "commit"                          -> stock[r] - 1
      [] Uses(o, r) /\ status[<<o, r[1]>>] = "COMMITTED"         -> stock[r] + 1
      [] OTHER                                                   -> stock[r]

(* Mutant: an expiry leaves the outlet's hold. *)
ReservedAfterExpiry(o, r) ==
    CASE Uses(o, r) /\ op[o] = "reserve"                         -> reserved[r] + 1
      [] Uses(o, r) /\ status[<<o, r[1]>>] = "RESERVED" /\ op[o] # "expire" -> reserved[r] - 1
      [] OTHER                                                   -> reserved[r]

ReservedAfter(o, r) ==
    CASE Uses(o, r) /\ op[o] = "reserve"                         -> reserved[r] + 1
      [] Uses(o, r) /\ status[<<o, r[1]>>] = "RESERVED"          -> reserved[r] - 1
      [] OTHER                                                   -> reserved[r]

Commit(o) ==
    /\ op[o] # "idle" /\ todo[o] = {}
    /\ status' = [x \in Reservation |-> IF x \in Won(o) THEN Outcome(o) ELSE status[x]]
    /\ stock' = [r \in Row |-> StockAfter(o, r)]
    /\ reserved' = [r \in OutletRow |-> ReservedAfter(o, r)]
    /\ via' = [x \in Reservation |->
                  IF x \in Won(o) /\ op[o] = "reserve" THEN used[o][x[2]] ELSE via[x]]
    /\ skewed' = skewed \cup {r \in OutletRow : /\ Uses(o, r) /\ op[o] # "reserve"
                                                /\ status[<<o, r[1]>>] = "RESERVED"
                                                /\ via[<<o, r[1]>>] # r}
    /\ Ends(o)
    /\ UNCHANGED <<present, moving, outlet, admins, lowered, moved>>

-----------------------------------------------------------------------------
(* Admins *)

(* adjustStock: an upsert that sets the number counted. *)
AdjustStock(r, n) ==
    /\ rowLock[r] = Nobody
    /\ present' = present \cup {r}
    /\ stock' = [stock EXCEPT ![r] = n]
    /\ lowered' = IF n < Promised(r) THEN lowered \cup {r} ELSE lowered \ {r}
    /\ UNCHANGED <<reserved, status, moving, locks, orders, admins, via, skewed, moved>>

AdminAt(a, step, t) == work' = [work EXCEPT ![a] = step] /\ on' = [on EXCEPT ![a] = t]

AdminEnds(a) ==
    /\ AdminAt(a, "idle", Nobody)
    /\ rowLock' = Released(rowLock, a)
    /\ moveLock' = Released(moveLock, a)
    /\ UNCHANGED resLock

ApproveReads(a, t) ==
    /\ work[a] = "idle" /\ moving[t] = "REQUESTED"
    /\ AdminAt(a, "approve", t)
    /\ UNCHANGED <<rows, locks, orders, history>>

(* The update is by id: the status is not compared again. *)
Approve(a) ==
    /\ work[a] = "approve"
    /\ moveLock[on[a]] = Nobody
    /\ moving' = [moving EXCEPT ![on[a]] = "APPROVED"]
    /\ AdminEnds(a)
    /\ UNCHANGED <<present, stock, reserved, status, orders, history>>

CompleteReads(a, t) ==
    /\ work[a] = "idle" /\ moving[t] = "APPROVED"
    /\ AdminAt(a, "complete", t)
    /\ UNCHANGED <<rows, locks, orders, history>>

(* The CAS APPROVED -> COMPLETED; it fails as an error does. *)
ClaimTransfer(a) ==
    /\ work[a] = "complete"
    /\ moveLock[on[a]] = Nobody
    /\ moving[on[a]] = "APPROVED"
    /\ moveLock' = [moveLock EXCEPT ![on[a]] = a]
    /\ AdminAt(a, "source", on[a])
    /\ UNCHANGED <<rows, rowLock, resLock, orders, history>>

From(t) == <<Move[t].product, Move[t].from>>
To(t)   == <<Move[t].product, Move[t].to>>

(* Mutant: the holds on the source are not looked at. *)
SparableAll(r) == stock[r] >= 1

Sparable(r) == Available(r) >= 1

LockSource(a) ==
    LET r == From(on[a])
    IN  /\ work[a] = "source"
        /\ r \in present /\ rowLock[r] = Nobody
        /\ Sparable(r)
        /\ rowLock' = [rowLock EXCEPT ![r] = a]
        /\ AdminAt(a, "target", on[a])
        /\ UNCHANGED <<rows, resLock, moveLock, orders, history>>

(* Mutant: a missing destination row is not created. *)
MoveStockNoRow(a) ==
    LET t == on[a]
    IN  /\ work[a] = "target"
        /\ rowLock[To(t)] = Nobody
        /\ stock' = [stock EXCEPT ![From(t)] = @ - 1, ![To(t)] = @ + 1]
        /\ moving' = [moving EXCEPT ![t] = "COMPLETED"]
        /\ moved' = [moved EXCEPT ![t] = @ + 1]
        /\ AdminEnds(a)
        /\ UNCHANGED <<present, reserved, status, orders, via, skewed, lowered>>

(* The destination is updated or created, and the transaction commits. *)
MoveStock(a) ==
    LET t == on[a]
    IN  /\ work[a] = "target"
        /\ rowLock[To(t)] = Nobody
        /\ present' = present \cup {To(t)}
        /\ stock' = [stock EXCEPT ![From(t)] = @ - 1, ![To(t)] = @ + 1]
        /\ moving' = [moving EXCEPT ![t] = "COMPLETED"]
        /\ moved' = [moved EXCEPT ![t] = @ + 1]
        /\ AdminEnds(a)
        /\ UNCHANGED <<reserved, status, orders, via, skewed, lowered>>

(* A conflict, too little stock, an error, a deadlock's victim. *)
AdminFails(a) ==
    /\ work[a] # "idle"
    /\ AdminEnds(a)
    /\ UNCHANGED <<rows, orders, history>>

-----------------------------------------------------------------------------
OrderStep(o) ==
    \/ \E l \in Outlet : Checkout(o, l)
    \/ \E p \in Product : FindRow(o, p) \/ Expire(o, p) \/ ClaimReservation(o, p)
    \/ ReserveAtOutlet(o)
    \/ LockProduct(o)
    \/ ReserveAtShop(o)
    \/ Settle(o)
    \/ Release(o)
    \/ LockRow(o)
    \/ Commit(o)
    \/ Rollback(o)

AdminStep(a) ==
    \/ \E t \in Transfer : ApproveReads(a, t) \/ CompleteReads(a, t)
    \/ Approve(a)
    \/ ClaimTransfer(a)
    \/ LockSource(a)
    \/ MoveStock(a)
    \/ AdminFails(a)

Next ==
    \/ \E o \in Order : OrderStep(o)
    \/ \E a \in Admin : AdminStep(a)
    \/ \E r \in Counted, n \in Counts : AdjustStock(r, n)

Spec == Init /\ [][Next]_vars

-----------------------------------------------------------------------------
(* The counter of an outlet's row is what the reservations on it say, whichever   *)
(* orders, admins and transfers went over it, as long as it never paid for a      *)
(* reservation made on Product.stock before the row existed.                     *)
Accounted == \A r \in OutletRow \ skewed : reserved[r] = Promised(r)

(* No row promises more than it has, checkouts, transfers and expiries racing     *)
(* for its last unit, unless an admin has counted less.                          *)
NeverOversold == \A r \in present \ (skewed \cup lowered) : Promised(r) <= stock[r]

(* Whose lock an order or an admin may be waiting for. *)
Awaits(a) ==
    IF a \in Order
    THEN CASE row[a] # Nobody /\ rowLock[row[a]] # a -> {rowLock[row[a]]}
           [] row[a] # Nobody /\ rowLock[row[a]] = a -> {resLock[x] : x \in Reserved(row[a][1])}
           [] OTHER -> IF op[a] = "reserve" THEN {} ELSE {resLock[<<a, p>>] : p \in todo[a]}
    ELSE CASE work[a] \in {"approve", "complete"} -> {moveLock[on[a]]}
           [] work[a] = "source"                  -> {rowLock[From(on[a])]}
           [] work[a] = "target"                  -> {rowLock[To(on[a])]}
           [] OTHER                               -> {}

(* Deadlocks come from commits, releases and crossing transfers alone.  Carts with the *)
(* same products in reversed order ("can never deadlock (H1)"), expiries of the holds  *)
(* they read, and a transfer never wait in a circle: in every set of them one waits    *)
(* for none of the others.                                                        *)
Orderly(D) ==
    /\ \A o \in D \cap Order : op[o] \in {"reserve", "expire"}
    /\ \A a, b \in D \cap Admin : work[a] = "target" /\ work[b] = "target" => a = b

OrderlyNeverEmbrace ==
    \A D \in SUBSET Actor :
        D # {} /\ Orderly(D) => \E a \in D : Awaits(a) \cap D \subseteq {a}

(* The transactions of several orders, admins and transfers, whose statements are *)
(* interleaved and which read the rows' places before they lock them, have the     *)
(* effect of each happening at once when it commits.                              *)
Placed(o) == \E p \in Product : status[<<o, p>>] # "none"

PlacedAt == [o \in Order |-> IF Placed(o) THEN outlet[o] ELSE Nobody]

Books == INSTANCE StockBook WITH outlet <- PlacedAt

Serializable == Books!Spec

(* What the completion's CAS gives: every move of a transfer uses up an approval of  *)
(* its own, however many admins complete it at once.                             *)
MovesAreApproved ==
    [][\A t \in Transfer : moved'[t] # moved[t] =>
            moving[t] = "APPROVED" /\ moving'[t] = "COMPLETED" /\ moved'[t] = moved[t] + 1]_vars

(* "concurrent completions of the SAME transfer can't both move stock". *)
TransferMovesOnce == \A t \in Transfer : moved[t] <= 1

-----------------------------------------------------------------------------
(* The inductive invariant behind the safety properties. *)

(* A row a transaction works on is one the order was sent to, and still there. *)
Found(o, r) == r \in present /\ r[2] \in {outlet[o], Shop}

(* What a transaction has done says what it holds. *)
Phase(o) ==
    /\ op[o] = "idle" =>
        /\ row[o] = Nobody /\ used[o] = Unused
        /\ \A r \in Row : rowLock[r] # o
        /\ \A x \in Reservation : resLock[x] # o
    /\ op[o] = "reserve" => \A p \in Product : status[<<o, p>>] = "none"
    /\ row[o] # Nobody =>
        /\ row[o][1] \in todo[o] /\ Found(o, row[o])
        /\ op[o] # "reserve" => resLock[<<o, row[o][1]>>] = o
    /\ \A p \in Product : used[o][p] # Nobody =>
        /\ used[o][p][1] = p /\ Found(o, used[o][p])
        /\ rowLock[used[o][p]] = o /\ p \notin todo[o]
        /\ op[o] # "reserve" => resLock[<<o, p>>] = o

(* What a settling transaction is still to claim, or has claimed, is as it was. *)
Claims(o) ==
    \A p \in Product :
        /\ op[o] \in {"commit", "release", "expire"} /\ (p \in todo[o] \/ resLock[<<o, p>>] = o) =>
            \/ status[<<o, p>>] = "RESERVED"
            \/ op[o] = "release" /\ status[<<o, p>>] = "COMMITTED"
        /\ resLock[<<o, p>>] = o =>
            /\ op[o] \in {"commit", "release", "expire"}
            /\ status[<<o, p>>] = "RESERVED" /\ via[<<o, p>>] \in OutletRow =>
                via[<<o, p>>] \in {used[o][p], row[o]}

(* A checkout works through its products upwards and locks nothing beyond. *)
Ascends(o) ==
    op[o] = "reserve" =>
        /\ \A p \in todo[o] : \A q \in Product : used[o][q] # Nobody => q < p
        /\ row[o] # Nobody => \A p \in todo[o] : row[o][1] <= p
        /\ \A r \in Row : rowLock[r] = o => r \in {used[o][r[1]], row[o]}
        /\ \A x \in Reservation : resLock[x] = o => used[o][x[2]] # Nobody

(* A reservation lies on a row its order was sent to. *)
Origins ==
    \A x \in Reservation : status[x] # "none" =>
        via[x] \in Row /\ via[x][1] = x[2] /\ Found(x[1], via[x])

(* Whoever has locked a row with enough of it still finds enough of it. *)
Room(r) == r \in skewed \cup lowered \/ Promised(r) + 1 <= stock[r]

Roomy ==
    /\ \A o \in Order, p \in Product : op[o] = "reserve" /\ used[o][p] # Nobody => Room(used[o][p])
    /\ \A a \in Admin : work[a] # "idle" => on[a] \in Transfer
    /\ \A a \in Admin : work[a] = "target" =>
        LET r == From(on[a]) IN r \in present /\ rowLock[r] = a /\ Room(r)

IInv ==
    /\ TypeOK
    /\ Product \X {Shop} \subseteq present
    /\ \A o \in Order : Phase(o) /\ Claims(o) /\ Ascends(o)
    /\ Origins
    /\ Roomy
    /\ Accounted
    /\ NeverOversold

(* What the locks belong to: a settling order's to its own reservations and the rows   *)
(* they are paid from, a checkout's outlet row only once it is used, an admin's to the *)
(* transfer.                                                                     *)
LocksOf(o) ==
    /\ op[o] \in {"commit", "release", "expire"} =>
        /\ \A x \in Reservation : resLock[x] = o => x[1] = o
        /\ \A r \in Row : rowLock[r] = o => used[o][r[1]] = r
    /\ op[o] = "reserve" /\ row[o] # Nobody /\ rowLock[row[o]] = o => row[o] \notin OutletRow
    /\ op[o] = "expire" /\ row[o] # Nobody => row[o] \in OutletRow

LocksOfAdmins ==
    \A a \in Admin :
        /\ \A r \in Row : rowLock[r] = a => work[a] = "target" /\ r = From(on[a])
        /\ \A t \in Transfer : moveLock[t] = a => work[a] \in {"source", "target"} /\ t = on[a]

(* A transaction has to do with exactly these products, one by one: *)
Takings(o) ==
    CASE op[o] = "reserve" -> Cart[o]
      [] op[o] = "commit"  -> {p \in Product : status[<<o, p>>] = "RESERVED"}
      [] op[o] = "release" -> {p \in Product : status[<<o, p>>] \in {"RESERVED", "COMMITTED"}}
      [] OTHER             -> {}

(* each is still to do, or it has its row, or it was held at the shop and is let go. *)
Complete(o) ==
    LET mine == {p \in Product : resLock[<<o, p>>] = o}
        done == {p \in Product : used[o][p] # Nobody}
    IN  /\ op[o] = "reserve" => todo[o] \cup done = Cart[o] /\ outlet[o] \in Outlet
        /\ op[o] \in {"commit", "release"} => todo[o] \cup mine = Takings(o)
        /\ op[o] = "expire" => \E p \in Product : todo[o] \cup mine = {p}
        /\ op[o] \in {"commit", "release", "expire"} =>
            \A p \in mine \ todo[o] :
                \/ p \in done /\ used[o][p] \in {via[<<o, p>>], <<p, outlet[o]>>}
                \/ p \notin done /\ op[o] # "commit" /\ status[<<o, p>>] = "RESERVED"
                    /\ via[<<o, p>>] = <<p, Shop>>
        /\ op[o] \in {"commit", "release", "expire"} /\ row[o] # Nobody =>
                row[o] \in {via[<<o, row[o][1]>>], <<row[o][1], outlet[o]>>}

(* What a checkout or a transfer has found free stays free under its lock. *)
Free(r) == stock[r] - IF r \in OutletRow THEN reserved[r] ELSE Promised(r)

StaysFree ==
    /\ \A o \in Order, p \in Product : op[o] = "reserve" /\ used[o][p] # Nobody => Free(used[o][p]) >= 1
    /\ \A a \in Admin : work[a] = "target" => Free(From(on[a])) >= 1

BookInv ==
    /\ \A o \in Order : LocksOf(o) /\ Complete(o)
    /\ LocksOfAdmins
    /\ StaysFree

=============================================================================
