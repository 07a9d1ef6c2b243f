----------------------------- MODULE StockBook -----------------------------
(***************************************************************************)
(* What the inventory promises to the orders that share its rows: every        *)
(* transaction takes effect at once.  A checkout reserves all its products, each *)
(* on a row that has a unit free at that moment, or none; a settlement, a         *)
(* release or an expiry pays or gives back what it finds; a transfer moves a unit  *)
(* that nobody holds.                                                        *)
(***************************************************************************)
EXTENDS Integers, FiniteSets

CONSTANTS
    Product, Outlet, Shop,
    Order, Cart,            \* [Order -> the products ordered]
    Transfer, Move,         \* [Transfer -> product, from and to]
    Counted, Counts,        \* the rows and numbers an admin may enter
    Migrated,               \* the outlet rows there may be at the start
    Stock0,
    Nobody

VARIABLES
    present,    \* the stock rows there are
    stock,      \* [Row -> Int]
    reserved,   \* [OutletRow -> Int]
    status,     \* [Reservation -> ReservationStatus, or "none"]
    via,        \* [Reservation -> the row it was made on]
    outlet      \* [Order -> the outlet it was placed at]

vars == <<present, stock, reserved, status, via, outlet>>

OutletRow   == Product \X Outlet
Row         == Product \X (Outlet \cup {Shop})
Reservation == Order \X Product

Init ==
    /\ \E migrated \in Migrated : present = migrated \cup (Product \X {Shop})
    /\ stock = [r \in Row |-> IF r \in present THEN Stock0 ELSE 0]
    /\ reserved = [r \in OutletRow |-> 0]
    /\ status = [x \in Reservation |-> "none"]
    /\ via = [x \in Reservation |-> Nobody]
    /\ outlet = [o \in Order |-> Nobody]

(* The units of a row that nobody holds: an outlet's row counts its holds. *)
HeldAtShop(r) == Cardinality({x \in Reservation : status[x] = "RESERVED" /\ via[x] = r})

Free(r) == stock[r] - IF r \in OutletRow THEN reserved[r] ELSE HeldAtShop(r)

(* at assigns the row it uses to each product of a transaction. *)
Uses(at, r) == r[1] \in DOMAIN at /\ at[r[1]] = r

One(used) == IF used THEN 1 ELSE 0

Become(o, at, outcome) ==
    status' = [x \in Reservation |-> IF x[1] = o /\ x[2] \in DOMAIN at THEN outcome ELSE status[x]]

Reserve(o, l, at) ==
    /\ \A p \in Product : status[<<o, p>>] = "none"
    /\ \A p \in Cart[o] : /\ at[p] \in {<<p, l>>, <<p, Shop>>} \cap present
                          /\ Free(at[p]) >= 1
    /\ Become(o, at, "RESERVED")
    /\ via' = [x \in Reservation |-> IF x[1] = o /\ x[2] \in Cart[o] THEN at[x[2]] ELSE via[x]]
    /\ reserved' = [r \in OutletRow |-> reserved[r] + One(Uses(at, r))]
    /\ outlet' = [outlet EXCEPT ![o] = l]
    /\ UNCHANGED <<present, stock>>

(* A hold ends on the row it was made on; one made at the shop, perhaps on the row *)
(* its outlet was given since.                                                   *)
Answers(o, at) ==
    \A p \in DOMAIN at : at[p] \in {via[<<o, p>>], <<p, outlet[o]>>} \cap present

Held(o, p)  == status[<<o, p>>] = "RESERVED"
Sold(o, p)  == status[<<o, p>>] = "COMMITTED"

EndHolds(o, at) ==
    reserved' = [r \in OutletRow |-> reserved[r] - One(Uses(at, r) /\ Held(o, r[1]))]

(* commitForOrder *)
Pay(o, at) ==
    /\ DOMAIN at = {p \in Product : Held(o, p)}
    /\ Answers(o, at)
    /\ Become(o, at, "COMMITTED")
    /\ EndHolds(o, at)
    /\ stock' = [r \in Row |-> stock[r] - One(Uses(at, r))]
    /\ UNCHANGED <<present, via, outlet>>

(* releaseForOrder *)
GiveBack(o, at) ==
    /\ DOMAIN at = {p \in Product : Held(o, p) \/ Sold(o, p)}
    /\ Answers(o, at)
    /\ Become(o, at, "RELEASED")
    /\ EndHolds(o, at)
    /\ stock' = [r \in Row |-> stock[r] + One(Uses(at, r) /\ Sold(o, r[1]))]
    /\ UNCHANGED <<present, via, outlet>>

(* expireReservation *)
Lapse(o, at) ==
    /\ \E p \in Product : Held(o, p) /\ DOMAIN at = {p}
    /\ Answers(o, at)
    /\ Become(o, at, "EXPIRED")
    /\ EndHolds(o, at)
    /\ UNCHANGED <<present, stock, via, outlet>>

(* adjustStock *)
Count(r, n) ==
    /\ present' = present \cup {r}
    /\ stock' = [stock EXCEPT ![r] = n]
    /\ UNCHANGED <<reserved, status, via, outlet>>

(* completeTransfer *)
Ship(t) ==
    LET from == <<Move[t].product, Move[t].from>>
        to   == <<Move[t].product, Move[t].to>>
    IN  /\ from \in present
        /\ Free(from) >= 1
        /\ present' = present \cup {to}
        /\ stock' = [stock EXCEPT ![from] = @ - 1, ![to] = @ + 1]
        /\ UNCHANGED <<reserved, status, via, outlet>>

Assignments(P) == {at \in [P -> Row] : \A p \in P : at[p][1] = p}

Next ==
    \/ \E o \in Order : \/ \E l \in Outlet, at \in Assignments(Cart[o]) : Reserve(o, l, at)
                        \/ \E P \in SUBSET Product : \E at \in Assignments(P) :
                               Pay(o, at) \/ GiveBack(o, at) \/ Lapse(o, at)
    \/ \E r \in Counted, n \in Counts : Count(r, n)
    \/ \E t \in Transfer : Ship(t)

Spec == Init /\ [][Next]_vars

=============================================================================
