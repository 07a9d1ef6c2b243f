-------------------------- MODULE InventoryProofs --------------------------
(***************************************************************************)
(* Theorems about Inventory, for any orders, carts, outlets, transfers and    *)
(* admins: IInv is inductive, and with it the counters of the outlets agree     *)
(* with the reservations and no row is oversold.                             *)
(***************************************************************************)
EXTENDS Inventory, FiniteSetTheorems, TLAPS

-----------------------------------------------------------------------------
(* Rows *)

LEMMA RowShape ==
    /\ OutletRow \subseteq Row
    /\ Nobody \notin Row
    /\ \A r \in Row : r = <<r[1], r[2]>> /\ r[1] \in Product /\ r[2] \in Place
    /\ \A r \in Row : r \notin OutletRow <=> r[2] = Shop
    /\ \A p \in Product : <<p, Shop>> \in Row /\ \A l \in Outlet : <<p, l>> \in OutletRow
    BY ConstantsAssumption DEF Row, OutletRow, Place

LEMMA RowForType ==
    ASSUME NEW p \in Product, NEW l, present \subseteq Row, Product \X {Shop} \subseteq present
    PROVE  /\ RowFor(p, l) \in present
           /\ RowFor(p, l) \in Row
           /\ RowFor(p, l)[1] = p
           /\ RowFor(p, l)[2] \in {l, Shop}
    BY DEF RowFor

(* The reservations of one product are finitely many. *)
LEMMA OfProductFinite ==
    ASSUME NEW p \in Product, NEW S, S \subseteq Order \X {p}
    PROVE  IsFiniteSet(S)
<1> DEFINE f == [o \in Order |-> <<o, p>>]
<1>1. f \in [Order -> Order \X {p}]
    OBVIOUS
<1>2. \A t \in Order \X {p} : \E s \in Order : f[s] = t
    OBVIOUS
<1>3. f \in Surjection(Order, Order \X {p})
    BY <1>1, <1>2 DEF Surjection
<1>4. IsFiniteSet(Order)
    BY ConstantsAssumption
<1>5. IsFiniteSet(Order \X {p})
    BY <1>3, <1>4, FS_Surjection
<1> QED
    BY <1>5, FS_Subset

(* What is promised from a row is at most what is reserved of its product. *)
LEMMA PromisedType ==
    ASSUME NEW r \in Row, Origins
    PROVE  /\ {x \in Reservation : status[x] = "RESERVED" /\ via[x] = r} \subseteq Reserved(r[1])
           /\ IsFiniteSet(Reserved(r[1]))
           /\ IsFiniteSet({x \in Reservation : status[x] = "RESERVED" /\ via[x] = r})
           /\ Promised(r) \in Nat
           /\ Cardinality(Reserved(r[1])) \in Nat
           /\ Promised(r) <= Cardinality(Reserved(r[1]))
<1> DEFINE P == {x \in Reservation : status[x] = "RESERVED" /\ via[x] = r}
<1>1. P \subseteq Reserved(r[1])
    BY DEF Reserved, Origins
<1>2. Reserved(r[1]) \subseteq Order \X {r[1]}
    BY DEF Reserved, Reservation
<1>3. IsFiniteSet(Reserved(r[1]))
    BY <1>2, RowShape, OfProductFinite
<1>4. IsFiniteSet(P) /\ Cardinality(P) <= Cardinality(Reserved(r[1]))
    BY <1>1, <1>3, FS_Subset
<1>5. Cardinality(P) \in Nat /\ Cardinality(Reserved(r[1])) \in Nat
    BY <1>3, <1>4, FS_CardinalityType
<1> QED
    BY <1>1, <1>3, <1>4, <1>5 DEF Promised

(* As long as no reservation changes, neither does what is promised. *)
LEMMA PromisedKept ==
    ASSUME UNCHANGED <<status, via>>, NEW r
    PROVE  Promised(r)' = Promised(r)
    BY DEF Promised

(* A row in use is there, and locked. *)
LEMMA UsedRow ==
    ASSUME NEW o \in Order, Phase(o), NEW r \in Row, Uses(o, r)
    PROVE  /\ used[o][r[1]] # Nobody /\ Found(o, r)
           /\ rowLock[r] = o /\ r[1] \notin todo[o]
           /\ op[o] # "reserve" => resLock[<<o, r[1]>>] = o
           /\ r \in present /\ op[o] # "idle"
<1> DEFINE p == r[1]
<1>1. p \in Product /\ used[o][p] = r /\ r # Nobody
    BY RowShape DEF Uses
<1>2. Unused[p] = Nobody
    BY <1>1 DEF Unused
<1> HIDE DEF p
<1> QED
    BY <1>1, <1>2 DEF Phase, Found, p

-----------------------------------------------------------------------------
(* Types *)

(* The facts about rows a step's proof needs: IInv's first conjuncts, one by one. *)
LEMMA Parts ==
    ASSUME IInv
    PROVE  /\ TypeOK /\ Origins /\ Roomy /\ Accounted /\ NeverOversold
           /\ present \subseteq Row /\ Product \X {Shop} \subseteq present
           /\ \A o \in Order : Phase(o) /\ Claims(o) /\ Ascends(o)
    BY DEF IInv, TypeOK

LEMMA OrderTypes ==
    ASSUME IInv, NEW o \in Order, OrderStep(o)
    PROVE  TypeOK'
<1> USE Parts DEF TypeOK
<1>1. ASSUME NEW l \in Outlet, Checkout(o, l) PROVE TypeOK'
    BY <1>1, ConstantsAssumption DEF Checkout, Begins, rows, locks, admins, history
<1>2. ASSUME NEW p \in Product, FindRow(o, p) PROVE TypeOK'
    BY <1>2, RowForType DEF FindRow, rows, locks, admins, history
<1>3. ASSUME NEW p \in Product, Expire(o, p) PROVE TypeOK'
    BY <1>3 DEF Expire, Begins, rows, locks, admins, history
<1>4. ASSUME NEW p \in Product, ClaimReservation(o, p) PROVE TypeOK'
  <2>1. RowFor(p, outlet[o]) \in Row
    BY RowForType
  <2>2. resLock' \in [Reservation -> Order \cup {Nobody}]
    BY <1>4 DEF ClaimReservation, Reservation
  <2>3. /\ row' \in {row, [row EXCEPT ![o] = RowFor(p, outlet[o])]}
        /\ todo' \in {todo, [todo EXCEPT ![o] = @ \ {p}]}
    BY <1>4 DEF ClaimReservation
  <2>4. UNCHANGED <<rows, rowLock, moveLock, op, outlet, used, admins, history>>
    BY <1>4 DEF ClaimReservation
  <2>5. row' \in [Order -> Row \cup {Nobody}]
    BY <2>1, <2>3
  <2>6. todo' \in [Order -> SUBSET Product]
    BY <2>3
  <2> QED
    BY <2>2, <2>4, <2>5, <2>6 DEF rows, admins, history
<1>5. CASE ReserveAtOutlet(o)
    BY <1>5, RowShape DEF ReserveAtOutlet, Takes, Actor, rows, admins, history
<1>6. CASE LockProduct(o)
    BY <1>6 DEF LockProduct, Actor, rows, orders, admins, history
<1>7. CASE ReserveAtShop(o)
    BY <1>7, RowShape DEF ReserveAtShop, Takes, rows, admins, history
<1>8. CASE Settle(o)
    BY <1>8 DEF Settle, Begins, rows, locks, admins, history
<1>9. CASE Release(o)
    BY <1>9 DEF Release, Begins, rows, locks, admins, history
<1>10. CASE LockRow(o)
    BY <1>10, RowShape DEF LockRow, Takes, Actor, rows, admins, history
<1>11. CASE Commit(o)
  <2>1. \A r \in Row : Uses(o, r) => r \in present
    BY UsedRow
  <2>2. stock' \in [Row -> Int] /\ \A r \in Row \ present : stock'[r] = 0
    BY <1>11, <2>1 DEF Commit, StockAfter
  <2>3. reserved' \in [OutletRow -> Int] /\ \A r \in OutletRow \ present : reserved'[r] = 0
    BY <1>11, <2>1, RowShape DEF Commit, ReservedAfter
  <2>4. Outcome(o) \in {"RESERVED", "COMMITTED", "RELEASED", "EXPIRED"}
    BY DEF Outcome
  <2>5. status' \in [Reservation -> {"none", "RESERVED", "COMMITTED", "RELEASED", "EXPIRED"}]
    BY <1>11, <2>4 DEF Commit
  <2>6. \A x \in Reservation : x[2] \in Product
    BY DEF Reservation
  <2>7. via' \in [Reservation -> Row \cup {Nobody}]
    BY <1>11, <2>6 DEF Commit
  <2>8. skewed' \in SUBSET Row
    BY <1>11, RowShape DEF Commit
  <2>9. /\ op' \in [Order -> {"idle", "reserve", "commit", "release", "expire"}]
        /\ todo' \in [Order -> SUBSET Product]
        /\ row' \in [Order -> Row \cup {Nobody}]
        /\ used' \in [Order -> [Product -> Row \cup {Nobody}]]
        /\ rowLock' \in [Row -> Actor \cup {Nobody}]
        /\ resLock' \in [Reservation -> Order \cup {Nobody}]
        /\ moveLock' = moveLock
    BY <1>11 DEF Commit, Ends, Released, Unused
  <2>10. UNCHANGED <<present, moving, outlet, admins, lowered, moved>>
    BY <1>11 DEF Commit
  <2> QED
    BY <2>2, <2>3, <2>5, <2>7, <2>8, <2>9, <2>10 DEF admins
<1>12. CASE Rollback(o)
    BY <1>12 DEF Rollback, Ends, Released, Unused, rows, admins, history
<1> QED
    BY <1>1, <1>2, <1>3, <1>4, <1>5, <1>6, <1>7, <1>8, <1>9, <1>10, <1>11, <1>12 DEF OrderStep

LEMMA AdminTypes ==
    ASSUME IInv, NEW a \in Admin, AdminStep(a)
    PROVE  TypeOK'
<1> USE Parts, ConstantsAssumption DEF TypeOK, AdminAt, Actor
<1>1. ASSUME NEW t \in Transfer, ApproveReads(a, t) PROVE TypeOK'
    BY <1>1 DEF ApproveReads, rows, locks, orders, history
<1>2. ASSUME NEW t \in Transfer, CompleteReads(a, t) PROVE TypeOK'
    BY <1>2 DEF CompleteReads, rows, locks, orders, history
<1>3. CASE Approve(a)
    BY <1>3 DEF Approve, AdminEnds, Released, orders, history
<1>4. CASE ClaimTransfer(a)
    BY <1>4 DEF ClaimTransfer, rows, orders, history
<1>5. CASE LockSource(a)
    BY <1>5 DEF LockSource, rows, orders, history
<1>6. CASE MoveStock(a)
  <2>1. on[a] \in Transfer
    BY <1>6 DEF MoveStock, Roomy
  <2>2. From(on[a]) \in present /\ To(on[a]) \in OutletRow
    BY <1>6, <2>1 DEF MoveStock, Roomy, To, OutletRow
  <2>3. present' \in SUBSET Row /\ stock' \in [Row -> Int]
    BY <1>6, <2>2, RowShape DEF MoveStock
  <2>4. \A r \in Row \ present' : stock'[r] = 0 /\ (r \in OutletRow => reserved[r] = 0)
    BY <1>6, <2>2, RowShape DEF MoveStock
  <2>5. moving' \in [Transfer -> {"REQUESTED", "APPROVED", "COMPLETED"}] /\ moved' \in [Transfer -> Nat]
    BY <1>6, <2>1 DEF MoveStock
  <2>6. /\ work' \in [Admin -> {"idle", "approve", "complete", "source", "target"}]
        /\ on' \in [Admin -> Transfer \cup {Nobody}]
        /\ rowLock' \in [Row -> Actor \cup {Nobody}]
        /\ moveLock' \in [Transfer -> Admin \cup {Nobody}]
        /\ resLock' = resLock
    BY <1>6 DEF MoveStock, AdminEnds, Released
  <2>7. UNCHANGED <<reserved, status, orders, via, skewed, lowered>>
    BY <1>6 DEF MoveStock
  <2> QED
    BY <2>3, <2>4, <2>5, <2>6, <2>7, RowShape DEF orders
<1>7. CASE AdminFails(a)
    BY <1>7 DEF AdminFails, AdminEnds, Released, rows, orders, history
<1> QED
    BY <1>1, <1>2, <1>3, <1>4, <1>5, <1>6, <1>7 DEF AdminStep

LEMMA AdjustTypes ==
    ASSUME IInv, NEW r \in OutletRow, NEW n \in Nat, AdjustStock(r, n)
    PROVE  TypeOK'
    BY Parts, RowShape DEF TypeOK, AdjustStock, locks, orders, admins

-----------------------------------------------------------------------------
(* What a step leaves alone *)

(* Nothing about order q has changed. *)
Untouched(q) ==
    /\ op'[q] = op[q] /\ outlet'[q] = outlet[q] /\ todo'[q] = todo[q]
    /\ row'[q] = row[q] /\ used'[q] = used[q]
    /\ \A p \in Product : status'[<<q, p>>] = status[<<q, p>>] /\ via'[<<q, p>>] = via[<<q, p>>]
    /\ \A r \in Row : rowLock'[r] = q <=> rowLock[r] = q
    /\ \A x \in Reservation : resLock'[x] = q <=> resLock[x] = q
    /\ present \subseteq present'

LEMMA UntouchedKeeps ==
    ASSUME TypeOK, NEW q \in Order, Untouched(q), Phase(q), Claims(q), Ascends(q)
    PROVE  Phase(q)' /\ Claims(q)' /\ Ascends(q)'
<1>1. \A p \in Product : used[q][p] # Nobody => used[q][p] \in Row
    BY DEF TypeOK
<1>2. Phase(q)'
  <2>1. \A r : Found(q, r) => r \in present' /\ r[2] \in {outlet'[q], Shop}
    BY DEF Found, Untouched
  <2>2. /\ op'[q] = op[q] /\ row'[q] = row[q] /\ used'[q] = used[q] /\ todo'[q] = todo[q]
        /\ \A p \in Product : status'[<<q, p>>] = status[<<q, p>>]
    BY DEF Untouched
  <2>3. \A r \in Row : rowLock[r] = q => rowLock'[r] = q
    BY DEF Untouched
  <2>4. \A p \in Product : resLock[<<q, p>>] = q => resLock'[<<q, p>>] = q
    BY DEF Untouched, Reservation
  <2> HIDE DEF Untouched
  <2>5. /\ Unused' = Unused
        /\ op'[q] = "idle" => /\ \A r \in Row : rowLock'[r] # q
                              /\ \A x \in Reservation : resLock'[x] # q
    BY DEF Unused, Untouched, Phase
  <2>6. row'[q] # Nobody =>
            /\ row'[q][1] \in todo'[q] /\ row'[q] \in present' /\ row'[q][2] \in {outlet'[q], Shop}
            /\ op'[q] # "reserve" => resLock'[<<q, row'[q][1]>>] = q
    <3>1. row[q] # Nobody => row[q][1] \in Product
      BY RowShape DEF TypeOK
    <3> QED
      BY <2>1, <2>2, <2>4, <3>1 DEF Phase
  <2>7. ASSUME NEW p \in Product, used'[q][p] # Nobody
        PROVE  /\ used'[q][p][1] = p
               /\ used'[q][p] \in present' /\ used'[q][p][2] \in {outlet'[q], Shop}
               /\ rowLock'[used'[q][p]] = q /\ p \notin todo'[q]
               /\ op'[q] # "reserve" => resLock'[<<q, p>>] = q
    BY <1>1, <2>1, <2>2, <2>3, <2>4, <2>7 DEF Phase
  <2> QED
    BY <2>2, <2>5, <2>6, <2>7 DEF Phase, Found
<1>3. Claims(q)'
    BY DEF Claims, Untouched, Reservation
<1>4. Ascends(q)'
    BY DEF Ascends, Untouched
<1> QED
    BY <1>2, <1>3, <1>4

LEMMA OthersUntouched ==
    ASSUME TypeOK, NEW o \in Order, OrderStep(o), NEW q \in Order, q # o
    PROVE  Untouched(q)
<1> USE ConstantsAssumption DEF TypeOK, Untouched
<1>1. ASSUME NEW l \in Outlet, Checkout(o, l) PROVE Untouched(q)
    BY <1>1 DEF Checkout, Begins, rows, locks, history
<1>2. ASSUME NEW p \in Product, FindRow(o, p) PROVE Untouched(q)
    BY <1>2 DEF FindRow, rows, locks, history
<1>3. ASSUME NEW p \in Product, Expire(o, p) PROVE Untouched(q)
    BY <1>3 DEF Expire, Begins, rows, locks, history
<1>4. ASSUME NEW p \in Product, ClaimReservation(o, p) PROVE Untouched(q)
  <2>1. /\ row' \in {row, [row EXCEPT ![o] = RowFor(p, outlet[o])]}
        /\ todo' \in {todo, [todo EXCEPT ![o] = @ \ {p}]}
    BY <1>4 DEF ClaimReservation
  <2>2. row'[q] = row[q] /\ todo'[q] = todo[q]
    BY <2>1
  <2>3. \A x \in Reservation : resLock'[x] = q <=> resLock[x] = q
    <3> DEFINE y == <<o, p>>
    <3>1. resLock' = [resLock EXCEPT ![y] = o] /\ resLock[y] = Nobody
      BY <1>4 DEF ClaimReservation
    <3> HIDE DEF y
    <3>2. \A x \in Reservation : resLock'[x] = IF x = y THEN o ELSE resLock[x]
      BY <3>1
    <3> QED
      BY <3>1, <3>2
  <2>4. UNCHANGED <<rows, rowLock, op, outlet, used, history>>
    BY <1>4 DEF ClaimReservation
  <2> QED
    BY <2>2, <2>3, <2>4 DEF rows, history
<1>5. CASE ReserveAtOutlet(o)
    BY <1>5 DEF ReserveAtOutlet, Takes, rows, history
<1>6. CASE LockProduct(o)
    BY <1>6 DEF LockProduct, rows, orders, history
<1>7. CASE ReserveAtShop(o)
    BY <1>7 DEF ReserveAtShop, Takes, rows, history
<1>8. CASE Settle(o)
    BY <1>8 DEF Settle, Begins, rows, locks, history
<1>9. CASE Release(o)
    BY <1>9 DEF Release, Begins, rows, locks, history
<1>10. CASE LockRow(o)
    BY <1>10 DEF LockRow, Takes, rows, history
<1>11. CASE Commit(o)
  <2>1. \A p \in Product : status'[<<q, p>>] = status[<<q, p>>] /\ via'[<<q, p>>] = via[<<q, p>>]
    BY <1>11 DEF Commit, Won, Reservation
  <2>2. /\ op'[q] = op[q] /\ outlet'[q] = outlet[q] /\ todo'[q] = todo[q]
        /\ row'[q] = row[q] /\ used'[q] = used[q] /\ present' = present
    BY <1>11 DEF Commit, Ends
  <2>3. rowLock' = Released(rowLock, o) /\ resLock' = Released(resLock, o)
    BY <1>11 DEF Commit, Ends
  <2>4. /\ \A r \in Row : rowLock'[r] = q <=> rowLock[r] = q
        /\ \A x \in Reservation : resLock'[x] = q <=> resLock[x] = q
    BY <2>3 DEF Released
  <2> QED
    BY <2>1, <2>2, <2>4
<1>12. CASE Rollback(o)
    BY <1>12 DEF Rollback, Ends, Released, rows, history
<1> QED
    BY <1>1, <1>2, <1>3, <1>4, <1>5, <1>6, <1>7, <1>8, <1>9, <1>10, <1>11, <1>12 DEF OrderStep

LEMMA AdminsTouchNoOrder ==
    ASSUME TypeOK, NEW q \in Order,
           \/ \E a \in Admin : AdminStep(a)
           \/ \E r \in Counted, n \in Counts : AdjustStock(r, n)
    PROVE  Untouched(q)
<1> USE ConstantsAssumption DEF TypeOK, Untouched
<1>1. ASSUME NEW a \in Admin, AdminStep(a) PROVE Untouched(q)
  <2>1. ASSUME NEW t \in Transfer, ApproveReads(a, t) \/ CompleteReads(a, t) PROVE Untouched(q)
    BY <2>1 DEF ApproveReads, CompleteReads, rows, locks, orders, history
  <2>2. CASE Approve(a)
    BY <2>2 DEF Approve, AdminEnds, Released, orders, history
  <2>3. CASE ClaimTransfer(a)
    BY <2>3 DEF ClaimTransfer, rows, orders, history
  <2>4. CASE LockSource(a)
    BY <2>4 DEF LockSource, rows, orders, history
  <2>5. CASE MoveStock(a)
    BY <2>5 DEF MoveStock, AdminEnds, Released, orders
  <2>6. CASE AdminFails(a)
    BY <2>6 DEF AdminFails, AdminEnds, Released, rows, orders, history
  <2> QED
    BY <1>1, <2>1, <2>2, <2>3, <2>4, <2>5, <2>6 DEF AdminStep
<1>2. ASSUME NEW r \in Counted, NEW n \in Counts, AdjustStock(r, n) PROVE Untouched(q)
    BY <1>2 DEF AdjustStock, locks, orders
<1> QED
    BY <1>1, <1>2

-----------------------------------------------------------------------------
(* A step of an order keeps its own bookkeeping *)

LEMMA BeginKeeps ==
    ASSUME IInv, NEW o \in Order,
           \/ \E l \in Outlet : Checkout(o, l)
           \/ \E p \in Product : Expire(o, p)
           \/ Settle(o) \/ Release(o)
    PROVE  Phase(o)' /\ Claims(o)' /\ Ascends(o)'
<1>1. TypeOK /\ Phase(o) /\ Claims(o)
    BY DEF IInv
<1>2. op[o] = "idle" /\ UNCHANGED <<rows, locks, row, used, via>>
    BY DEF Checkout, Expire, Settle, Release, Begins, history
<1>3. /\ row'[o] = Nobody /\ used'[o] = Unused
      /\ \A p \in Product : used'[o][p] = Nobody
      /\ \A r \in Row : rowLock'[r] # o
      /\ \A x \in Reservation : resLock'[x] # o
    BY <1>1, <1>2 DEF Phase, Unused, locks
<1>4. Unused' = Unused
    BY DEF Unused
<1>5. /\ op'[o] = "reserve" => \A p \in Product : status[<<o, p>>] = "none"
      /\ op'[o] \in {"commit", "release", "expire"} => \A p \in Product : p \in todo'[o] =>
            \/ status[<<o, p>>] = "RESERVED"
            \/ op'[o] = "release" /\ status[<<o, p>>] = "COMMITTED"
  <2> DEFINE None  == op'[o] = "reserve" /\ \A p \in Product : status[<<o, p>>] = "none"
             Due == /\ op'[o] \in {"commit", "release", "expire"}
                       /\ \A p \in Product : p \in todo'[o] =>
                            \/ status[<<o, p>>] = "RESERVED"
                            \/ op'[o] = "release" /\ status[<<o, p>>] = "COMMITTED"
  <2>1. ASSUME NEW l \in Outlet, Checkout(o, l) PROVE None
    BY <1>1, <2>1 DEF Checkout, Begins, TypeOK
  <2>2. ASSUME NEW q \in Product, Expire(o, q) PROVE Due
    BY <1>1, <2>2 DEF Expire, Begins, TypeOK
  <2>3. ASSUME Settle(o) PROVE Due
    BY <1>1, <2>3 DEF Settle, Begins, TypeOK
  <2>4. ASSUME Release(o) PROVE Due
    BY <1>1, <2>4 DEF Release, Begins, TypeOK
  <2> HIDE DEF None, Due
  <2>5. None \/ Due
    BY <2>1, <2>2, <2>3, <2>4
  <2> QED
    BY <2>5 DEF None, Due
<1>6. status' = status
    BY <1>2 DEF rows
<1>7. \A p \in Product : resLock'[<<o, p>>] # o
    BY <1>3 DEF Reservation
<1>8. Phase(o)'
    BY <1>3, <1>4, <1>5, <1>6 DEF Phase
<1>9. Claims(o)'
    BY <1>5, <1>6, <1>7 DEF Claims
<1>10. op'[o] = "reserve" => todo'[o] \subseteq Product
    BY <1>1, ConstantsAssumption DEF Checkout, Expire, Settle, Release, Begins, TypeOK
<1>11. Ascends(o)'
    BY <1>3, <1>10 DEF Ascends
<1> QED
    BY <1>8, <1>9, <1>11

LEMMA EndKeeps ==
    ASSUME IInv, NEW o \in Order, Commit(o) \/ Rollback(o)
    PROVE  Phase(o)' /\ Claims(o)' /\ Ascends(o)'
<1>1. Ends(o) /\ TypeOK
    BY DEF Commit, Rollback, IInv
<1>2. op'[o] = "idle" /\ row'[o] = Nobody /\ used'[o] = Unused /\ todo'[o] = {}
    BY <1>1 DEF Ends, TypeOK
<1>3. Unused' = Unused /\ \A p \in Product : Unused[p] = Nobody
    BY DEF Unused
<1>4. /\ \A r \in Row : rowLock'[r] # o
      /\ \A x \in Reservation : resLock'[x] # o
    BY <1>1, ConstantsAssumption DEF Ends, Released, TypeOK
<1>5. \A p \in Product : resLock'[<<o, p>>] # o
    BY <1>4 DEF Reservation
<1> QED
    BY <1>2, <1>3, <1>4, <1>5 DEF Phase, Claims, Ascends

(* What the invariant says of the row an order works on. *)
LEMMA RowAtWork ==
    ASSUME IInv, NEW o \in Order, row[o] # Nobody
    PROVE  /\ row[o] \in Row /\ row[o][1] \in todo[o] /\ row[o][1] \in Product
           /\ Found(o, row[o]) /\ op[o] # "idle"
           /\ used[o][row[o][1]] = Nobody
           /\ op[o] # "reserve" => resLock[<<o, row[o][1]>>] = o
    BY RowShape DEF IInv, TypeOK, Phase

LEMMA FindRowKeeps ==
    ASSUME IInv, NEW o \in Order, NEW p \in Product, FindRow(o, p)
    PROVE  Phase(o)' /\ Claims(o)' /\ Ascends(o)'
<1> DEFINE r == RowFor(p, outlet[o])
<1>1. TypeOK /\ Phase(o) /\ Claims(o) /\ Ascends(o)
    BY DEF IInv
<1>2. r \in present /\ r \in Row /\ r[1] = p /\ r[2] \in {outlet[o], Shop}
    BY Parts, RowForType
<1>3. /\ op[o] = "reserve" /\ row[o] = Nobody /\ p \in InTurn(o)
      /\ row' = [row EXCEPT ![o] = r]
      /\ UNCHANGED <<rows, locks, op, outlet, todo, used, history>>
    BY DEF FindRow
<1> HIDE DEF r
<1>4. row'[o] = r /\ p \in todo[o] /\ \A q \in todo[o] : p <= q
    BY <1>1, <1>3 DEF TypeOK, InTurn
<1>5. Phase(o)'
    BY <1>1, <1>2, <1>3, <1>4 DEF Phase, Found, rows, locks, Unused
<1>6. \A q \in Product : resLock[<<o, q>>] # o
    BY <1>1, <1>3 DEF Claims
<1>7. Claims(o)'
    BY <1>1, <1>3, <1>6 DEF Claims, locks
<1>8. Ascends(o)'
    BY <1>1, <1>2, <1>3, <1>4, RowShape DEF Ascends, locks
<1> QED
    BY <1>5, <1>7, <1>8

LEMMA LockProductKeeps ==
    ASSUME IInv, NEW o \in Order, LockProduct(o)
    PROVE  Phase(o)' /\ Claims(o)' /\ Ascends(o)'
<1>1. TypeOK /\ Phase(o) /\ Claims(o) /\ Ascends(o)
    BY DEF IInv
<1>2. /\ op[o] = "reserve" /\ row[o] \in Row
      /\ rowLock' = [rowLock EXCEPT ![row[o]] = o]
      /\ UNCHANGED <<rows, resLock, orders, via>>
    BY DEF LockProduct, history
<1>3. \A r \in Row : rowLock'[r] = o <=> rowLock[r] = o \/ r = row[o]
    BY <1>1, <1>2 DEF TypeOK
<1>4. \A p \in Product : used[o][p] # Nobody => used[o][p] \in Row
    BY <1>1 DEF TypeOK
<1>5. Phase(o)'
    BY <1>1, <1>2, <1>3, <1>4 DEF Phase, Found, rows, orders, Unused
<1>6. Claims(o)'
    BY <1>1, <1>2 DEF Claims, rows, orders
<1>7. Ascends(o)'
    BY <1>1, <1>2, <1>3 DEF Ascends, orders
<1> QED
    BY <1>5, <1>6, <1>7

(* A transaction puts the row it has locked to use: what stays true of the others *)
(* it uses.                                                                     *)
LEMMA TakesKeeps ==
    ASSUME IInv, NEW o \in Order, row[o] \in Row,
           Takes(o, row[o]), UNCHANGED <<present, status, via, op, outlet>>,
           \A r \in Row : rowLock'[r] = o <=> rowLock[r] = o \/ r = row[o],
           op[o] # "reserve" => UNCHANGED resLock,
           op[o] = "reserve" => \A x \in Reservation :
                /\ resLock'[x] = o => resLock[x] = o \/ x[2] = row[o][1]
                /\ resLock'[x] = o /\ status[x] = "none" => resLock[x] = o
    PROVE  Phase(o)' /\ Claims(o)' /\ Ascends(o)'
<1> DEFINE r == row[o]
           k == row[o][1]
<1>1. TypeOK /\ Phase(o) /\ Claims(o) /\ Ascends(o) /\ Origins
    BY DEF IInv
<1>2. /\ r \in Row /\ k \in todo[o] /\ k \in Product /\ Found(o, r) /\ op[o] # "idle"
      /\ used[o][k] = Nobody /\ r[1] = k /\ r # Nobody
      /\ op[o] # "reserve" => resLock[<<o, k>>] = o
    BY RowAtWork, RowShape
<1>3. /\ used' = [used EXCEPT ![o][k] = r]
      /\ todo' = [todo EXCEPT ![o] = @ \ {k}]
      /\ row' = [row EXCEPT ![o] = Nobody]
    BY DEF Takes
<1> HIDE DEF r, k
<1>4. /\ row'[o] = Nobody /\ todo'[o] = todo[o] \ {k}
      /\ \A p \in Product : used'[o][p] = IF p = k THEN r ELSE used[o][p]
    BY <1>1, <1>2, <1>3 DEF TypeOK
<1>5. \A p \in Product : used[o][p] # Nobody => used[o][p] \in Row
    BY <1>1 DEF TypeOK
<1>6. \A p \in Product : used'[o][p] # Nobody =>
        /\ used'[o][p][1] = p /\ Found(o, used'[o][p])
        /\ rowLock'[used'[o][p]] = o /\ p \notin todo'[o]
        /\ op[o] # "reserve" => resLock'[<<o, p>>] = o
    BY <1>1, <1>2, <1>4, <1>5 DEF Phase, r
<1>7. Phase(o)'
    BY <1>1, <1>2, <1>4, <1>6 DEF Phase, Found
<1>8. Claims(o)'
  <2>1. CASE op[o] = "reserve"
    <3>1. \A p \in Product : resLock[<<o, p>>] # o /\ status[<<o, p>>] = "none"
      BY <1>1, <2>1 DEF Claims, Phase
    <3>2. \A p \in Product : resLock'[<<o, p>>] # o
      BY <2>1, <3>1 DEF Reservation
    <3> QED
      BY <2>1, <3>2 DEF Claims
  <2>2. CASE op[o] # "reserve"
    <3>1. ASSUME NEW p \in Product, via[<<o, p>>] \in {used[o][p], r}, via[<<o, p>>] \in OutletRow,
                 status[<<o, p>>] = "RESERVED"
          PROVE  via[<<o, p>>] \in {used'[o][p], row'[o]}
      <4>1. via[<<o, p>>][1] = p
        BY <1>1, <3>1 DEF Origins, Reservation
      <4>2. via[<<o, p>>] # Nobody
        BY <3>1, RowShape
      <4> QED
        BY <1>2, <1>4, <3>1, <4>1, <4>2
    <3> QED
      BY <1>1, <1>4, <2>2, <3>1 DEF Claims, r
  <2> QED
    BY <2>1, <2>2
<1>9. Ascends(o)'
  <2> SUFFICES ASSUME op[o] = "reserve" PROVE Ascends(o)'
    BY DEF Ascends
  <2>1. \A p \in todo[o] : p \in Int /\ k <= p
    BY <1>1, <1>2 DEF Ascends, TypeOK, Product, r, k
  <2>2. k \in Int
    BY <1>2, <2>1
  <2>3. \A p \in todo'[o] : \A q \in Product : used'[o][q] # Nobody => q < p
    BY <1>1, <1>2, <1>4, <2>1, <2>2 DEF Ascends
  <2>4. ASSUME NEW s \in Row, rowLock'[s] = o PROVE s \in {used'[o][s[1]], row'[o]}
    <3>1. s[1] \in Product /\ s # Nobody
      BY RowShape
    <3>2. CASE s = r
      BY <1>2, <1>4, <3>2
    <3>3. CASE s # r
      <4>1. s = used[o][s[1]]
        BY <1>1, <2>4, <3>3 DEF Ascends, r
      <4> QED
        BY <1>2, <1>4, <3>1, <4>1
    <3> QED
      BY <3>2, <3>3
  <2>5. ASSUME NEW x \in Reservation, resLock'[x] = o PROVE used'[o][x[2]] # Nobody
    <3>1. x[2] \in Product
      BY DEF Reservation
    <3> QED
      BY <1>1, <1>2, <1>4, <2>5, <3>1 DEF Ascends, k
  <2> QED
    BY <1>4, <2>3, <2>4, <2>5 DEF Ascends
<1> QED
    BY <1>7, <1>8, <1>9

LEMMA UseKeeps ==
    ASSUME IInv, NEW o \in Order, ReserveAtOutlet(o) \/ ReserveAtShop(o) \/ LockRow(o)
    PROVE  Phase(o)' /\ Claims(o)' /\ Ascends(o)'
<1>1. TypeOK
    BY DEF IInv
<1>2. CASE ReserveAtOutlet(o)
  <2>1. /\ row[o] \in Row /\ Takes(o, row[o])
        /\ rowLock' = [rowLock EXCEPT ![row[o]] = o]
        /\ UNCHANGED <<present, status, via, op, outlet, resLock>>
    BY <1>2, RowShape DEF ReserveAtOutlet, rows, history
  <2>2. \A r \in Row : rowLock'[r] = o <=> rowLock[r] = o \/ r = row[o]
    BY <1>1, <2>1 DEF TypeOK
  <2> QED
    BY <2>1, <2>2, TakesKeeps
<1>3. CASE ReserveAtShop(o)
  <2>1. /\ row[o] \in Row /\ Takes(o, row[o]) /\ rowLock[row[o]] = o /\ op[o] = "reserve"
        /\ UNCHANGED <<present, status, via, op, outlet, rowLock>>
    BY <1>3 DEF ReserveAtShop, rows, history
  <2>2. resLock' = [x \in Reservation |-> IF x \in Reserved(row[o][1]) THEN o ELSE resLock[x]]
    BY <1>3 DEF ReserveAtShop
  <2>3. \A x \in Reservation :
            /\ resLock'[x] = o => resLock[x] = o \/ x[2] = row[o][1]
            /\ resLock'[x] = o /\ status[x] = "none" => resLock[x] = o
    BY <2>2 DEF Reserved
  <2> QED
    BY <2>1, <2>3, TakesKeeps
<1>4. CASE LockRow(o)
  <2>1. /\ row[o] # Nobody /\ Takes(o, row[o]) /\ op[o] # "reserve"
        /\ rowLock' = [rowLock EXCEPT ![row[o]] = o]
        /\ UNCHANGED <<present, status, via, op, outlet, resLock>>
    BY <1>4 DEF LockRow, rows, history
  <2>2. row[o] \in Row /\ \A r \in Row : rowLock'[r] = o <=> rowLock[r] = o \/ r = row[o]
    BY <1>1, <2>1 DEF TypeOK
  <2> QED
    BY <2>1, <2>2, TakesKeeps
<1> QED
    BY <1>2, <1>3, <1>4

LEMMA ClaimKeeps ==
    ASSUME IInv, NEW o \in Order, NEW p \in Product, ClaimReservation(o, p)
    PROVE  Phase(o)' /\ Claims(o)' /\ Ascends(o)'
<1> DEFINE r == RowFor(p, outlet[o])
           x == <<o, p>>
           spared == r[2] = Shop /\ op[o] # "commit" /\ status[x] = "RESERVED"
<1>1. TypeOK /\ Phase(o) /\ Claims(o) /\ Origins
    BY DEF IInv
<1>2. r \in present /\ r \in Row /\ r[1] = p /\ r[2] \in {outlet[o], Shop}
    BY Parts, RowForType
<1>3. /\ op[o] \in {"commit", "release", "expire"} /\ p \in todo[o] /\ row[o] = Nobody
      /\ resLock' = [resLock EXCEPT ![x] = o]
      /\ spared => todo' = [todo EXCEPT ![o] = @ \ {p}] /\ row' = row
      /\ ~spared => row' = [row EXCEPT ![o] = r] /\ todo' = todo
      /\ UNCHANGED <<rows, rowLock, op, outlet, used, via>>
    BY DEF ClaimReservation, history
<1>4. x \in Reservation /\ x = <<o, p>> /\ \A q \in Product : <<o, q>> \in Reservation /\ (<<o, q>> = x <=> q = p)
    BY DEF Reservation
<1>5. status[x] = "RESERVED" /\ via[x] \in OutletRow => via[x] = r /\ ~spared
  <2> SUFFICES ASSUME status[x] = "RESERVED", via[x] \in OutletRow PROVE via[x] = r /\ ~spared
    OBVIOUS
  <2>1. via[x] \in Row /\ via[x][1] = p /\ via[x] \in present /\ via[x][2] \in {outlet[o], Shop}
    BY <1>1, <1>4 DEF Origins, Found
  <2>2. via[x] = <<p, outlet[o]>> /\ outlet[o] # Shop
    BY <2>1, RowShape
  <2> QED
    BY <2>1, <2>2 DEF RowFor
<1>6. \/ status[x] = "RESERVED"
      \/ op[o] = "release" /\ status[x] = "COMMITTED"
  <2>1. op[o] \in {"commit", "release", "expire"} /\ p \in todo[o]
    BY <1>3
  <2> HIDE DEF spared, r
  <2> QED
    BY <1>1, <2>1 DEF Claims
<1> HIDE DEF r, x, spared
<1>7. \A y \in Reservation : resLock'[y] = IF y = x THEN o ELSE resLock[y]
    BY <1>1, <1>3 DEF TypeOK
<1>8. \/ spared /\ todo'[o] = todo[o] \ {p} /\ row'[o] = Nobody
      \/ ~spared /\ todo'[o] = todo[o] /\ row'[o] = r
    BY <1>1, <1>3 DEF TypeOK
<1>9. UNCHANGED <<present, status>>
    BY <1>3 DEF rows
<1>10. \A q \in Product : resLock'[<<o, q>>] = o <=> resLock[<<o, q>>] = o \/ q = p
    BY <1>4, <1>7
<1>11. Phase(o)'
    BY <1>1, <1>2, <1>3, <1>8, <1>9, <1>10 DEF Phase, Found
<1>12. Claims(o)'
  <2>1. ASSUME NEW q \in Product, resLock'[<<o, q>>] = o, status[<<o, q>>] = "RESERVED",
               via[<<o, q>>] \in OutletRow
        PROVE  via[<<o, q>>] \in {used[o][q], row'[o]}
    <3>1. CASE q = p
      BY <1>4, <1>5, <1>8, <2>1, <3>1
    <3>2. CASE q # p
      <4>1. via[<<o, q>>] \in {used[o][q], Nobody}
        BY <1>1, <1>3, <1>10, <2>1, <3>2 DEF Claims
      <4> QED
        BY <2>1, <4>1, RowShape
    <3> QED
      BY <3>1, <3>2
  <2>2. ASSUME NEW q \in Product, q \in todo'[o] \/ resLock'[<<o, q>>] = o
        PROVE  \/ status[<<o, q>>] = "RESERVED"
               \/ op[o] = "release" /\ status[<<o, q>>] = "COMMITTED"
    BY <1>1, <1>3, <1>4, <1>6, <1>8, <1>10, <2>2 DEF Claims
  <2> QED
    BY <1>3, <1>9, <2>1, <2>2 DEF Claims
<1>13. Ascends(o)'
    BY <1>3 DEF Ascends
<1> QED
    BY <1>11, <1>12, <1>13

(* Whatever an order does, its bookkeeping is kept. *)
LEMMA OwnKeeps ==
    ASSUME IInv, NEW o \in Order, OrderStep(o)
    PROVE  Phase(o)' /\ Claims(o)' /\ Ascends(o)'
    BY BeginKeeps, EndKeeps, FindRowKeeps, LockProductKeeps, UseKeeps, ClaimKeeps DEF OrderStep

-----------------------------------------------------------------------------
(* What is promised, when a transaction commits *)

(* The reservations of a row after a commit are those before, but for one. *)
LEMMA CommitMoves ==
    ASSUME IInv, NEW o \in Order, Commit(o), NEW r \in Row, NEW y \in Reservation, y # <<o, r[1]>>
    PROVE  (status'[y] = "RESERVED" /\ via'[y] = r) <=> (status[y] = "RESERVED" /\ via[y] = r)
<1>1. TypeOK /\ Phase(o) /\ Origins
    BY DEF IInv
<1>2. /\ status' = [x \in Reservation |-> IF x \in Won(o) THEN Outcome(o) ELSE status[x]]
      /\ via' = [x \in Reservation |->
                    IF x \in Won(o) /\ op[o] = "reserve" THEN used[o][x[2]] ELSE via[x]]
    BY DEF Commit
<1>3. y = <<y[1], y[2]>> /\ y[1] \in Order /\ y[2] \in Product
    BY DEF Reservation
<1>4. CASE y[1] # o
  <2>1. y \notin Won(o)
    BY <1>4 DEF Won
  <2> QED
    BY <1>2, <2>1
<1>5. CASE y[1] = o
  <2>1. y = <<o, y[2]>> /\ y[2] # r[1]
    BY <1>3, <1>5
  <2>2. status[y] # "none" => via[y] # r
    BY <1>1, <2>1 DEF Origins
  <2>3. CASE op[o] = "reserve"
    <3>1. status[y] = "none"
      BY <1>1, <1>3, <2>1, <2>3 DEF Phase
    <3>2. y \in Won(o) => used[o][y[2]] # Nobody
      BY <2>3 DEF Won
    <3>3. y \in Won(o) => used[o][y[2]][1] = y[2]
      BY <1>1, <1>3, <3>2 DEF Phase
    <3> QED
      BY <1>2, <2>1, <2>3, <3>1, <3>3
  <2>4. CASE op[o] # "reserve"
    <3>1. Outcome(o) # "RESERVED"
      BY <2>4 DEF Outcome
    <3> QED
      BY <1>2, <2>2, <2>4, <3>1
  <2> QED
    BY <2>3, <2>4
<1> QED
    BY <1>4, <1>5

LEMMA CommitOfOwn ==
    ASSUME IInv, NEW o \in Order, Commit(o), NEW r \in Row
    PROVE  LET x == <<o, r[1]>>
               before == status[x] = "RESERVED" /\ via[x] = r
               after  == status'[x] = "RESERVED" /\ via'[x] = r
           IN  /\ op[o] = "reserve" => ~before /\ (after <=> Uses(o, r))
               /\ op[o] # "reserve" => (after <=> before /\ resLock[x] # o)
<1> DEFINE p == r[1]
           x == <<o, p>>
<1>1. TypeOK /\ Phase(o)
    BY DEF IInv
<1>2. /\ status' = [z \in Reservation |-> IF z \in Won(o) THEN Outcome(o) ELSE status[z]]
      /\ via' = [z \in Reservation |->
                    IF z \in Won(o) /\ op[o] = "reserve" THEN used[o][z[2]] ELSE via[z]]
    BY DEF Commit
<1>3. p \in Product /\ x \in Reservation /\ x[2] = p /\ x \in {o} \X Product /\ r # Nobody
    BY RowShape DEF Reservation
<1>4. Uses(o, r) <=> used[o][p] = r
    BY DEF Uses
<1>5. CASE op[o] = "reserve"
  <2>1. status[x] = "none"
    BY <1>1, <1>3, <1>5 DEF Phase
  <2>2. x \in Won(o) <=> used[o][p] # Nobody
    BY <1>3, <1>5 DEF Won
  <2>3. Outcome(o) = "RESERVED"
    BY <1>5 DEF Outcome
  <2> QED
    BY <1>2, <1>3, <1>4, <1>5, <2>1, <2>2, <2>3
<1>6. CASE op[o] # "reserve"
  <2>1. x \in Won(o) <=> resLock[x] = o
    BY <1>3, <1>6 DEF Won
  <2>2. Outcome(o) # "RESERVED"
    BY <1>6 DEF Outcome
  <2> QED
    BY <1>2, <1>3, <1>6, <2>1, <2>2
<1> QED
    BY <1>5, <1>6

(* So a checkout promises one more of a row it used, a settling transaction one    *)
(* less of the row its reservation was made on.                                  *)
LEMMA CommitPromises ==
    ASSUME IInv, NEW o \in Order, Commit(o), NEW r \in Row
    PROVE  /\ Promised(r) \in Nat /\ Promised(r)' \in Nat
           /\ op[o] = "reserve" => Promised(r)' = IF Uses(o, r) THEN Promised(r) + 1 ELSE Promised(r)
           /\ op[o] # "reserve" =>
                Promised(r)' = IF status[<<o, r[1]>>] = "RESERVED" /\ via[<<o, r[1]>>] = r
                                  /\ resLock[<<o, r[1]>>] = o
                               THEN Promised(r) - 1 ELSE Promised(r)
<1> DEFINE x == <<o, r[1]>>
           P == {y \in Reservation : status[y] = "RESERVED" /\ via[y] = r}
           Q == {y \in Reservation : status'[y] = "RESERVED" /\ via'[y] = r}
<1>1. IsFiniteSet(P) /\ Promised(r) \in Nat
    BY PromisedType DEF IInv
<1>2. Promised(r) = Cardinality(P) /\ Promised(r)' = Cardinality(Q)
    BY DEF Promised
<1>3. \A y \in Reservation : y # x => (y \in P <=> y \in Q)
    BY CommitMoves
<1>4. x \in Reservation
    BY RowShape DEF Reservation
<1>5. x \in P <=> status[x] = "RESERVED" /\ via[x] = r
    BY <1>4
<1>6. x \in Q <=> status'[x] = "RESERVED" /\ via'[x] = r
    BY <1>4
<1>7. /\ op[o] = "reserve" => x \notin P /\ (x \in Q <=> Uses(o, r))
      /\ op[o] # "reserve" => (x \in Q <=> x \in P /\ resLock[x] # o)
    BY <1>5, <1>6, CommitOfOwn
<1>8. P \subseteq Reservation /\ Q \subseteq Reservation
    OBVIOUS
<1> HIDE DEF P, Q, x
<1>9. CASE x \notin P /\ x \in Q
  <2>1. Q = P \cup {x}
    BY <1>3, <1>8, <1>9
  <2>2. Cardinality(Q) = Cardinality(P) + 1
    BY <1>1, <1>9, <2>1, FS_AddElement
  <2> QED
    BY <1>1, <1>2, <1>5, <1>7, <1>9, <2>2 DEF x
<1>10. CASE x \in P /\ x \notin Q
  <2>1. Q = P \ {x}
    BY <1>3, <1>8, <1>10
  <2>2. Cardinality(Q) = Cardinality(P) - 1
    BY <1>1, <1>10, <2>1, FS_RemoveElement
  <2>3. IsFiniteSet(Q)
    BY <1>1, <2>1, FS_RemoveElement
  <2>4. Cardinality(Q) \in Nat
    BY <2>3, FS_CardinalityType
  <2> QED
    BY <1>1, <1>2, <1>5, <1>7, <1>10, <2>2, <2>4 DEF x
<1>11. CASE x \in P <=> x \in Q
  <2>1. Q = P
    BY <1>3, <1>8, <1>11
  <2> QED
    BY <1>1, <1>2, <1>5, <1>7, <1>11, <2>1 DEF x
<1> QED
    BY <1>9, <1>10, <1>11

(* A transaction that is about to commit works on no row any more, and used the     *)
(* very row its reservation was made on, if that is an outlet's.                  *)
LEMMA CommitUses ==
    ASSUME IInv, NEW o \in Order, Commit(o), op[o] # "reserve",
           NEW r \in Row, resLock[<<o, r[1]>>] = o, status[<<o, r[1]>>] = "RESERVED"
    PROVE  LET x == <<o, r[1]>>
           IN  /\ via[x] \in OutletRow => used[o][r[1]] = via[x]
               /\ via[x] \in {<<r[1], outlet[o]>>, <<r[1], Shop>>}
<1> DEFINE p == r[1]
           x == <<o, p>>
<1>1. TypeOK /\ Phase(o) /\ Claims(o) /\ Origins
    BY DEF IInv
<1>2. p \in Product /\ x \in Reservation /\ x[1] = o /\ x[2] = p
    BY RowShape DEF Reservation
<1>3. row[o] = Nobody
    BY <1>1 DEF Commit, Phase
<1>4. via[x] \in Row /\ via[x][1] = p /\ via[x][2] \in {outlet[o], Shop}
    BY <1>1, <1>2 DEF Origins, Found
<1>5. via[x] = <<via[x][1], via[x][2]>> /\ via[x] # Nobody
    BY <1>4, RowShape
<1>6. via[x] \in OutletRow => via[x] \in {used[o][p], Nobody}
    BY <1>1, <1>2, <1>3 DEF Claims
<1> QED
    BY <1>4, <1>5, <1>6

LEMMA CommitAccounts ==
    ASSUME IInv, NEW o \in Order, Commit(o)
    PROVE  Accounted'
<1> SUFFICES ASSUME NEW r \in OutletRow, r \notin skewed'
             PROVE  reserved'[r] = Promised(r)'
    BY DEF Accounted, OutletRow, Place
<1> DEFINE x == <<o, r[1]>>
<1>1. r \in Row /\ r \notin skewed /\ reserved[r] = Promised(r)
    BY RowShape DEF IInv, Accounted, Commit
<1>2. Promised(r) \in Nat /\ Phase(o)
    BY <1>1, PromisedType DEF IInv
<1>3. reserved'[r] = ReservedAfter(o, r)
    BY DEF Commit
<1>4. CASE op[o] = "reserve"
  <2>1. status[x] = "none"
    BY <1>1, <1>2, <1>4, RowShape DEF Phase
  <2> QED
    BY <1>1, <1>3, <1>4, <2>1, CommitPromises DEF ReservedAfter
<1>5. CASE op[o] # "reserve"
  <2>1. Uses(o, r) => resLock[x] = o
    BY <1>1, <1>2, <1>5, UsedRow
  <2>2. Uses(o, r) /\ status[x] = "RESERVED" => via[x] = r
    BY <1>1, <1>5 DEF Commit
  <2>3. status[x] = "RESERVED" /\ via[x] = r /\ resLock[x] = o => Uses(o, r)
    BY <1>1, <1>5, CommitUses DEF Uses
  <2>4. Promised(r)' = IF status[x] = "RESERVED" /\ via[x] = r /\ resLock[x] = o
                       THEN Promised(r) - 1 ELSE Promised(r)
    BY <1>1, <1>5, CommitPromises
  <2>5. ReservedAfter(o, r) = IF Uses(o, r) /\ status[x] = "RESERVED" THEN reserved[r] - 1 ELSE reserved[r]
    BY <1>5 DEF ReservedAfter
  <2> QED
    BY <1>1, <1>3, <2>1, <2>2, <2>3, <2>4, <2>5
<1> QED
    BY <1>4, <1>5

LEMMA CommitNeverOversells ==
    ASSUME IInv, NEW o \in Order, Commit(o)
    PROVE  NeverOversold'
<1> SUFFICES ASSUME NEW r \in present, r \notin skewed', r \notin lowered
             PROVE  Promised(r)' <= stock'[r]
    BY DEF NeverOversold, Commit
<1> DEFINE x == <<o, r[1]>>
<1>1. r \in Row /\ r \notin skewed /\ Promised(r) <= stock[r] /\ stock[r] \in Int
    BY DEF IInv, TypeOK, NeverOversold, Commit
<1>2. Promised(r) \in Nat /\ Promised(r)' \in Nat /\ Phase(o) /\ Claims(o) /\ Roomy
    BY <1>1, CommitPromises DEF IInv
<1>3. stock'[r] = StockAfter(o, r)
    BY <1>1 DEF Commit
<1>4. r[1] \in Product /\ r # Nobody
    BY <1>1, RowShape
<1>5. CASE op[o] = "reserve"
  <2>1. status[x] = "none"
    BY <1>2, <1>4, <1>5 DEF Phase
  <2>2. Uses(o, r) => Promised(r) + 1 <= stock[r]
    BY <1>1, <1>2, <1>4, <1>5 DEF Roomy, Room, Uses
  <2>3. stock'[r] = stock[r]
    BY <1>3, <1>5, <2>1 DEF StockAfter
  <2> QED
    BY <1>1, <1>2, <1>5, <2>2, <2>3, CommitPromises
<1>6. CASE op[o] # "reserve"
  <2>1. Promised(r)' <= Promised(r)
    <3>1. Promised(r)' \in {Promised(r), Promised(r) - 1}
      BY <1>1, <1>6, CommitPromises
    <3> QED
      BY <1>2, <3>1
  <2>2. CASE Uses(o, r) /\ op[o] = "commit"
    <3>1. resLock[x] = o
      BY <1>1, <1>2, <2>2, UsedRow
    <3>2. status[x] = "RESERVED"
      BY <1>2, <1>4, <2>2, <3>1 DEF Claims
    <3>3. via[x] = r
      <4>1. CASE r \in OutletRow
        BY <1>1, <2>2, <3>2, <4>1 DEF Commit
      <4>2. CASE r \notin OutletRow
        <5>1. r = <<r[1], Shop>>
          BY <1>1, <4>2, RowShape
        <5>2. via[x] \notin OutletRow
          BY <1>1, <2>2, <3>1, <3>2, <4>2, CommitUses DEF Uses
        <5>3. via[x] \in Row /\ via[x][1] = r[1]
          BY <1>4, <3>2 DEF IInv, Origins, Reservation
        <5> QED
          BY <5>1, <5>2, <5>3, RowShape
      <4> QED
        BY <4>1, <4>2
    <3>4. Promised(r)' = Promised(r) - 1
      BY <1>1, <1>6, <3>1, <3>2, <3>3, CommitPromises
    <3>5. stock'[r] = stock[r] - 1
      BY <1>3, <2>2, <3>2 DEF StockAfter
    <3> QED
      BY <1>1, <1>2, <3>4, <3>5
  <2>3. CASE ~(Uses(o, r) /\ op[o] = "commit")
    <3>1. stock'[r] \in {stock[r], stock[r] + 1}
      BY <1>3, <2>3 DEF StockAfter
    <3> QED
      BY <1>1, <1>2, <2>1, <3>1
  <2> QED
    BY <2>2, <2>3
<1> QED
    BY <1>5, <1>6

LEMMA CommitOrigins ==
    ASSUME IInv, NEW o \in Order, Commit(o)
    PROVE  Origins'
<1> SUFFICES ASSUME NEW x \in Reservation, status'[x] # "none"
             PROVE  /\ via'[x] \in Row /\ via'[x][1] = x[2]
                    /\ via'[x] \in present /\ via'[x][2] \in {outlet[x[1]], Shop}
    BY DEF Origins, Found, Commit
<1>1. TypeOK /\ Phase(o) /\ Claims(o) /\ Origins
    BY DEF IInv
<1>2. /\ status'[x] = IF x \in Won(o) THEN Outcome(o) ELSE status[x]
      /\ via'[x] = IF x \in Won(o) /\ op[o] = "reserve" THEN used[o][x[2]] ELSE via[x]
    BY DEF Commit
<1>3. CASE x \in Won(o) /\ op[o] = "reserve"
  <2>1. x[1] = o /\ x[2] \in Product /\ used[o][x[2]] # Nobody
    BY <1>3 DEF Won
  <2> QED
    BY <1>1, <1>2, <1>3, <2>1 DEF Phase, Found, TypeOK
<1>4. CASE ~(x \in Won(o) /\ op[o] = "reserve")
  <2>1. x \in Won(o) => x = <<o, x[2]>> /\ x[2] \in Product /\ resLock[x] = o
    BY <1>4 DEF Won
  <2>2. x \in Won(o) => status[x] # "none"
    BY <1>1, <2>1 DEF Claims
  <2> QED
    BY <1>1, <1>2, <1>4, <2>2 DEF Origins, Found
<1> QED
    BY <1>3, <1>4

-----------------------------------------------------------------------------
(* Room, as long as the lock is held *)

LEMMA RoomKept ==
    ASSUME NEW r \in Row, Room(r), skewed \subseteq skewed', r \in lowered => r \in lowered',
           Promised(r) \in Nat, Promised(r)' \in Nat, stock[r] \in Int,
           Promised(r)' <= Promised(r), stock'[r] = stock[r]
    PROVE  Room(r)'
    BY DEF Room

(* A row with enough available has room, for an outlet's row counts its promises. *)
LEMMA AvailableRoom ==
    ASSUME IInv, NEW r \in OutletRow, Available(r) >= 1
    PROVE  Room(r)
<1>1. r \in skewed \/ reserved[r] = Promised(r)
    BY DEF IInv, Accounted
<1>2. Promised(r) \in Nat /\ stock[r] \in Int
    BY RowShape, PromisedType DEF IInv, TypeOK
<1> QED
    BY <1>1, <1>2 DEF Room, Available

(* Of an order's steps only ReserveAtOutlet and ReserveAtShop put a row to use in a *)
(* checkout, and both have seen that there is enough.                            *)
LEMMA CheckoutRooms ==
    ASSUME IInv, NEW o \in Order, OrderStep(o), ~Commit(o),
           NEW p \in Product, op'[o] = "reserve", used'[o][p] # Nobody
    PROVE  Room(used'[o][p])
<1>1. TypeOK /\ Phase(o) /\ Roomy
    BY DEF IInv
<1>2. CASE used'[o][p] = used[o][p] /\ op[o] = "reserve"
    BY <1>1, <1>2 DEF Roomy
<1>3. CASE ReserveAtOutlet(o)
  <2>1. /\ op[o] = "reserve" /\ row[o] \in OutletRow /\ Available(row[o]) >= 1
        /\ used' = [used EXCEPT ![o][row[o][1]] = row[o]]
    BY <1>3 DEF ReserveAtOutlet, Takes
  <2>2. used'[o][p] = used[o][p] \/ used'[o][p] = row[o]
    BY <1>1, <2>1 DEF TypeOK
  <2> QED
    BY <1>2, <2>1, <2>2, AvailableRoom
<1>4. CASE ReserveAtShop(o)
  <2>1. /\ op[o] = "reserve" /\ row[o] \in Row
        /\ stock[row[o]] - Cardinality(Reserved(row[o][1])) >= 1
        /\ used' = [used EXCEPT ![o][row[o][1]] = row[o]]
    BY <1>4 DEF ReserveAtShop, Takes
  <2>2. used'[o][p] = used[o][p] \/ used'[o][p] = row[o]
    BY <1>1, <2>1 DEF TypeOK
  <2>3. /\ Promised(row[o]) \in Nat /\ Cardinality(Reserved(row[o][1])) \in Nat
        /\ Promised(row[o]) <= Cardinality(Reserved(row[o][1])) /\ stock[row[o]] \in Int
    BY <1>1, <2>1, PromisedType DEF IInv, TypeOK
  <2>4. Room(row[o])
    BY <2>1, <2>3 DEF Room
  <2> QED
    BY <1>2, <2>1, <2>2, <2>4
<1>5. CASE \/ \E l \in Outlet : Checkout(o, l)
           \/ \E q \in Product : Expire(o, q)
           \/ Settle(o) \/ Release(o)
  <2>1. op[o] = "idle" /\ used' = used
    BY <1>5 DEF Checkout, Expire, Settle, Release, Begins
  <2> QED
    BY <1>1, <2>1 DEF Phase, Unused
<1>6. CASE \/ \E q \in Product : FindRow(o, q) \/ ClaimReservation(o, q)
           \/ LockProduct(o)
  <2>1. UNCHANGED <<op, used>>
    BY <1>6 DEF FindRow, ClaimReservation, LockProduct, orders
  <2> QED
    BY <1>2, <2>1
<1>7. CASE LockRow(o)
    BY <1>7 DEF LockRow
<1>8. CASE Rollback(o)
    BY <1>1, <1>8 DEF Rollback, Ends, TypeOK
<1> QED
    BY <1>3, <1>4, <1>5, <1>6, <1>7, <1>8 DEF OrderStep

(* A transfer is between two rows of outlets. *)
LEMMA MoveRows ==
    ASSUME NEW t \in Transfer
    PROVE  From(t) \in OutletRow /\ To(t) \in OutletRow /\ From(t) # To(t)
<1>1. Move[t] \in [product : Product, from : Outlet, to : Outlet] /\ Move[t].from # Move[t].to
    BY ConstantsAssumption
<1> QED
    BY <1>1 DEF From, To, OutletRow

(* Room needs to be shown for the rows that are put to use only. *)
LEMMA RoomyNext ==
    ASSUME TypeOK',
           \A q \in Order, p \in Product, r \in Row :
               op'[q] = "reserve" /\ used'[q][p] = r => Room(r)',
           \A a \in Admin : work'[a] # "idle" => on'[a] \in Transfer,
           \A a \in Admin, r \in Row :
               work'[a] = "target" /\ r = From(on'[a]) =>
                   r \in present' /\ rowLock'[r] = a /\ Room(r)'
    PROVE  Roomy'
<1>1. ASSUME NEW q \in Order, NEW p \in Product, op'[q] = "reserve", used'[q][p] # Nobody
      PROVE  Room(used[q][p])'
  <2>1. used'[q][p] \in Row
    BY <1>1 DEF TypeOK
  <2> QED
    BY <1>1, <2>1 DEF Room, Promised
<1>2. ASSUME NEW a \in Admin, work'[a] = "target"
      PROVE  From(on'[a]) \in present' /\ rowLock'[From(on'[a])] = a /\ Room(From(on[a]))'
  <2>1. From(on'[a]) \in Row
    BY <1>2, MoveRows, RowShape
  <2> QED
    BY <1>2, <2>1 DEF Room, Promised, From
<1> QED
    BY <1>1, <1>2 DEF Roomy, From

LEMMA QuietRoom ==
    ASSUME UNCHANGED <<stock, status, via, skewed, lowered>>, NEW r, Room(r)
    PROVE  Room(r)'
    BY PromisedKept DEF Room

(* Until it commits an order changes no row and no history. *)
LEMMA QuietStep ==
    ASSUME IInv, NEW o \in Order, OrderStep(o), ~Commit(o)
    PROVE  /\ UNCHANGED <<rows, admins, history>>
           /\ \A a \in Admin, r \in Row : rowLock[r] = a => rowLock'[r] = a
<1>1. o \notin Admin /\ Nobody \notin Admin /\ rowLock \in [Row -> Actor \cup {Nobody}]
    BY ConstantsAssumption DEF IInv, TypeOK
<1>2. UNCHANGED <<rows, admins, history>>
    BY DEF OrderStep, Checkout, FindRow, Expire, ClaimReservation, ReserveAtOutlet, LockProduct,
           ReserveAtShop, Settle, Release, LockRow, Rollback, Begins
<1>3. \/ rowLock' = rowLock
      \/ \E r \in Row : rowLock[r] = Nobody /\ rowLock' = [rowLock EXCEPT ![r] = o]
      \/ rowLock' = Released(rowLock, o)
  <2>1. ASSUME ReserveAtOutlet(o) \/ LockProduct(o) \/ LockRow(o)
        PROVE  \E r \in Row : rowLock[r] = Nobody /\ rowLock' = [rowLock EXCEPT ![r] = o]
    <3>1. row[o] \in Row \cup {Nobody}
      BY DEF IInv, TypeOK
    <3>2. row[o] \in Row
      BY <2>1, <3>1, RowShape DEF ReserveAtOutlet, LockProduct, LockRow
    <3> QED
      BY <2>1, <3>2 DEF ReserveAtOutlet, LockProduct, LockRow
  <2>2. ASSUME Rollback(o)
        PROVE  rowLock' = Released(rowLock, o)
    BY <2>2 DEF Rollback, Ends
  <2>3. ASSUME \/ \E l \in Outlet : Checkout(o, l)
               \/ \E p \in Product : FindRow(o, p) \/ Expire(o, p) \/ ClaimReservation(o, p)
               \/ ReserveAtShop(o) \/ Settle(o) \/ Release(o)
        PROVE  rowLock' = rowLock
    BY <2>3 DEF Checkout, FindRow, Expire, ClaimReservation, ReserveAtShop, Settle, Release,
                Begins, locks
  <2> QED
    BY <2>1, <2>2, <2>3 DEF OrderStep
<1>4. \A a \in Admin, r \in Row : rowLock[r] = a => rowLock'[r] = a
    BY <1>1, <1>3 DEF Released
<1> QED
    BY <1>2, <1>4

LEMMA QuietRoomy ==
    ASSUME IInv, NEW o \in Order, OrderStep(o), ~Commit(o)
    PROVE  Roomy'
<1>1. /\ UNCHANGED <<stock, status, via, skewed, lowered>>
      /\ present' = present /\ work' = work /\ on' = on
      /\ \A a \in Admin, r \in Row : rowLock[r] = a => rowLock'[r] = a
    BY QuietStep DEF rows, admins, history
<1>2. TypeOK' /\ TypeOK /\ Roomy
    BY OrderTypes DEF IInv
<1>3. ASSUME NEW q \in Order, NEW p \in Product, NEW r \in Row, op'[q] = "reserve", used'[q][p] = r
      PROVE  Room(r)'
  <2>1. Room(r)
    <3>1. CASE q = o
      BY <1>3, <3>1, RowShape, CheckoutRooms
    <3>2. CASE q # o
      <4>1. op[q] = "reserve" /\ used[q][p] = r
        BY <1>2, <1>3, <3>2, OthersUntouched DEF Untouched
      <4> QED
        BY <1>2, <4>1, RowShape DEF Roomy
    <3> QED
      BY <3>1, <3>2
  <2> QED
    BY <1>1, <2>1, QuietRoom
<1>4. ASSUME NEW a \in Admin, NEW r \in Row, work'[a] = "target", r = From(on'[a])
      PROVE  r \in present' /\ rowLock'[r] = a /\ Room(r)'
  <2>1. r \in present /\ rowLock[r] = a /\ Room(r)
    BY <1>1, <1>2, <1>4 DEF Roomy
  <2> QED
    BY <1>1, <2>1, QuietRoom
<1> QED
    BY <1>1, <1>2, <1>3, <1>4, RoomyNext DEF Roomy

(* A commit leaves the rows it did not use their room. *)
LEMMA CommitRoom ==
    ASSUME IInv, NEW o \in Order, Commit(o), NEW r \in Row, Room(r), ~Uses(o, r)
    PROVE  Room(r)'
<1>1. Promised(r) \in Nat /\ Promised(r)' \in Nat
    BY CommitPromises
<1>2. Promised(r)' \in {Promised(r), Promised(r) - 1}
  <2>1. CASE op[o] = "reserve"
    BY <2>1, CommitPromises
  <2>2. CASE op[o] # "reserve"
    BY <2>2, CommitPromises
  <2> QED
    BY <2>1, <2>2
<1>3. stock'[r] = stock[r] /\ stock[r] \in Int /\ skewed \subseteq skewed' /\ lowered' = lowered
    BY DEF Commit, StockAfter, IInv, TypeOK
<1> QED
    BY <1>1, <1>2, <1>3, RoomKept

LEMMA CommitRoomy ==
    ASSUME IInv, NEW o \in Order, Commit(o)
    PROVE  Roomy'
<1>1. TypeOK /\ TypeOK' /\ Roomy /\ \A q \in Order : Phase(q)
    BY OrderTypes DEF IInv, OrderStep
<1>2. /\ present' = present /\ work' = work /\ on' = on
      /\ rowLock' = Released(rowLock, o) /\ op' = [op EXCEPT ![o] = "idle"]
    BY DEF Commit, Ends, admins
<1>3. \A r \in Row : Uses(o, r) => rowLock[r] = o
    BY <1>1, UsedRow
<1>4. ASSUME NEW q \in Order, NEW p \in Product, NEW r \in Row, op'[q] = "reserve", used'[q][p] = r
      PROVE  Room(r)'
  <2>1. q # o
    BY <1>1, <1>2, <1>4 DEF TypeOK
  <2>2. op[q] = "reserve" /\ used[q][p] = r /\ r # Nobody
    BY <1>1, <1>4, <2>1, RowShape, OthersUntouched DEF Untouched, OrderStep
  <2>3. rowLock[r] = q
    <3>1. Phase(q)
      BY <1>1
    <3>2. used[q][p] # Nobody
      BY <2>2
    <3> QED
      BY <2>2, <3>1, <3>2 DEF Phase
  <2>4. Room(r)
    BY <1>1, <2>2 DEF Roomy
  <2> QED
    BY <1>3, <2>1, <2>3, <2>4, CommitRoom
<1>5. ASSUME NEW a \in Admin, NEW r \in Row, work'[a] = "target", r = From(on'[a])
      PROVE  r \in present' /\ rowLock'[r] = a /\ Room(r)'
  <2>1. r \in present /\ rowLock[r] = a /\ Room(r)
    BY <1>1, <1>2, <1>5 DEF Roomy
  <2>2. a # o
    BY ConstantsAssumption
  <2>3. rowLock'[r] = a
    BY <1>1, <1>2, <2>1, <2>2 DEF Released, TypeOK
  <2> QED
    BY <1>2, <1>3, <2>1, <2>2, <2>3, CommitRoom
<1> QED
    BY <1>1, <1>2, <1>4, <1>5, RoomyNext DEF Roomy

(* An admin's step that moves no stock changes no row an order could see. *)
LEMMA AdminQuiet ==
    ASSUME NEW a \in Admin, AdminStep(a), ~MoveStock(a)
    PROVE  UNCHANGED <<present, stock, reserved, status, orders, history>>
    BY DEF AdminStep, ApproveReads, CompleteReads, Approve, ClaimTransfer, LockSource, AdminFails,
           rows

(* What the admins hold: one acts at a time. *)
LEMMA AdminHolds ==
    ASSUME IInv, NEW a \in Admin, AdminStep(a)
    PROVE  /\ \A b \in Admin : work'[b] # "idle" => on'[b] \in Transfer
           /\ \A b \in Admin : b # a => work'[b] = work[b] /\ on'[b] = on[b]
           /\ \A b \in Admin, r \in Row : b # a /\ rowLock[r] = b => rowLock'[r] = b
           /\ work'[a] = "target" => LockSource(a)
<1>1. TypeOK /\ Roomy /\ Nobody \notin Admin
    BY ConstantsAssumption DEF IInv
<1>2. ASSUME NEW t \in Transfer, ApproveReads(a, t) \/ CompleteReads(a, t)
      PROVE  /\ work' \in {[work EXCEPT ![a] = "approve"], [work EXCEPT ![a] = "complete"]}
             /\ on' = [on EXCEPT ![a] = t] /\ rowLock' = rowLock
    BY <1>2 DEF ApproveReads, CompleteReads, AdminAt, locks
<1>3. ASSUME Approve(a) \/ MoveStock(a) \/ AdminFails(a)
      PROVE  /\ work' = [work EXCEPT ![a] = "idle"] /\ on' = [on EXCEPT ![a] = Nobody]
             /\ rowLock' = Released(rowLock, a)
    BY <1>3 DEF Approve, MoveStock, AdminFails, AdminEnds, AdminAt
<1>4. ASSUME ClaimTransfer(a)
      PROVE  /\ work' = [work EXCEPT ![a] = "source"] /\ on' = [on EXCEPT ![a] = on[a]]
             /\ rowLock' = rowLock /\ work[a] = "complete"
    BY <1>4 DEF ClaimTransfer, AdminAt
<1>5. ASSUME LockSource(a)
      PROVE  /\ work' = [work EXCEPT ![a] = "target"] /\ on' = [on EXCEPT ![a] = on[a]]
             /\ work[a] = "source" /\ rowLock[From(on[a])] = Nobody
             /\ rowLock' = [rowLock EXCEPT ![From(on[a])] = a]
    BY <1>5 DEF LockSource, AdminAt
<1>6. ASSUME NEW t \in Transfer, ApproveReads(a, t) \/ CompleteReads(a, t)
      PROVE  /\ \A b \in Admin : work'[b] # "idle" => on'[b] \in Transfer
             /\ \A b \in Admin : b # a => work'[b] = work[b] /\ on'[b] = on[b]
             /\ \A b \in Admin, r \in Row : b # a /\ rowLock[r] = b => rowLock'[r] = b
             /\ work'[a] # "target"
  <2>1. /\ work' \in {[work EXCEPT ![a] = "approve"], [work EXCEPT ![a] = "complete"]}
        /\ on' = [on EXCEPT ![a] = t] /\ rowLock' = rowLock
    BY <1>2, <1>6
  <2>2. work'[a] \in {"approve", "complete"} /\ on'[a] = t
    BY <1>1, <2>1 DEF TypeOK
  <2>3. \A b \in Admin : b # a => work'[b] = work[b] /\ on'[b] = on[b]
    BY <1>1, <2>1 DEF TypeOK
  <2> QED
    BY <1>1, <2>1, <2>2, <2>3 DEF Roomy
<1>7. ASSUME Approve(a) \/ MoveStock(a) \/ AdminFails(a)
      PROVE  /\ \A b \in Admin : work'[b] # "idle" => on'[b] \in Transfer
             /\ \A b \in Admin : b # a => work'[b] = work[b] /\ on'[b] = on[b]
             /\ \A b \in Admin, r \in Row : b # a /\ rowLock[r] = b => rowLock'[r] = b
             /\ work'[a] # "target"
    BY <1>1, <1>3, <1>7 DEF TypeOK, Roomy, Released
<1>8. ASSUME ClaimTransfer(a)
      PROVE  /\ \A b \in Admin : work'[b] # "idle" => on'[b] \in Transfer
             /\ \A b \in Admin : b # a => work'[b] = work[b] /\ on'[b] = on[b]
             /\ \A b \in Admin, r \in Row : b # a /\ rowLock[r] = b => rowLock'[r] = b
             /\ work'[a] # "target"
    BY <1>1, <1>4, <1>8 DEF TypeOK, Roomy
<1>9. ASSUME LockSource(a)
      PROVE  /\ \A b \in Admin : work'[b] # "idle" => on'[b] \in Transfer
             /\ \A b \in Admin : b # a => work'[b] = work[b] /\ on'[b] = on[b]
             /\ \A b \in Admin, r \in Row : b # a /\ rowLock[r] = b => rowLock'[r] = b
    BY <1>1, <1>5, <1>9 DEF TypeOK, Roomy
<1> QED
    BY <1>6, <1>7, <1>8, <1>9 DEF AdminStep

(* What is promised is unchanged by whatever leaves the orders alone. *)
LEMMA OrdersKept ==
    ASSUME IInv, UNCHANGED <<status, via, orders>>, present \subseteq present',
           NEW q \in Order, NEW p \in Product, NEW r \in Row, op'[q] = "reserve", used'[q][p] = r
    PROVE  /\ Room(r) /\ rowLock[r] = q /\ Promised(r)' = Promised(r)
           /\ Promised(r) \in Nat /\ r \in present
<1>1. op[q] = "reserve" /\ used[q][p] = r /\ r # Nobody
    BY RowShape DEF orders
<1>2. used[q][p] # Nobody /\ Phase(q) /\ Roomy /\ Origins
    BY <1>1 DEF IInv
<1>3. rowLock[r] = q /\ r \in present
    BY <1>1, <1>2 DEF Phase, Found
<1>4. Room(r)
    BY <1>1, <1>2 DEF Roomy
<1> QED
    BY <1>2, <1>3, <1>4, PromisedKept, PromisedType

LEMMA AdminRoomy ==
    ASSUME IInv, NEW a \in Admin, AdminStep(a)
    PROVE  Roomy'
<1>1. TypeOK /\ TypeOK' /\ Roomy
    BY AdminTypes DEF IInv
<1>2. CASE ~MoveStock(a)
  <2>1. /\ UNCHANGED <<stock, status, via, skewed, lowered>> /\ present' = present
        /\ UNCHANGED <<status, via, orders>>
    BY <1>2, AdminQuiet DEF history
  <2>2. ASSUME NEW q \in Order, NEW p \in Product, NEW r \in Row, op'[q] = "reserve", used'[q][p] = r
        PROVE  Room(r)'
    BY <2>1, <2>2, OrdersKept, QuietRoom
  <2>3. ASSUME NEW b \in Admin, NEW r \in Row, work'[b] = "target", r = From(on'[b])
        PROVE  r \in present' /\ rowLock'[r] = b /\ Room(r)'
    <3>1. CASE b # a
      <4>1. work[b] = "target" /\ on'[b] = on[b]
        BY <2>3, <3>1, AdminHolds
      <4>2. r \in present /\ rowLock[r] = b /\ Room(r)
        BY <1>1, <2>3, <4>1 DEF Roomy
      <4> QED
        BY <2>1, <3>1, <4>2, AdminHolds, QuietRoom
    <3>2. CASE b = a
      <4>1. LockSource(a)
        BY <2>3, <3>2, AdminHolds
      <4>2. /\ r = From(on[a]) /\ r \in present /\ Available(r) >= 1
            /\ rowLock' = [rowLock EXCEPT ![r] = a] /\ on[a] \in Transfer
        BY <1>1, <2>3, <3>2, <4>1 DEF LockSource, AdminAt, Sparable, TypeOK, Roomy
      <4>3. Room(r)
        BY <4>2, MoveRows, AvailableRoom
      <4> QED
        BY <1>1, <2>1, <3>2, <4>2, <4>3, QuietRoom DEF TypeOK
    <3> QED
      BY <3>1, <3>2
  <2> QED
    BY <1>1, <2>2, <2>3, AdminHolds, RoomyNext
<1>3. CASE MoveStock(a)
  <2> DEFINE from == From(on[a])
             to   == To(on[a])
  <2>1. /\ on[a] \in Transfer /\ rowLock[from] = a /\ rowLock[to] = Nobody
        /\ from \in Row /\ to \in Row
    BY <1>1, <1>3, MoveRows, RowShape DEF MoveStock, Roomy
  <2>2. /\ UNCHANGED <<status, via, orders>> /\ UNCHANGED <<skewed, lowered>>
        /\ present \subseteq present'
        /\ stock' = [stock EXCEPT ![from] = @ - 1, ![to] = @ + 1]
    BY <1>3 DEF MoveStock
  <2> HIDE DEF from, to
  <2>3. \A r \in Row : r # from /\ r # to => stock'[r] = stock[r]
    BY <1>1, <2>2 DEF TypeOK
  <2>4. ASSUME NEW r \in Row, NEW b \in Actor, rowLock[r] = b, b # a, Room(r)
        PROVE  Room(r)'
    <3>1. r # from /\ r # to
      BY <2>1, <2>4, ConstantsAssumption DEF Actor
    <3> QED
      BY <2>2, <2>3, <2>4, <3>1, PromisedKept DEF Room
  <2>5. ASSUME NEW q \in Order, NEW p \in Product, NEW r \in Row, op'[q] = "reserve", used'[q][p] = r
        PROVE  Room(r)'
    <3>1. rowLock[r] = q /\ Room(r) /\ q # a /\ q \in Actor
      BY <2>2, <2>5, OrdersKept, ConstantsAssumption DEF Actor
    <3> QED
      BY <2>4, <3>1
  <2>6. ASSUME NEW b \in Admin, NEW r \in Row, work'[b] = "target", r = From(on'[b])
        PROVE  r \in present' /\ rowLock'[r] = b /\ Room(r)'
    <3>1. b # a
      <4>1. work'[a] = "idle"
        BY <1>1, <1>3 DEF MoveStock, AdminEnds, AdminAt, TypeOK
      <4> QED
        BY <2>6, <4>1
    <3>2. work[b] = "target" /\ on'[b] = on[b]
      BY <2>6, <3>1, AdminHolds
    <3>3. r \in present /\ rowLock[r] = b /\ Room(r) /\ b \in Actor
      BY <1>1, <2>6, <3>2 DEF Roomy, Actor
    <3> QED
      BY <2>2, <2>4, <3>1, <3>3, AdminHolds
  <2> QED
    BY <1>1, <2>5, <2>6, AdminHolds, RoomyNext
<1> QED
    BY <1>2, <1>3

LEMMA AdjustRoomy ==
    ASSUME IInv, NEW r \in OutletRow, NEW n \in Nat, AdjustStock(r, n)
    PROVE  Roomy'
<1>1. TypeOK /\ TypeOK' /\ Roomy /\ r \in Row
    BY AdjustTypes, RowShape DEF IInv
<1>2. /\ UNCHANGED <<status, via, orders>> /\ skewed' = skewed /\ present \subseteq present'
      /\ rowLock' = rowLock /\ work' = work /\ on' = on /\ rowLock[r] = Nobody
      /\ stock' = [stock EXCEPT ![r] = n]
      /\ lowered' \in {lowered \cup {r}, lowered \ {r}}
    BY DEF AdjustStock, locks, admins
<1>3. ASSUME NEW s \in Row, s # r, Room(s)
      PROVE  Room(s)'
  <2>1. stock'[s] = stock[s] /\ (s \in lowered => s \in lowered')
    BY <1>1, <1>2, <1>3 DEF TypeOK
  <2> QED
    BY <1>2, <1>3, <2>1, PromisedKept DEF Room
<1>4. ASSUME NEW q \in Order, NEW p \in Product, NEW s \in Row, op'[q] = "reserve", used'[q][p] = s
      PROVE  Room(s)'
  <2>1. rowLock[s] = q /\ Room(s) /\ q # Nobody
    BY <1>2, <1>4, OrdersKept, ConstantsAssumption
  <2> QED
    BY <1>2, <1>3, <2>1
<1>5. ASSUME NEW b \in Admin, NEW s \in Row, work'[b] = "target", s = From(on'[b])
      PROVE  s \in present' /\ rowLock'[s] = b /\ Room(s)'
  <2>1. s \in present /\ rowLock[s] = b /\ Room(s) /\ b # Nobody
    BY <1>1, <1>2, <1>5, ConstantsAssumption DEF Roomy
  <2> QED
    BY <1>2, <1>3, <2>1
<1> QED
    BY <1>1, <1>2, <1>4, <1>5, RoomyNext DEF Roomy

-----------------------------------------------------------------------------
(* The steps that commit no order's transaction keep the books *)

(* Until it commits a checkout changes only its own outlet, and has no reservation. *)
LEMMA OutletStays ==
    ASSUME IInv, NEW o \in Order, OrderStep(o), ~Commit(o),
           NEW q \in Order, outlet'[q] # outlet[q]
    PROVE  \A p \in Product : status[<<q, p>>] = "none"
<1>1. TypeOK /\ Phase(o)
    BY DEF IInv
<1>2. q = o /\ outlet'[o] # outlet[o]
    BY <1>1, OthersUntouched DEF Untouched
<1>3. ASSUME NEW l \in Outlet, Checkout(o, l) PROVE \A p \in Product : status[<<o, p>>] = "none"
    BY <1>3 DEF Checkout
<1>4. CASE Rollback(o)
    BY <1>1, <1>2, <1>4 DEF Rollback, Phase
<1>5. CASE \/ \E p \in Product : FindRow(o, p) \/ Expire(o, p) \/ ClaimReservation(o, p)
           \/ ReserveAtOutlet(o) \/ LockProduct(o) \/ ReserveAtShop(o)
           \/ Settle(o) \/ Release(o) \/ LockRow(o)
    BY <1>2, <1>5 DEF FindRow, Expire, ClaimReservation, ReserveAtOutlet, LockProduct,
           ReserveAtShop, Settle, Release, LockRow, orders
<1> QED
    BY <1>2, <1>3, <1>4, <1>5 DEF OrderStep

LEMMA QuietBooks ==
    ASSUME IInv, NEW o \in Order, OrderStep(o), ~Commit(o)
    PROVE  Origins' /\ Accounted' /\ NeverOversold'
<1>1. UNCHANGED <<present, stock, reserved, status, via, skewed, lowered>>
    BY QuietStep DEF rows, history
<1>2. TypeOK /\ Phase(o) /\ Origins /\ Accounted /\ NeverOversold
    BY DEF IInv
<1>3. Accounted'
    BY <1>1, <1>2, PromisedKept DEF Accounted
<1>4. NeverOversold'
    BY <1>1, <1>2, PromisedKept DEF NeverOversold
<1>5. \A q \in Order : outlet'[q] # outlet[q] => \A p \in Product : status[<<q, p>>] = "none"
    BY OutletStays
<1>6. Origins'
  <2> SUFFICES ASSUME NEW x \in Reservation, status[x] # "none"
               PROVE  /\ via[x] \in Row /\ via[x][1] = x[2]
                      /\ via[x] \in present /\ via[x][2] \in {outlet'[x[1]], Shop}
    BY <1>1 DEF Origins, Found
  <2>1. x[1] \in Order /\ x[2] \in Product /\ x = <<x[1], x[2]>>
    BY DEF Reservation
  <2>2. outlet'[x[1]] = outlet[x[1]]
    BY <1>5, <2>1
  <2> QED
    BY <1>2, <2>2 DEF Origins, Found
<1> QED
    BY <1>3, <1>4, <1>6

(* Origins only needs rows to stay. *)
LEMMA OriginsKept ==
    ASSUME IInv, UNCHANGED <<status, via, outlet>>, present \subseteq present'
    PROVE  Origins'
<1>1. \A x \in Reservation : status[x] # "none" =>
          via[x] \in Row /\ via[x][1] = x[2] /\ via[x] \in present /\ via[x][2] \in {outlet[x[1]], Shop}
    BY DEF IInv, Origins, Found
<1> QED
    BY <1>1 DEF Origins, Found

(* Nothing is promised from a row that is not there. *)
LEMMA NoRowNoPromise ==
    ASSUME Origins, NEW r, r \notin present
    PROVE  Promised(r) = 0
<1>1. {x \in Reservation : status[x] = "RESERVED" /\ via[x] = r} = {}
    BY DEF Origins, Found
<1> QED
    BY <1>1, FS_EmptySet DEF Promised

LEMMA AdminBooks ==
    ASSUME IInv, NEW a \in Admin, AdminStep(a)
    PROVE  Origins' /\ Accounted' /\ NeverOversold'
<1>1. TypeOK /\ Roomy /\ Origins /\ Accounted /\ NeverOversold
    BY DEF IInv
<1>2. CASE ~MoveStock(a)
  <2>1. UNCHANGED <<present, stock, reserved, status, via, outlet, skewed, lowered>>
    BY <1>2, AdminQuiet DEF orders, history
  <2>2. Accounted'
    BY <1>1, <2>1, PromisedKept DEF Accounted
  <2>3. NeverOversold'
    BY <1>1, <2>1, PromisedKept DEF NeverOversold
  <2> QED
    BY <2>1, <2>2, <2>3, OriginsKept
<1>3. CASE MoveStock(a)
  <2> DEFINE from == From(on[a])
             to   == To(on[a])
  <2>1. on[a] \in Transfer /\ from \in present /\ Room(from) /\ from \in Row /\ to \in Row /\ from # to
    BY <1>1, <1>3, MoveRows, RowShape DEF MoveStock, Roomy
  <2>2. /\ UNCHANGED <<reserved, status, via, outlet, skewed, lowered>>
        /\ present' = present \cup {to}
        /\ stock' = [stock EXCEPT ![from] = @ - 1, ![to] = @ + 1]
    BY <1>3 DEF MoveStock, orders
  <2> HIDE DEF from, to
  <2>3. Accounted'
    BY <1>1, <2>2, PromisedKept DEF Accounted
  <2>4. ASSUME NEW r \in present', r \notin skewed \cup lowered
        PROVE  Promised(r) <= stock'[r]
    <3>1. r \in Row /\ Promised(r) \in Nat /\ stock[r] \in Int
      BY <1>1, <2>1, <2>2, PromisedType DEF TypeOK
    <3>2. CASE r = from
      <4>1. Promised(r) + 1 <= stock[r]
        BY <2>1, <2>4, <3>2 DEF Room
      <4>2. stock'[r] = stock[r] - 1
        BY <1>1, <2>1, <2>2, <3>2 DEF TypeOK
      <4> QED
        BY <3>1, <4>1, <4>2
    <3>3. CASE r = to
      <4>1. stock'[r] = stock[r] + 1
        BY <1>1, <2>1, <2>2, <3>3 DEF TypeOK
      <4>2. Promised(r) <= stock[r]
        BY <1>1, <2>4, <3>1, NoRowNoPromise DEF NeverOversold, TypeOK
      <4> QED
        BY <3>1, <4>1, <4>2
    <3>4. CASE r # from /\ r # to
      BY <1>1, <2>2, <2>4, <3>1, <3>4 DEF NeverOversold, TypeOK
    <3> QED
      BY <3>2, <3>3, <3>4
  <2>5. NeverOversold'
    BY <2>2, <2>4, PromisedKept DEF NeverOversold
  <2> QED
    BY <2>2, <2>3, <2>5, OriginsKept
<1> QED
    BY <1>2, <1>3

LEMMA AdjustBooks ==
    ASSUME IInv, NEW r \in OutletRow, NEW n \in Nat, AdjustStock(r, n)
    PROVE  Origins' /\ Accounted' /\ NeverOversold'
<1>1. TypeOK /\ Origins /\ Accounted /\ NeverOversold /\ r \in Row
    BY RowShape DEF IInv
<1>2. /\ UNCHANGED <<reserved, status, via, outlet, skewed>>
      /\ present' = present \cup {r}
      /\ stock' = [stock EXCEPT ![r] = n]
      /\ lowered' = IF n < Promised(r) THEN lowered \cup {r} ELSE lowered \ {r}
    BY DEF AdjustStock, orders
<1>3. Accounted'
    BY <1>1, <1>2, PromisedKept DEF Accounted
<1>4. ASSUME NEW s \in present', s \notin skewed \cup lowered'
      PROVE  Promised(s) <= stock'[s]
  <2>1. s \in Row /\ Promised(s) \in Nat
    BY <1>1, <1>2, PromisedType DEF TypeOK
  <2>2. CASE s = r
    <3>1. ~(n < Promised(r))
      BY <1>2, <1>4, <2>2
    <3>2. stock'[r] = n
      BY <1>1, <1>2 DEF TypeOK
    <3> QED
      BY <2>1, <2>2, <3>1, <3>2
  <2>3. CASE s # r
    <3>1. s \in present /\ s \notin lowered /\ stock'[s] = stock[s]
      BY <1>1, <1>2, <1>4, <2>1, <2>3 DEF TypeOK
    <3> QED
      BY <1>1, <1>4, <3>1 DEF NeverOversold
  <2> QED
    BY <2>2, <2>3
<1>5. NeverOversold'
    BY <1>2, <1>4, PromisedKept DEF NeverOversold
<1> QED
    BY <1>2, <1>3, <1>5, OriginsKept

-----------------------------------------------------------------------------
(* The inductive invariant *)

LEMMA InitIInv ==
    ASSUME Init
    PROVE  IInv
<1>1. PICK migrated \in Migrated : present = migrated \cup (Product \X {Shop})
    BY DEF Init
<1>2. present \subseteq Row /\ Product \X {Shop} \subseteq present
    BY <1>1, ConstantsAssumption, RowShape
<1>3. TypeOK
    BY <1>2, ConstantsAssumption, RowShape DEF Init, TypeOK, Actor, Unused
<1>4. \A r \in Row : Promised(r) = 0
  <2>1. \A r : {x \in Reservation : status[x] = "RESERVED" /\ via[x] = r} = {}
    BY DEF Init
  <2> QED
    BY <2>1, FS_EmptySet DEF Promised
<1>5. Accounted /\ NeverOversold
    BY <1>2, <1>3, <1>4, ConstantsAssumption, RowShape DEF Init, Accounted, NeverOversold
<1>6. Origins
    BY DEF Init, Origins
<1>7. Roomy
    BY DEF Init, Roomy
<1>8. ASSUME NEW o \in Order PROVE Phase(o) /\ Claims(o) /\ Ascends(o)
  <2>1. op[o] = "idle" /\ row[o] = Nobody /\ used[o] = Unused
    BY DEF Init
  <2>2. /\ \A r \in Row : rowLock[r] # o
        /\ \A x \in Reservation : resLock[x] # o
    BY ConstantsAssumption DEF Init
  <2>3. \A p \in Product : used[o][p] = Nobody /\ <<o, p>> \in Reservation
    BY <2>1 DEF Unused, Reservation
  <2> QED
    BY <2>1, <2>2, <2>3 DEF Phase, Claims, Ascends
<1> QED
    BY <1>2, <1>3, <1>5, <1>6, <1>7, <1>8 DEF IInv

LEMMA NextIInv ==
    ASSUME IInv, [Next]_vars
    PROVE  IInv'
<1>1. TypeOK /\ Product \X {Shop} \subseteq present /\ \A o \in Order : Phase(o) /\ Claims(o) /\ Ascends(o)
    BY DEF IInv
<1>2. ASSUME NEW o \in Order, OrderStep(o) PROVE IInv'
  <2>1. TypeOK'
    BY <1>2, OrderTypes
  <2>2. present' = present
    BY <1>2, QuietStep DEF rows, Commit
  <2>3. \A q \in Order : Phase(q)' /\ Claims(q)' /\ Ascends(q)'
    BY <1>1, <1>2, OwnKeeps, OthersUntouched, UntouchedKeeps
  <2>4. Origins' /\ Accounted' /\ NeverOversold' /\ Roomy'
    BY <1>2, QuietBooks, QuietRoomy, CommitOrigins, CommitAccounts, CommitNeverOversells, CommitRoomy
  <2> QED
    BY <1>1, <2>1, <2>2, <2>3, <2>4 DEF IInv
<1>3. ASSUME NEW a \in Admin, AdminStep(a) PROVE IInv'
  <2>1. TypeOK'
    BY <1>3, AdminTypes
  <2>2. present \subseteq present'
    BY <1>3, AdminQuiet DEF MoveStock
  <2>3. \A q \in Order : Phase(q)' /\ Claims(q)' /\ Ascends(q)'
    BY <1>1, <1>3, AdminsTouchNoOrder, UntouchedKeeps
  <2>4. Origins' /\ Accounted' /\ NeverOversold' /\ Roomy'
    BY <1>3, AdminBooks, AdminRoomy
  <2> QED
    BY <1>1, <2>1, <2>2, <2>3, <2>4 DEF IInv
<1>4. ASSUME NEW r \in Counted, NEW n \in Counts, AdjustStock(r, n) PROVE IInv'
  <2>1. r \in OutletRow /\ n \in Nat
    BY ConstantsAssumption
  <2>2. TypeOK'
    BY <1>4, <2>1, AdjustTypes
  <2>3. present \subseteq present'
    BY <1>4 DEF AdjustStock
  <2>4. \A q \in Order : Phase(q)' /\ Claims(q)' /\ Ascends(q)'
    BY <1>1, <1>4, AdminsTouchNoOrder, UntouchedKeeps
  <2>5. Origins' /\ Accounted' /\ NeverOversold' /\ Roomy'
    BY <1>4, <2>1, AdjustBooks, AdjustRoomy
  <2> QED
    BY <1>1, <2>2, <2>3, <2>4, <2>5 DEF IInv
<1>5. CASE UNCHANGED vars
  <2>1. UNCHANGED <<present, stock, reserved, status, moving, rowLock, resLock, moveLock,
                    op, outlet, todo, row, used, work, on, via, skewed, lowered, moved>>
    BY <1>5 DEF vars, rows, locks, orders, admins, history
  <2>2. TypeOK'
    BY <1>1, <2>1 DEF TypeOK
  <2>3. \A o \in Order : Untouched(o)
    BY <2>1 DEF Untouched
  <2>4. \A o \in Order : Phase(o)' /\ Claims(o)' /\ Ascends(o)'
    BY <1>1, <2>3, UntouchedKeeps
  <2>5. Origins /\ Roomy /\ Accounted /\ NeverOversold
    BY DEF IInv
  <2>6. Origins' /\ Accounted' /\ NeverOversold'
    BY <2>1, <2>5 DEF Origins, Found, Accounted, NeverOversold, Promised
  <2>7. Roomy'
    BY <2>1, <2>5 DEF Roomy, Room, Promised, From
  <2> QED
    BY <1>1, <2>1, <2>2, <2>4, <2>6, <2>7 DEF IInv
<1> QED
    BY <1>2, <1>3, <1>4, <1>5 DEF Next

LEMMA Invariance == Spec => []IInv
<1>1. Init => IInv
    BY InitIInv
<1>2. IInv /\ [Next]_vars => IInv'
    BY NextIInv
<1> QED
    BY <1>1, <1>2, PTL DEF Spec

(* Every row, lock and transaction keeps to its type: a transfer's destination row   *)
(* exists before it holds stock (StockTransferService.completeTransfer).           *)
THEOREM InventoryTypes == Spec => []TypeOK
<1>1. IInv => TypeOK
    BY DEF IInv
<1> QED
    BY <1>1, Invariance, PTL

(* ProductInventory.reserved is the number of RESERVED reservations made on the row,   *)
(* for any orders, carts, transfers and counts                                     *)
(* (reserveForOrder, commitForOrder, releaseForOrder, expireReservation).           *)
THEOREM HoldsAccounted == Spec => []Accounted
<1>1. IInv => Accounted
    BY DEF IInv
<1> QED
    BY <1>1, Invariance, PTL

(* No row promises more units than it has (reserveForOrder's FOR UPDATE checks,        *)
(* completeTransfer's conditional update of the source).                            *)
THEOREM NothingOversold == Spec => []NeverOversold
<1>1. IInv => NeverOversold
    BY DEF IInv
<1> QED
    BY <1>1, Invariance, PTL

-----------------------------------------------------------------------------
(* A completion holds the lock of its transfer, which nobody approves meanwhile. *)
Claimed ==
    \A a \in Admin : work[a] \in {"source", "target"} => moveLock[on[a]] = a /\ moving[on[a]] = "APPROVED"

(* Orders and counts leave transfers alone. *)
LEMMA TransfersKept ==
    ASSUME (\E o \in Order : OrderStep(o)) \/ (\E r \in Counted, n \in Counts : AdjustStock(r, n))
    PROVE  UNCHANGED <<moving, moveLock, work, on, moved>>
BY DEF OrderStep, Checkout, Begins, FindRow, Expire, ClaimReservation, ReserveAtOutlet, LockProduct,
   ReserveAtShop, Settle, Release, LockRow, Commit, Ends, Rollback, AdjustStock,
   rows, locks, admins, history

(* An admin's step moves a transfer only at the end of a completion. *)
LEMMA MoveEffect ==
    ASSUME IInv, Claimed, NEW a \in Admin, AdminStep(a), NEW t \in Transfer, moved'[t] # moved[t]
    PROVE  moving[t] = "APPROVED" /\ moving'[t] = "COMPLETED" /\ moved'[t] = moved[t] + 1
<1>. USE DEF rows, locks, history
<1>1. TypeOK /\ (work[a] # "idle" => on[a] \in Transfer)
  BY DEF IInv, Roomy
<1>2. MoveStock(a)
  BY DEF AdminStep, ApproveReads, CompleteReads, Approve, ClaimTransfer, LockSource, AdminFails
<1>3. /\ work[a] = "target"
      /\ moving' = [moving EXCEPT ![on[a]] = "COMPLETED"]
      /\ moved' = [moved EXCEPT ![on[a]] = @ + 1]
  BY <1>2 DEF MoveStock
<1>4. t = on[a]
  BY <1>1, <1>3 DEF TypeOK
<1>. QED
  BY <1>1, <1>3, <1>4 DEF Claimed, TypeOK

(* A claim is kept until its completion ends: what others approve, claim and let    *)
(* go of are other transfers.                                                   *)
LEMMA ClaimedKept ==
    ASSUME IInv, Claimed, NEW a \in Admin, AdminStep(a) PROVE Claimed'
<1>. USE DEF rows, locks, history
<1>1. TypeOK /\ \A b \in Admin : work[b] # "idle" => on[b] \in Transfer
  BY DEF IInv, Roomy
<1>2. Nobody \notin Admin
  BY ConstantsAssumption
<1>3. ASSUME NEW b \in Admin, b # a, work'[b] \in {"source", "target"}
      PROVE  moveLock'[on'[b]] = b /\ moving'[on'[b]] = "APPROVED"
  <2>1. work'[b] = work[b] /\ on'[b] = on[b]
    BY <1>1, <1>3 DEF AdminStep, ApproveReads, CompleteReads, Approve, ClaimTransfer, LockSource, MoveStock,
       AdminFails, AdminEnds, AdminAt, TypeOK
  <2>2. on[b] \in Transfer /\ moveLock[on[b]] = b /\ moving[on[b]] = "APPROVED"
    BY <1>1, <1>3, <2>1 DEF Claimed
  <2>3. moveLock'[on[b]] = b
    <3>1. CASE ClaimTransfer(a)
      BY <1>1, <1>2, <2>2, <3>1 DEF ClaimTransfer, TypeOK
    <3>2. CASE moveLock' = Released(moveLock, a)
      BY <1>1, <1>3, <2>2, <3>2 DEF Released, TypeOK
    <3>3. CASE moveLock' = moveLock
      BY <2>2, <3>3
    <3>. QED
      BY <3>1, <3>2, <3>3 DEF AdminStep, ApproveReads, CompleteReads, Approve, LockSource, MoveStock,
         AdminFails, AdminEnds
  <2>4. moving'[on[b]] = "APPROVED"
    <3>1. CASE Approve(a)
      BY <1>1, <2>2, <3>1 DEF Approve, TypeOK
    <3>2. CASE MoveStock(a)
      <4>1. work[a] = "target" /\ moving' = [moving EXCEPT ![on[a]] = "COMPLETED"]
        BY <3>2 DEF MoveStock
      <4>2. on[a] # on[b]
        BY <1>3, <2>2, <4>1 DEF Claimed
      <4>. QED
        BY <1>1, <2>2, <4>1, <4>2 DEF TypeOK
    <3>3. CASE moving' = moving
      BY <2>2, <3>3
    <3>. QED
      BY <3>1, <3>2, <3>3 DEF AdminStep, ApproveReads, CompleteReads, ClaimTransfer, LockSource, AdminFails
  <2>. QED
    BY <2>1, <2>3, <2>4
<1>4. ASSUME work'[a] \in {"source", "target"}
      PROVE  moveLock'[on'[a]] = a /\ moving'[on'[a]] = "APPROVED"
  <2>1. CASE ClaimTransfer(a)
    BY <1>1, <2>1 DEF ClaimTransfer, AdminAt, TypeOK
  <2>2. CASE LockSource(a)
    <3>1. work[a] = "source" /\ on'[a] = on[a] /\ moveLock' = moveLock /\ moving' = moving
      BY <1>1, <2>2 DEF LockSource, AdminAt, TypeOK
    <3>. QED
      BY <3>1 DEF Claimed
  <2>3. CASE ~ClaimTransfer(a) /\ ~LockSource(a)
    <3>1. work'[a] \in {"idle", "approve", "complete"}
      BY <1>1, <2>3 DEF AdminStep, ApproveReads, CompleteReads, Approve, MoveStock, AdminFails,
         AdminEnds, AdminAt, TypeOK
    <3>. QED
      BY <1>4, <3>1
  <2>. QED
    BY <2>1, <2>2, <2>3
<1>. QED
  BY <1>3, <1>4 DEF Claimed

(* Concurrent completions of one transfer move its stock once per approval: the     *)
(* compare-and-swap of completeTransfer and its row lock admit one of them.         *)
THEOREM OneMovePerApproval == Spec => MovesAreApproved
<1>1. Init => Claimed
  BY DEF Init, Claimed
<1>2. IInv /\ Claimed /\ [Next]_vars => Claimed'
  <2>1. ASSUME UNCHANGED <<moving, moveLock, work, on, moved>>, Claimed PROVE Claimed'
    BY <2>1 DEF Claimed
  <2>. QED
    BY <2>1, TransfersKept, ClaimedKept DEF Next, vars, rows, locks, admins, history
<1>3. IInv /\ Claimed /\ [Next]_vars =>
        [\A t \in Transfer : moved'[t] # moved[t] =>
            moving[t] = "APPROVED" /\ moving'[t] = "COMPLETED" /\ moved'[t] = moved[t] + 1]_vars
  BY TransfersKept, MoveEffect DEF Next
<1>. QED
  BY <1>1, <1>2, <1>3, InitIInv, NextIInv, PTL DEF Spec, MovesAreApproved

=============================================================================
