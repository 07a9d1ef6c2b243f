-------------------------- MODULE StockBookProofs --------------------------
(***************************************************************************)
(* More theorems about Inventory, for any orders, carts, outlets, transfers   *)
(* and admins: BookInv is inductive, so checkouts, expiries and a transfer       *)
(* never wait in a circle, and the interleaved transactions have the effect of   *)
(* StockBook's, each of which happens at once.                                *)
(***************************************************************************)
EXTENDS InventoryProofs, WellFoundedInduction

Settling(o) == op[o] \in {"commit", "release", "expire"}

-----------------------------------------------------------------------------
(* What an order's transaction holds and has to do *)

LEMMA UntouchedHolds ==
    ASSUME TypeOK, NEW q \in Order, Untouched(q), LocksOf(q), Complete(q)
    PROVE  LocksOf(q)' /\ Complete(q)'
<1>1. /\ op'[q] = op[q] /\ outlet'[q] = outlet[q] /\ todo'[q] = todo[q]
      /\ row'[q] = row[q] /\ used'[q] = used[q]
      /\ \A p \in Product : status'[<<q, p>>] = status[<<q, p>>] /\ via'[<<q, p>>] = via[<<q, p>>]
      /\ \A r \in Row : rowLock'[r] = q <=> rowLock[r] = q
      /\ \A x \in Reservation : resLock'[x] = q <=> resLock[x] = q
      /\ \A p \in Product : resLock'[<<q, p>>] = q <=> resLock[<<q, p>>] = q
    BY DEF Untouched, Reservation
<1>2. row[q] \in Row \cup {Nobody}
    BY DEF TypeOK
<1>3. LocksOf(q)'
    BY <1>1, <1>2 DEF LocksOf
<1>4. {p \in Product : resLock'[<<q, p>>] = q} = {p \in Product : resLock[<<q, p>>] = q}
    BY <1>1
<1>5. Takings(q)' = Takings(q)
    BY <1>1 DEF Takings
<1>6. row[q] # Nobody => row[q][1] \in Product
    BY <1>2, RowShape
<1>7. Complete(q)'
    BY <1>1, <1>4, <1>5, <1>6 DEF Complete
<1> QED
    BY <1>3, <1>7

LEMMA BeginHolds ==
    ASSUME IInv, NEW o \in Order,
           \/ \E l \in Outlet : Checkout(o, l)
           \/ \E p \in Product : Expire(o, p)
           \/ Settle(o) \/ Release(o)
    PROVE  LocksOf(o)' /\ Complete(o)'
<1>1. TypeOK /\ Phase(o)
    BY DEF IInv
<1>2. op[o] = "idle" /\ UNCHANGED <<rows, locks, row, used, via>>
    BY DEF Checkout, Expire, Settle, Release, Begins, history
<1>3. /\ row'[o] = Nobody /\ \A p \in Product : used'[o][p] = Nobody
      /\ \A r \in Row : rowLock'[r] # o
      /\ \A x \in Reservation : resLock'[x] # o
      /\ \A p \in Product : resLock'[<<o, p>>] # o
    BY <1>1, <1>2 DEF Phase, Unused, locks, Reservation
<1>4. LocksOf(o)'
    BY <1>3 DEF LocksOf
<1>5. \/ op'[o] = "reserve" /\ todo'[o] = Cart[o] /\ outlet'[o] \in Outlet
      \/ op'[o] = "commit" /\ todo'[o] = {p \in Product : status[<<o, p>>] = "RESERVED"}
      \/ op'[o] = "release" /\ todo'[o] = {p \in Product : status[<<o, p>>] \in {"RESERVED", "COMMITTED"}}
      \/ op'[o] = "expire" /\ \E p \in Product : todo'[o] = {p}
  <2>1. ASSUME NEW l \in Outlet, Checkout(o, l)
        PROVE  op'[o] = "reserve" /\ todo'[o] = Cart[o] /\ outlet'[o] \in Outlet
    BY <1>1, <2>1 DEF Checkout, Begins, TypeOK
  <2>2. ASSUME NEW p \in Product, Expire(o, p) PROVE op'[o] = "expire" /\ todo'[o] = {p}
    BY <1>1, <2>2 DEF Expire, Begins, TypeOK
  <2>3. ASSUME Settle(o)
        PROVE  op'[o] = "commit" /\ todo'[o] = {p \in Product : status[<<o, p>>] = "RESERVED"}
    BY <1>1, <2>3 DEF Settle, Begins, TypeOK
  <2>4. ASSUME Release(o)
        PROVE  op'[o] = "release" /\ todo'[o] = {p \in Product : status[<<o, p>>] \in {"RESERVED", "COMMITTED"}}
    BY <1>1, <2>4 DEF Release, Begins, TypeOK
  <2> QED
    BY <2>1, <2>2, <2>3, <2>4
<1>6. status' = status
    BY <1>2 DEF rows
<1>7. /\ {p \in Product : resLock'[<<o, p>>] = o} = {}
      /\ {p \in Product : used'[o][p] # Nobody} = {}
    BY <1>3
<1>8. Complete(o)'
    BY <1>3, <1>5, <1>6, <1>7 DEF Complete, Takings
<1> QED
    BY <1>4, <1>8

LEMMA EndHolds ==
    ASSUME IInv, NEW o \in Order, Commit(o) \/ Rollback(o)
    PROVE  LocksOf(o)' /\ Complete(o)'
<1>1. Ends(o) /\ TypeOK
    BY DEF Commit, Rollback, IInv
<1>2. op'[o] = "idle"
    BY <1>1 DEF Ends, TypeOK
<1> QED
    BY <1>2 DEF LocksOf, Complete

(* While a checkout finds and locks its rows, its cart is what is to do and what is done. *)
LEMMA CheckoutHolds ==
    ASSUME IInv, NEW o \in Order, LocksOf(o), Complete(o),
           \/ \E p \in Product : FindRow(o, p)
           \/ LockProduct(o) \/ ReserveAtOutlet(o) \/ ReserveAtShop(o)
    PROVE  LocksOf(o)' /\ Complete(o)'
<1>1. TypeOK /\ Phase(o) /\ Ascends(o)
    BY DEF IInv
<1>2. op[o] = "reserve" /\ op' = op /\ outlet' = outlet
    BY DEF FindRow, LockProduct, ReserveAtOutlet, ReserveAtShop, orders
<1>3. todo[o] \cup {p \in Product : used[o][p] # Nobody} = Cart[o] /\ outlet[o] \in Outlet
    BY <1>2 DEF Complete
<1>4. ASSUME NEW p \in Product, FindRow(o, p) PROVE LocksOf(o)' /\ Complete(o)'
  <2> DEFINE r == RowFor(p, outlet[o])
  <2>1. r \in Row /\ r[1] = p
    BY Parts, RowForType
  <2>2. /\ row[o] = Nobody /\ p \in todo[o]
        /\ row' = [row EXCEPT ![o] = r]
        /\ UNCHANGED <<rowLock, resLock, used, todo>>
    BY <1>4 DEF FindRow, InTurn, locks
  <2> HIDE DEF r
  <2>3. rowLock[r] # o
    <3>1. rowLock[r] = o => r = used[o][p]
      BY <1>1, <1>2, <2>1, <2>2, RowShape DEF Ascends
    <3>2. used[o][p] = Nobody
      BY <1>1, <2>2 DEF Phase
    <3> QED
      BY <2>1, <3>1, <3>2, RowShape
  <2>4. row'[o] = r
    BY <1>1, <2>2 DEF TypeOK
  <2> QED
    BY <1>2, <1>3, <2>2, <2>3, <2>4 DEF LocksOf, Complete
<1>5. CASE LockProduct(o)
  <2>1. row[o] \notin OutletRow /\ UNCHANGED <<row, used, todo>>
    BY <1>5 DEF LockProduct, orders
  <2> QED
    BY <1>2, <1>3, <2>1 DEF LocksOf, Complete
<1>6. CASE ReserveAtOutlet(o) \/ ReserveAtShop(o)
  <2>1. Takes(o, row[o]) /\ row[o] # Nobody /\ row[o] \in Row
    BY <1>6, RowShape DEF ReserveAtOutlet, ReserveAtShop
  <2> DEFINE k == row[o][1]
  <2>2. k \in todo[o] /\ k \in Product
    BY <2>1, RowAtWork
  <2>3. /\ row'[o] = Nobody
        /\ todo'[o] = todo[o] \ {k}
        /\ \A p \in Product : used'[o][p] = IF p = k THEN row[o] ELSE used[o][p]
    BY <1>1, <2>1, <2>2 DEF Takes, TypeOK
  <2> HIDE DEF k
  <2>4. todo'[o] \cup {p \in Product : used'[o][p] # Nobody} = Cart[o]
    BY <1>3, <2>1, <2>2, <2>3
  <2> QED
    BY <1>2, <1>3, <2>3, <2>4 DEF LocksOf, Complete
<1> QED
    BY <1>4, <1>5, <1>6

LEMMA ClaimHolds ==
    ASSUME IInv, NEW o \in Order, LocksOf(o), Complete(o), NEW p \in Product, ClaimReservation(o, p)
    PROVE  LocksOf(o)' /\ Complete(o)'
<1> DEFINE r == RowFor(p, outlet[o])
           x == <<o, p>>
           spared == r[2] = Shop /\ op[o] # "commit" /\ status[x] = "RESERVED"
           mine == {q \in Product : resLock[<<o, q>>] = o}
<1>1. TypeOK /\ Phase(o) /\ Claims(o) /\ Origins
    BY DEF IInv
<1>2. r \in present /\ r \in Row /\ r[1] = p /\ r[2] \in {outlet[o], Shop}
    BY Parts, RowForType
<1>3. /\ Settling(o) /\ p \in todo[o] /\ row[o] = Nobody
      /\ resLock' = [resLock EXCEPT ![x] = o]
      /\ spared => todo' = [todo EXCEPT ![o] = @ \ {p}] /\ row' = row
      /\ ~spared => row' = [row EXCEPT ![o] = r] /\ todo' = todo
      /\ UNCHANGED <<status, rowLock, op, outlet, used, via>>
    BY DEF ClaimReservation, history, rows, Settling
<1>4. x \in Reservation /\ \A q \in Product : <<o, q>> \in Reservation /\ (<<o, q>> = x <=> q = p)
    BY DEF Reservation
<1>5. \/ status[x] = "RESERVED"
      \/ op[o] = "release" /\ status[x] = "COMMITTED"
  <2>1. Settling(o) /\ p \in todo[o]
    BY <1>3
  <2> HIDE DEF spared, r
  <2> QED
    BY <1>1, <2>1 DEF Claims, Settling
<1>6. via[x] \in Row /\ via[x][1] = p /\ via[x] \in present /\ via[x][2] \in {outlet[o], Shop}
    BY <1>1, <1>4, <1>5 DEF Origins, Found
<1>7. via[x] = <<p, via[x][2]>> /\ r = <<p, r[2]>>
    BY <1>2, <1>6, RowShape
<1>8. r \in {via[x], <<p, outlet[o]>>} /\ (spared => via[x] = <<p, Shop>>)
    BY <1>2, <1>6, <1>7 DEF RowFor
<1>9. op[o] = "expire" /\ ~spared => r \in OutletRow
    BY <1>2, <1>5, RowShape
<1> HIDE DEF r, x, spared
<1>10. \A y \in Reservation : resLock'[y] = IF y = x THEN o ELSE resLock[y]
    BY <1>1, <1>3 DEF TypeOK
<1>11. \/ spared /\ todo'[o] = todo[o] \ {p} /\ row'[o] = Nobody
       \/ ~spared /\ todo'[o] = todo[o] /\ row'[o] = r
    BY <1>1, <1>3 DEF TypeOK
<1>12. LocksOf(o)'
  <2>1. \A y \in Reservation : resLock'[y] = o => y[1] = o
    BY <1>3, <1>4, <1>10 DEF LocksOf, Settling, x
  <2> QED
    BY <1>3, <1>9, <1>11, <2>1 DEF LocksOf, Settling
<1>13. {q \in Product : resLock'[<<o, q>>] = o} = mine \cup {p}
    BY <1>4, <1>10
<1>14. todo'[o] \cup (mine \cup {p}) = todo[o] \cup mine
    BY <1>3, <1>11
<1>15. Takings(o)' = Takings(o)
    BY <1>3 DEF Takings, Settling
<1>16. ASSUME NEW q \in (mine \cup {p}) \ todo'[o]
       PROVE  \/ used[o][q] # Nobody /\ used[o][q] \in {via[<<o, q>>], <<q, outlet[o]>>}
              \/ used[o][q] = Nobody /\ op[o] # "commit" /\ status[<<o, q>>] = "RESERVED"
                    /\ via[<<o, q>>] = <<q, Shop>>
  <2>1. CASE q = p
    <3>1. spared
      BY <1>3, <1>11, <1>16, <2>1
    <3>2. used[o][p] = Nobody
      BY <1>1, <1>3 DEF Phase
    <3> QED
      BY <1>8, <2>1, <3>1, <3>2 DEF spared, x
  <2>2. CASE q # p
    <3>1. q \in mine \ todo[o]
      BY <1>11, <1>16, <2>2
    <3> QED
      BY <1>3, <3>1 DEF Complete, Settling
  <2> QED
    BY <2>1, <2>2
<1>17. row'[o] # Nobody => row'[o] \in {via[<<o, row'[o][1]>>], <<row'[o][1], outlet[o]>>}
    BY <1>2, <1>8, <1>11 DEF x
<1>18. Complete(o)'
  <2>1. /\ op[o] \in {"commit", "release"} => todo'[o] \cup (mine \cup {p}) = Takings(o)
        /\ op[o] = "expire" => \E q \in Product : todo'[o] \cup (mine \cup {p}) = {q}
    BY <1>14 DEF Complete
  <2> QED
    BY <1>3, <1>13, <1>15, <1>16, <1>17, <2>1 DEF Complete, Settling
<1> QED
    BY <1>12, <1>18

LEMMA LockRowHolds ==
    ASSUME IInv, NEW o \in Order, LocksOf(o), Complete(o), LockRow(o)
    PROVE  LocksOf(o)' /\ Complete(o)'
<1> DEFINE r == row[o]
           k == row[o][1]
           mine == {q \in Product : resLock[<<o, q>>] = o}
<1>1. TypeOK /\ Phase(o)
    BY DEF IInv
<1>2. /\ Settling(o) /\ r # Nobody
      /\ rowLock' = [rowLock EXCEPT ![r] = o]
      /\ used' = [used EXCEPT ![o][k] = r]
      /\ todo' = [todo EXCEPT ![o] = @ \ {k}]
      /\ row' = [row EXCEPT ![o] = Nobody]
      /\ UNCHANGED <<status, via, resLock, op, outlet>>
    BY DEF LockRow, Takes, rows, history, Settling
<1>3. /\ r \in Row /\ k \in todo[o] /\ k \in Product /\ used[o][k] = Nobody /\ r[1] = k
      /\ k \in mine
    BY <1>2, RowAtWork DEF Settling
<1>4. r \in {via[<<o, k>>], <<k, outlet[o]>>}
    BY <1>2 DEF Complete, Settling
<1> HIDE DEF r, k
<1>5. /\ row'[o] = Nobody /\ todo'[o] = todo[o] \ {k}
      /\ \A p \in Product : used'[o][p] = IF p = k THEN r ELSE used[o][p]
      /\ \A s \in Row : rowLock'[s] = o <=> rowLock[s] = o \/ s = r
    BY <1>1, <1>2, <1>3 DEF TypeOK
<1>6. LocksOf(o)'
  <2>1. ASSUME NEW s \in Row, rowLock'[s] = o PROVE used'[o][s[1]] = s
    <3>1. s[1] \in Product /\ s # Nobody
      BY RowShape
    <3>2. CASE s = r
      BY <1>3, <1>5, <3>2
    <3>3. CASE s # r
      <4>1. used[o][s[1]] = s
        BY <1>2, <1>5, <2>1, <3>3 DEF LocksOf, Settling
      <4> QED
        BY <1>3, <1>5, <3>1, <4>1
    <3> QED
      BY <3>2, <3>3
  <2> QED
    BY <1>2, <1>5, <2>1 DEF LocksOf, Settling
<1>7. todo'[o] \cup mine = todo[o] \cup mine
    BY <1>3, <1>5
<1>8. Takings(o)' = Takings(o)
    BY <1>2 DEF Takings, Settling
<1>9. ASSUME NEW q \in mine \ todo'[o]
      PROVE  \/ used'[o][q] # Nobody /\ used'[o][q] \in {via[<<o, q>>], <<q, outlet[o]>>}
             \/ used'[o][q] = Nobody /\ op[o] # "commit" /\ status[<<o, q>>] = "RESERVED"
                    /\ via[<<o, q>>] = <<q, Shop>>
  <2>1. CASE q = k
    BY <1>2, <1>3, <1>4, <1>5, <2>1
  <2>2. CASE q # k
    <3>1. q \in mine \ todo[o] /\ used'[o][q] = used[o][q]
      BY <1>5, <1>9, <2>2
    <3> QED
      BY <1>2, <3>1 DEF Complete, Settling
  <2> QED
    BY <2>1, <2>2
<1>10. Complete(o)'
  <2>1. {q \in Product : resLock'[<<o, q>>] = o} = mine
    BY <1>2
  <2>2. /\ op[o] \in {"commit", "release"} => todo'[o] \cup mine = Takings(o)
        /\ op[o] = "expire" => \E q \in Product : todo'[o] \cup mine = {q}
    BY <1>7 DEF Complete
  <2> HIDE DEF mine
  <2> QED
    BY <1>2, <1>5, <1>8, <1>9, <2>1, <2>2 DEF Complete, Settling
<1> QED
    BY <1>6, <1>10

(* Whatever an order does, it holds what it says and loses track of no product. *)
LEMMA OwnHolds ==
    ASSUME IInv, NEW o \in Order, LocksOf(o), Complete(o), OrderStep(o)
    PROVE  LocksOf(o)' /\ Complete(o)'
    BY BeginHolds, EndHolds, CheckoutHolds, ClaimHolds, LockRowHolds DEF OrderStep

-----------------------------------------------------------------------------
(* What the admins hold *)

LEMMA OrdersLeaveAdmins ==
    ASSUME IInv, LocksOfAdmins, NEW o \in Order, OrderStep(o)
    PROVE  LocksOfAdmins'
<1>1. TypeOK /\ o \notin Admin /\ Nobody \notin Admin
    BY ConstantsAssumption DEF IInv
<1>2. UNCHANGED <<work, on, moveLock>>
    BY DEF OrderStep, Checkout, FindRow, Expire, ClaimReservation, ReserveAtOutlet, LockProduct,
           ReserveAtShop, Settle, Release, LockRow, Commit, Rollback, Begins, Ends, admins, locks
<1>3. \A a \in Admin, r \in Row : rowLock'[r] = a => rowLock[r] = a
  <2>1. CASE ReserveAtOutlet(o) \/ LockProduct(o) \/ LockRow(o)
    <3>1. rowLock' = [rowLock EXCEPT ![row[o]] = o]
      BY <2>1 DEF ReserveAtOutlet, LockProduct, LockRow
    <3> QED
      BY <1>1, <3>1 DEF TypeOK
  <2>2. CASE Rollback(o) \/ Commit(o)
    <3>1. rowLock' = Released(rowLock, o)
      BY <2>2 DEF Rollback, Commit, Ends
    <3> QED
      BY <1>1, <3>1 DEF Released, TypeOK
  <2>3. CASE \/ \E l \in Outlet : Checkout(o, l)
             \/ \E p \in Product : FindRow(o, p) \/ Expire(o, p) \/ ClaimReservation(o, p)
             \/ ReserveAtShop(o) \/ Settle(o) \/ Release(o)
    BY <2>3 DEF Checkout, FindRow, Expire, ClaimReservation, ReserveAtShop, Settle, Release,
                Begins, locks
  <2> QED
    BY <2>1, <2>2, <2>3 DEF OrderStep
<1> QED
    BY <1>2, <1>3 DEF LocksOfAdmins, From

LEMMA AdminsHold ==
    ASSUME IInv, LocksOfAdmins, NEW a \in Admin, AdminStep(a)
    PROVE  LocksOfAdmins'
<1>1. TypeOK /\ Roomy /\ Nobody \notin Admin
    BY ConstantsAssumption DEF IInv
<1>2. \A b \in Admin : b # a => work'[b] = work[b] /\ on'[b] = on[b]
    BY AdminHolds
<1>3. SUFFICES
        /\ \A b \in Admin : b # a =>
              /\ \A r \in Row : rowLock'[r] = b => rowLock[r] = b
              /\ \A t \in Transfer : moveLock'[t] = b => moveLock[t] = b
        /\ \A r \in Row : rowLock'[r] = a => work'[a] = "target" /\ r = From(on'[a])
        /\ \A t \in Transfer : moveLock'[t] = a => work'[a] \in {"source", "target"} /\ t = on'[a]
    BY <1>2 DEF LocksOfAdmins, From
<1>4. ASSUME NEW t \in Transfer, ApproveReads(a, t) \/ CompleteReads(a, t)
      PROVE  UNCHANGED <<rowLock, moveLock>> /\ work[a] = "idle"
    BY <1>4 DEF ApproveReads, CompleteReads, locks
<1>5. CASE \E t \in Transfer : ApproveReads(a, t) \/ CompleteReads(a, t)
    BY <1>4, <1>5 DEF LocksOfAdmins
<1>6. CASE Approve(a) \/ MoveStock(a) \/ AdminFails(a)
  <2>1. rowLock' = Released(rowLock, a) /\ moveLock' = Released(moveLock, a)
    BY <1>6 DEF Approve, MoveStock, AdminFails, AdminEnds
  <2> QED
    BY <1>1, <2>1 DEF Released, TypeOK
<1>7. CASE ClaimTransfer(a)
  <2>1. /\ work[a] = "complete" /\ rowLock' = rowLock
        /\ moveLock' = [moveLock EXCEPT ![on[a]] = a]
        /\ work'[a] = "source" /\ on'[a] = on[a]
    BY <1>1, <1>7 DEF ClaimTransfer, AdminAt, TypeOK
  <2> QED
    BY <1>1, <2>1 DEF LocksOfAdmins, TypeOK
<1>8. CASE LockSource(a)
  <2>1. /\ work[a] = "source" /\ moveLock' = moveLock
        /\ rowLock' = [rowLock EXCEPT ![From(on[a])] = a]
        /\ work'[a] = "target" /\ on'[a] = on[a]
    BY <1>1, <1>8 DEF LockSource, AdminAt, TypeOK
  <2> QED
    BY <1>1, <2>1 DEF LocksOfAdmins, TypeOK
<1> QED
    BY <1>5, <1>6, <1>7, <1>8 DEF AdminStep

-----------------------------------------------------------------------------
(* What was found free stays free *)

LEMMA FreeType ==
    ASSUME IInv, NEW r \in Row
    PROVE  Free(r) \in Int
<1>1. stock[r] \in Int /\ Promised(r) \in Nat
    BY PromisedType DEF IInv, TypeOK
<1>2. r \in OutletRow => reserved[r] \in Int
    BY DEF IInv, TypeOK
<1> QED
    BY <1>1, <1>2 DEF Free

LEMMA FreeKept ==
    ASSUME NEW r \in Row, stock'[r] = stock[r], UNCHANGED <<reserved, status, via>>
    PROVE  Free(r)' = Free(r)
<1>1. OutletRow' = OutletRow /\ Promised(r)' = Promised(r)
    BY PromisedKept DEF OutletRow
<1> QED
    BY <1>1 DEF Free

(* A row in use is locked by the one that uses it. *)
LEMMA UsersLock ==
    ASSUME IInv, NEW q \in Order, NEW p \in Product, used[q][p] # Nobody
    PROVE  used[q][p] \in Row /\ rowLock[used[q][p]] = q /\ used[q][p][1] = p
<1>1. used \in [Order -> [Product -> Row \cup {Nobody}]] /\ Phase(q)
    BY DEF IInv, TypeOK
<1>2. used[q][p] \in Row
    BY <1>1
<1>3. rowLock[used[q][p]] = q /\ used[q][p][1] = p
    BY <1>1 DEF Phase
<1> QED
    BY <1>2, <1>3

(* Of the steps before its commit only two put a row to use in a checkout, and both   *)
(* have seen that a unit of it is free.                                          *)
LEMMA CheckoutFinds ==
    ASSUME IInv, StaysFree, NEW o \in Order, OrderStep(o), ~Commit(o),
           NEW p \in Product, op'[o] = "reserve", used'[o][p] # Nobody
    PROVE  used'[o][p] \in Row /\ Free(used'[o][p]) >= 1
<1>1. TypeOK /\ Phase(o)
    BY DEF IInv
<1>2. CASE used'[o][p] = used[o][p] /\ op[o] = "reserve"
    BY <1>2, UsersLock DEF StaysFree
<1>3. CASE ReserveAtOutlet(o)
  <2>1. /\ op[o] = "reserve" /\ row[o] \in OutletRow /\ Available(row[o]) >= 1
        /\ used' = [used EXCEPT ![o][row[o][1]] = row[o]]
    BY <1>3 DEF ReserveAtOutlet, Takes
  <2>2. used'[o][p] = used[o][p] \/ used'[o][p] = row[o]
    BY <1>1, <2>1 DEF TypeOK
  <2>3. Free(row[o]) >= 1
    BY <2>1 DEF Free, Available
  <2> QED
    BY <1>2, <2>1, <2>2, <2>3, RowShape
<1>4. CASE ReserveAtShop(o)
  <2>1. /\ op[o] = "reserve" /\ row[o] \in Row \ OutletRow
        /\ stock[row[o]] - Cardinality(Reserved(row[o][1])) >= 1
        /\ used' = [used EXCEPT ![o][row[o][1]] = row[o]]
    BY <1>4 DEF ReserveAtShop, Takes
  <2>2. used'[o][p] = used[o][p] \/ used'[o][p] = row[o]
    BY <1>1, <2>1 DEF TypeOK
  <2>3. /\ Promised(row[o]) \in Nat /\ Cardinality(Reserved(row[o][1])) \in Nat
        /\ Promised(row[o]) <= Cardinality(Reserved(row[o][1])) /\ stock[row[o]] \in Int
    BY <1>1, <2>1, PromisedType DEF IInv, TypeOK
  <2>4. Free(row[o]) >= 1
    BY <2>1, <2>3 DEF Free
  <2> QED
    BY <1>2, <2>1, <2>2, <2>4
<1>5. CASE \/ \E l \in Outlet : Checkout(o, l)
           \/ \E q \in Product : Expire(o, q)
           \/ Settle(o) \/ Release(o)
  <2>1. op[o] = "idle" /\ used' = used
    BY <1>5 DEF Checkout, Expire, Settle, Release, Begins
  <2> QED
    BY <1>1, <2>1 DEF Phase, Unused
<1>6. CASE \/ \E q \in Product : FindRow(o, q) \/ ClaimReservation(o, q)
           \/ LockProduct(o)
  <2>1. UNCHANGED <<op, used>>
    BY <1>6 DEF FindRow, ClaimReservation, LockProduct, orders
  <2> QED
    BY <1>2, <2>1
<1>7. CASE LockRow(o)
    BY <1>7 DEF LockRow
<1>8. CASE Rollback(o)
    BY <1>1, <1>8 DEF Rollback, Ends, TypeOK
<1> QED
    BY <1>3, <1>4, <1>5, <1>6, <1>7, <1>8 DEF OrderStep

(* It needs to be shown for the rows that are put to use. *)
LEMMA StaysFreeNext ==
    ASSUME TypeOK',
           \A q \in Order, p \in Product, r \in Row :
               op'[q] = "reserve" /\ used'[q][p] = r => Free(r)' >= 1,
           \A a \in Admin, r \in Row : work'[a] = "target" /\ r = From(on'[a]) => Free(r)' >= 1,
           \A a \in Admin : work'[a] = "target" => on'[a] \in Transfer
    PROVE  StaysFree'
<1>1. ASSUME NEW q \in Order, NEW p \in Product, op'[q] = "reserve", used'[q][p] # Nobody
      PROVE  Free(used[q][p])' >= 1
  <2>1. used'[q][p] \in Row
    BY <1>1 DEF TypeOK
  <2> QED
    BY <1>1, <2>1 DEF Free, Promised
<1>2. ASSUME NEW a \in Admin, work'[a] = "target"
      PROVE  Free(From(on[a]))' >= 1
  <2>1. From(on'[a]) \in Row
    BY <1>2, MoveRows, RowShape
  <2> QED
    BY <1>2, <2>1 DEF Free, Promised, From
<1> QED
    BY <1>1, <1>2 DEF StaysFree

LEMMA QuietFree ==
    ASSUME IInv, StaysFree, NEW o \in Order, OrderStep(o), ~Commit(o)
    PROVE  StaysFree'
<1>1. UNCHANGED <<stock, reserved, status, via, work, on>>
    BY QuietStep DEF rows, admins, history
<1>2. TypeOK' /\ TypeOK /\ Roomy
    BY OrderTypes DEF IInv
<1>3. ASSUME NEW q \in Order, NEW p \in Product, NEW r \in Row, op'[q] = "reserve", used'[q][p] = r
      PROVE  Free(r)' >= 1
  <2>1. Free(r) >= 1
    <3>1. CASE q = o
      BY <1>3, <3>1, RowShape, CheckoutFinds
    <3>2. CASE q # o
      <4>1. op[q] = "reserve" /\ used[q][p] = r
        BY <1>2, <1>3, <3>2, OthersUntouched DEF Untouched
      <4> QED
        BY <4>1, RowShape DEF StaysFree
    <3> QED
      BY <3>1, <3>2
  <2> QED
    BY <1>1, <2>1, FreeKept
<1>4. ASSUME NEW a \in Admin, NEW r \in Row, work'[a] = "target", r = From(on'[a])
      PROVE  Free(r)' >= 1
  <2>1. Free(r) >= 1
    BY <1>1, <1>4 DEF StaysFree
  <2> QED
    BY <1>1, <2>1, FreeKept
<1> QED
    BY <1>1, <1>2, <1>3, <1>4, StaysFreeNext DEF Roomy

(* A commit leaves the rows it did not use as free as they were. *)
LEMMA CommitFrees ==
    ASSUME IInv, NEW o \in Order, Commit(o), NEW r \in Row, Free(r) >= 1, ~Uses(o, r)
    PROVE  Free(r)' >= 1
<1>1. Promised(r) \in Nat /\ Promised(r)' \in Nat
    BY CommitPromises
<1>2. Promised(r)' \in {Promised(r), Promised(r) - 1}
  <2>1. CASE op[o] = "reserve"
    BY <2>1, CommitPromises
  <2>2. CASE op[o] # "reserve"
    BY <2>2, CommitPromises
  <2> QED
    BY <2>1, <2>2
<1>3. stock'[r] = stock[r] /\ stock[r] \in Int
    BY DEF Commit, StockAfter, IInv, TypeOK
<1>4. r \in OutletRow => reserved'[r] = reserved[r]
    BY DEF Commit, ReservedAfter
<1>5. OutletRow' = OutletRow
    BY DEF OutletRow
<1> QED
    BY <1>1, <1>2, <1>3, <1>4, <1>5 DEF Free

LEMMA CommitStaysFree ==
    ASSUME IInv, StaysFree, NEW o \in Order, Commit(o)
    PROVE  StaysFree'
<1>1. TypeOK /\ TypeOK' /\ Roomy /\ \A q \in Order : Phase(q)
    BY OrderTypes DEF IInv, OrderStep
<1>2. work' = work /\ on' = on /\ op' = [op EXCEPT ![o] = "idle"]
    BY DEF Commit, Ends, admins
<1>3. \A r \in Row : Uses(o, r) => rowLock[r] = o
    BY <1>1, UsedRow
<1>4. ASSUME NEW q \in Order, NEW p \in Product, NEW r \in Row, op'[q] = "reserve", used'[q][p] = r
      PROVE  Free(r)' >= 1
  <2>1. q # o
    BY <1>1, <1>2, <1>4 DEF TypeOK
  <2>2. op[q] = "reserve" /\ used[q][p] = r /\ r # Nobody
    BY <1>1, <1>4, <2>1, RowShape, OthersUntouched DEF Untouched, OrderStep
  <2>3. rowLock[r] = q /\ Free(r) >= 1
    BY <2>2, UsersLock DEF StaysFree
  <2> QED
    BY <1>3, <2>1, <2>3, CommitFrees
<1>5. ASSUME NEW a \in Admin, NEW r \in Row, work'[a] = "target", r = From(on'[a])
      PROVE  Free(r)' >= 1
  <2>1. rowLock[r] = a /\ Free(r) >= 1 /\ a # o
    BY <1>1, <1>2, <1>5, ConstantsAssumption DEF Roomy, StaysFree
  <2> QED
    BY <1>3, <2>1, CommitFrees
<1> QED
    BY <1>1, <1>2, <1>4, <1>5, StaysFreeNext DEF Roomy

(* Nor does an admin lower a row that someone else has locked. *)
LEMMA LockedFree ==
    ASSUME IInv, UNCHANGED <<reserved, status, via, orders>>, TypeOK',
           NEW a,
           \A b \in Actor, r \in Row : rowLock[r] = b /\ b # a => stock'[r] = stock[r],
           \A b \in Admin : work'[b] = "target" =>
                /\ on'[b] \in Transfer
                /\ Free(From(on'[b])) >= 1
                /\ stock'[From(on'[b])] = stock[From(on'[b])],
           a \notin Order, StaysFree
    PROVE  StaysFree'
<1>1. ASSUME NEW q \in Order, NEW p \in Product, NEW r \in Row, op'[q] = "reserve", used'[q][p] = r
      PROVE  Free(r)' >= 1
  <2>1. op[q] = "reserve" /\ used[q][p] = r /\ r # Nobody
    BY <1>1, RowShape DEF orders
  <2>2. rowLock[r] = q /\ Free(r) >= 1 /\ q \in Actor /\ q # a
    BY <2>1, UsersLock DEF StaysFree, Actor
  <2> QED
    BY <2>2, FreeKept
<1>2. ASSUME NEW b \in Admin, NEW r \in Row, work'[b] = "target", r = From(on'[b])
      PROVE  Free(r)' >= 1
    BY <1>2, FreeKept
<1> QED
    BY <1>1, <1>2, StaysFreeNext

LEMMA AdminStaysFree ==
    ASSUME IInv, StaysFree, NEW a \in Admin, AdminStep(a)
    PROVE  StaysFree'
<1>1. TypeOK /\ TypeOK' /\ Roomy /\ a \notin Order
    BY AdminTypes, ConstantsAssumption DEF IInv
<1>2. CASE ~MoveStock(a)
  <2>1. UNCHANGED <<stock, reserved, status, via, orders>>
    BY <1>2, AdminQuiet DEF history
  <2>2. ASSUME NEW b \in Admin, work'[b] = "target"
        PROVE  on'[b] \in Transfer /\ Free(From(on'[b])) >= 1
    <3>1. on'[b] \in Transfer
      BY <2>2, AdminHolds
    <3>2. CASE b # a
      <4>1. work[b] = "target" /\ on'[b] = on[b]
        BY <2>2, <3>2, AdminHolds
      <4> QED
        BY <3>1, <4>1 DEF StaysFree
    <3>3. CASE b = a
      <4>1. LockSource(a)
        BY <2>2, <3>3, AdminHolds
      <4>2. Available(From(on[a])) >= 1 /\ on'[a] = on[a] /\ on[a] \in Transfer
        BY <1>1, <4>1 DEF LockSource, AdminAt, Sparable, TypeOK, Roomy
      <4>3. From(on[a]) \in OutletRow
        BY <4>2, MoveRows
      <4> QED
        BY <3>3, <4>2, <4>3 DEF Free, Available
    <3> QED
      BY <3>2, <3>3
  <2> QED
    BY <1>1, <2>1, <2>2, LockedFree
<1>3. CASE MoveStock(a)
  <2> DEFINE from == From(on[a])
             to   == To(on[a])
  <2>1. on[a] \in Transfer /\ rowLock[from] = a /\ rowLock[to] = Nobody
    BY <1>1, <1>3 DEF MoveStock, Roomy
  <2>2. /\ UNCHANGED <<reserved, status, via, orders>>
        /\ stock' = [stock EXCEPT ![from] = @ - 1, ![to] = @ + 1]
    BY <1>3 DEF MoveStock
  <2> HIDE DEF from, to
  <2>3. \A b \in Actor, r \in Row : rowLock[r] = b /\ b # a => stock'[r] = stock[r]
    BY <1>1, <2>1, <2>2, ConstantsAssumption DEF TypeOK, Actor
  <2>4. ASSUME NEW b \in Admin, work'[b] = "target"
        PROVE  /\ on'[b] \in Transfer
               /\ Free(From(on'[b])) >= 1
               /\ stock'[From(on'[b])] = stock[From(on'[b])]
    <3>1. b # a
      <4>1. work'[a] = "idle"
        BY <1>1, <1>3 DEF MoveStock, AdminEnds, AdminAt, TypeOK
      <4> QED
        BY <2>4, <4>1
    <3>2. work[b] = "target" /\ on'[b] = on[b] /\ on'[b] \in Transfer
      BY <2>4, <3>1, AdminHolds
    <3>3. rowLock[From(on[b])] = b /\ b \in Actor /\ From(on[b]) \in Row
      BY <1>1, <3>2, MoveRows, RowShape DEF Roomy, Actor
    <3> QED
      BY <2>3, <3>1, <3>2, <3>3 DEF StaysFree
  <2> QED
    BY <1>1, <2>2, <2>3, <2>4, LockedFree
<1> QED
    BY <1>2, <1>3

LEMMA AdjustStaysFree ==
    ASSUME IInv, StaysFree, NEW r \in OutletRow, NEW n \in Nat, AdjustStock(r, n)
    PROVE  StaysFree'
<1>1. TypeOK /\ TypeOK' /\ Roomy /\ r \in Row /\ Nobody \notin Actor
    BY AdjustTypes, RowShape, ConstantsAssumption DEF IInv, Actor
<1>2. /\ UNCHANGED <<reserved, status, via, orders, work, on>>
      /\ rowLock[r] = Nobody /\ stock' = [stock EXCEPT ![r] = n]
    BY DEF AdjustStock, admins
<1>3. \A b \in Actor, s \in Row : rowLock[s] = b => stock'[s] = stock[s]
    BY <1>1, <1>2 DEF TypeOK
<1>4. ASSUME NEW b \in Admin, work'[b] = "target"
      PROVE  /\ on'[b] \in Transfer
             /\ Free(From(on'[b])) >= 1
             /\ stock'[From(on'[b])] = stock[From(on'[b])]
  <2>1. on[b] \in Transfer /\ rowLock[From(on[b])] = b /\ b \in Actor /\ From(on[b]) \in Row
    BY <1>1, <1>2, <1>4, MoveRows, RowShape DEF Roomy, Actor
  <2> QED
    BY <1>2, <1>3, <1>4, <2>1 DEF StaysFree
<1>5. Nobody \notin Order
    BY ConstantsAssumption
<1> QED
    BY <1>1, <1>2, <1>3, <1>4, <1>5, LockedFree

-----------------------------------------------------------------------------
(* BookInv is inductive *)

LEMMA InitBookInv ==
    ASSUME Init
    PROVE  BookInv
<1>1. ASSUME NEW o \in Order PROVE op[o] = "idle" /\ LocksOf(o) /\ Complete(o)
    BY DEF Init, LocksOf, Complete
<1>2. LocksOfAdmins
  <2>1. Nobody \notin Admin
    BY ConstantsAssumption
  <2> QED
    BY <2>1 DEF Init, LocksOfAdmins
<1>3. StaysFree
    BY DEF Init, StaysFree
<1> QED
    BY <1>1, <1>2, <1>3 DEF BookInv

LEMMA NextBookInv ==
    ASSUME IInv, BookInv, [Next]_vars
    PROVE  BookInv'
<1>1. /\ TypeOK /\ LocksOfAdmins /\ StaysFree
      /\ \A o \in Order : LocksOf(o) /\ Complete(o)
    BY DEF IInv, BookInv
<1>2. ASSUME NEW o \in Order, OrderStep(o) PROVE BookInv'
  <2>1. \A q \in Order : LocksOf(q)' /\ Complete(q)'
    BY <1>1, <1>2, OwnHolds, OthersUntouched, UntouchedHolds
  <2>2. LocksOfAdmins'
    BY <1>1, <1>2, OrdersLeaveAdmins
  <2>3. StaysFree'
    BY <1>1, <1>2, QuietFree, CommitStaysFree
  <2> QED
    BY <2>1, <2>2, <2>3 DEF BookInv
<1>3. ASSUME NEW a \in Admin, AdminStep(a) PROVE BookInv'
  <2>1. \A q \in Order : LocksOf(q)' /\ Complete(q)'
    BY <1>1, <1>3, AdminsTouchNoOrder, UntouchedHolds
  <2>2. LocksOfAdmins' /\ StaysFree'
    BY <1>1, <1>3, AdminsHold, AdminStaysFree
  <2> QED
    BY <2>1, <2>2 DEF BookInv
<1>4. ASSUME NEW r \in Counted, NEW n \in Counts, AdjustStock(r, n) PROVE BookInv'
  <2>1. r \in OutletRow /\ n \in Nat
    BY ConstantsAssumption
  <2>2. \A q \in Order : LocksOf(q)' /\ Complete(q)'
    BY <1>1, <1>4, AdminsTouchNoOrder, UntouchedHolds
  <2>3. LocksOfAdmins'
    BY <1>1, <1>4 DEF AdjustStock, locks, admins, LocksOfAdmins, From
  <2>4. StaysFree'
    BY <1>1, <1>4, <2>1, AdjustStaysFree
  <2> QED
    BY <2>2, <2>3, <2>4 DEF BookInv
<1>5. CASE UNCHANGED vars
  <2>1. UNCHANGED <<present, stock, reserved, status, rowLock, resLock, moveLock,
                    op, outlet, todo, row, used, work, on, via>>
    BY <1>5 DEF vars, rows, locks, orders, admins, history
  <2>2. \A o \in Order : Untouched(o)
    BY <2>1 DEF Untouched
  <2>3. \A o \in Order : LocksOf(o)' /\ Complete(o)'
    BY <1>1, <2>2, UntouchedHolds
  <2>4. LocksOfAdmins'
    BY <1>1, <2>1 DEF LocksOfAdmins, From
  <2>5. StaysFree'
    BY <1>1, <2>1 DEF StaysFree, Free, Promised, From
  <2> QED
    BY <2>3, <2>4, <2>5 DEF BookInv
<1> QED
    BY <1>2, <1>3, <1>4, <1>5 DEF Next

LEMMA BookInvariance == Spec => [](IInv /\ BookInv)
<1>1. Init => IInv /\ BookInv
    BY InitIInv, InitBookInv
<1>2. IInv /\ BookInv /\ [Next]_vars => (IInv /\ BookInv)'
    BY NextIInv, NextBookInv
<1> QED
    BY <1>1, <1>2, PTL DEF Spec

-----------------------------------------------------------------------------
(* Nobody waits in a circle *)

(* How far a waiting transaction has come: the product it works on, and within the    *)
(* product the locks it already holds.                                            *)
Stage(a) ==
    CASE a \in Order /\ op[a] = "expire"                        -> 4
      [] a \in Order /\ op[a] # "expire" /\ rowLock[row[a]] = a -> 3
      [] a \in Order /\ op[a] # "expire" /\ rowLock[row[a]] # a -> 2
      [] a \in Admin /\ work[a] = "target"                      -> 5
      [] a \in Admin /\ work[a] = "source"                      -> 1
      [] OTHER                                                  -> 0

Depth(a) ==
    CASE a \in Order /\ row[a] = Nobody -> 0
      [] a \in Order /\ row[a] # Nobody -> 6 * row[a][1] + Stage(a)
      [] OTHER                          -> 6 * Move[on[a]].product + Stage(a)

(* a is one of D that wait for others of D only. *)
Stuck(D) ==
    /\ IInv /\ BookInv
    /\ D \in SUBSET Actor /\ Orderly(D)
    /\ \A a \in D : ~(Awaits(a) \cap D \subseteq {a})

LEMMA Kinds ==
    ASSUME NEW a \in Actor
    PROVE  /\ a # Nobody
           /\ a \in Order \/ a \in Admin
           /\ a \in Order <=> a \notin Admin
    BY ConstantsAssumption DEF Actor

LEMMA StuckAwaits ==
    ASSUME NEW D, Stuck(D), NEW a \in D
    PROVE  /\ a \in Actor
           /\ \E b \in D : b # a /\ b \in Awaits(a)
           /\ a \in Order => op[a] \in {"reserve", "expire"}
           /\ a \in Order /\ op[a] = "reserve" => row[a] # Nobody
           /\ a \in Admin => on[a] \in Transfer
<1>1. a \in Actor /\ \E b \in D : b # a /\ b \in Awaits(a)
    BY DEF Stuck
<1>2. a \in Order => op[a] \in {"reserve", "expire"}
    BY DEF Stuck, Orderly
<1>3. a \in Order /\ op[a] = "reserve" => row[a] # Nobody
    BY <1>1 DEF Awaits
<1>4. ASSUME a \in Admin PROVE on[a] \in Transfer
  <2>1. a \notin Order
    BY <1>1, <1>4, Kinds
  <2>2. work[a] # "idle"
    BY <1>1, <2>1 DEF Awaits
  <2> QED
    BY <1>4, <2>2 DEF Stuck, IInv, Roomy
<1> QED
    BY <1>1, <1>2, <1>3, <1>4

(* Where a waiting order is in its products. *)
LEMMA OrderDepth ==
    ASSUME NEW D, Stuck(D), NEW o \in D, o \in Order, row[o] # Nobody
    PROVE  /\ row[o] \in Row /\ row[o][1] \in Product /\ row[o][1] \in todo[o]
           /\ op[o] = "expire" => row[o] \in OutletRow /\ rowLock[row[o]] # o
                                  /\ Depth(o) = 6 * row[o][1] + 4
           /\ op[o] = "reserve" =>
                Depth(o) = 6 * row[o][1] + IF rowLock[row[o]] = o THEN 3 ELSE 2
<1>1. row[o] \in Row /\ row[o][1] \in Product /\ row[o][1] \in todo[o] /\ used[o][row[o][1]] = Nobody
    BY RowAtWork DEF Stuck
<1>2. LocksOf(o) /\ o \in Order
    BY DEF Stuck, BookInv
<1>3. op[o] = "expire" => row[o] \in OutletRow /\ rowLock[row[o]] # o
    BY <1>1, <1>2 DEF LocksOf
<1>4. o \notin Admin
    BY StuckAwaits, Kinds
<1>5. op[o] = "expire" => Stage(o) = 4
    BY <1>4 DEF Stage
<1>6. op[o] = "reserve" => Stage(o) = IF rowLock[row[o]] = o THEN 3 ELSE 2
    BY <1>4 DEF Stage
<1> QED
    BY <1>1, <1>3, <1>5, <1>6 DEF Depth

LEMMA AdminDepth ==
    ASSUME NEW D, Stuck(D), NEW a \in D, a \in Admin
    PROVE  /\ on[a] \in Transfer
           /\ Move[on[a]].product \in Product
           /\ Depth(a) = 6 * Move[on[a]].product +
                         (CASE work[a] = "target" -> 5
                            [] work[a] = "source" -> 1
                            [] OTHER -> 0)
<1>1. a \notin Order /\ on[a] \in Transfer
    BY StuckAwaits, Kinds
<1>2. Move[on[a]].product \in Product
    BY <1>1, ConstantsAssumption
<1>3. Stage(a) = CASE work[a] = "target" -> 5
                   [] work[a] = "source" -> 1
                   [] OTHER -> 0
    BY <1>1 DEF Stage
<1> QED
    BY <1>1, <1>2, <1>3 DEF Depth

(* Whoever has locked a reservation is a checkout that is past its product, or the expiry *)
(* of this very reservation.                                                      *)
LEMMA HolderOfReservation ==
    ASSUME NEW D, Stuck(D), NEW b \in D, NEW x \in Reservation, resLock[x] = b
    PROVE  /\ b \in Order
           /\ \/ op[b] = "reserve" /\ row[b][1] > x[2]
              \/ op[b] = "expire" /\ x[1] = b /\ row[b] # Nobody /\ row[b][1] = x[2]
<1>1. b \in Order
  <2>1. resLock[x] \in Order \cup {Nobody}
    BY DEF Stuck, IInv, TypeOK
  <2> QED
    BY <2>1, StuckAwaits, Kinds
<1>2. Phase(b) /\ Claims(b) /\ Ascends(b) /\ LocksOf(b) /\ Complete(b) /\ TypeOK
    BY <1>1 DEF Stuck, IInv, BookInv
<1>3. x[1] \in Order /\ x[2] \in Product /\ x = <<x[1], x[2]>>
    BY DEF Reservation
<1>4. CASE op[b] = "reserve"
  <2>1. used[b][x[2]] # Nobody
    BY <1>2, <1>4 DEF Ascends
  <2>2. row[b] # Nobody /\ row[b][1] \in todo[b]
    BY <1>1, <1>4, StuckAwaits, OrderDepth
  <2>3. x[2] < row[b][1]
    BY <1>2, <1>3, <1>4, <2>1, <2>2 DEF Ascends
  <2> QED
    BY <1>1, <1>3, <1>4, <2>2, <2>3, OrderDepth, ConstantsAssumption DEF Product
<1>5. CASE op[b] = "expire"
  <2>1. x[1] = b /\ x = <<b, x[2]>>
    BY <1>2, <1>3, <1>5 DEF LocksOf
  <2>2. PICK p \in Product : todo[b] \cup {q \in Product : resLock[<<b, q>>] = b} = {p}
    BY <1>2, <1>5 DEF Complete
  <2>3. x[2] = p
    BY <1>3, <2>1, <2>2
  <2>4. ASSUME row[b] = Nobody PROVE FALSE
    <3>1. PICK c \in Awaits(b) : c # b
      BY StuckAwaits
    <3>2. Awaits(b) = {resLock[<<b, q>>] : q \in todo[b]}
      BY <1>1, <1>5, <2>4 DEF Awaits
    <3>3. \A q \in todo[b] : q = x[2]
      BY <2>2, <2>3
    <3> QED
      BY <2>1, <3>1, <3>2, <3>3
  <2>5. row[b][1] = x[2]
    BY <1>1, <2>2, <2>3, <2>4, OrderDepth
  <2> QED
    BY <1>1, <1>5, <2>1, <2>4, <2>5
<1> QED
    BY <1>1, <1>4, <1>5, StuckAwaits

(* Whoever has locked a row is a checkout past its product, one that looks at its       *)
(* reservations, or the admin who has locked the source of a transfer.             *)
LEMMA HolderOfRow ==
    ASSUME NEW D, Stuck(D), NEW b \in D, NEW r \in Row, rowLock[r] = b
    PROVE  \/ b \in Order /\ op[b] = "reserve" /\ row[b][1] > r[1]
           \/ b \in Order /\ op[b] = "reserve" /\ row[b] = r /\ r \notin OutletRow
           \/ b \in Admin /\ work[b] = "target" /\ Move[on[b]].product = r[1]
<1>1. b \in Actor /\ r[1] \in Product /\ r # Nobody
    BY StuckAwaits, RowShape
<1>2. CASE b \in Admin
    BY <1>2 DEF Stuck, BookInv, LocksOfAdmins, From
<1>3. CASE b \in Order /\ op[b] = "reserve"
  <2>1. Ascends(b) /\ LocksOf(b)
    BY <1>3 DEF Stuck, IInv, BookInv
  <2>2. row[b] # Nobody /\ row[b][1] \in todo[b] /\ row[b][1] \in Product
    BY <1>3, StuckAwaits, OrderDepth
  <2>3. CASE r = row[b]
    BY <1>3, <2>1, <2>2, <2>3 DEF LocksOf
  <2>4. CASE r = used[b][r[1]]
    <3>1. used[b][r[1]] # Nobody
      BY <1>1, <2>4
    <3>2. r[1] < row[b][1]
      BY <1>1, <1>3, <2>1, <2>2, <3>1 DEF Ascends
    <3> QED
      BY <1>1, <1>3, <2>2, <3>2, ConstantsAssumption DEF Product
  <2> QED
    BY <1>3, <2>1, <2>3, <2>4 DEF Ascends
<1>4. CASE b \in Order /\ op[b] = "expire"
  <2>1. Phase(b) /\ LocksOf(b) /\ Complete(b)
    BY <1>4 DEF Stuck, IInv, BookInv
  <2>2. used[b][r[1]] = r
    BY <1>4, <2>1 DEF LocksOf
  <2>3. r[1] \notin todo[b] /\ resLock[<<b, r[1]>>] = b
    BY <1>1, <1>4, <2>1, <2>2 DEF Phase
  <2>4. PICK p \in Product : todo[b] \cup {q \in Product : resLock[<<b, q>>] = b} = {p}
    BY <1>4, <2>1 DEF Complete
  <2>5. todo[b] = {}
    BY <1>1, <2>3, <2>4
  <2>6. row[b] = Nobody
    BY <1>4, <2>5, OrderDepth
  <2>7. Awaits(b) = {}
    BY <1>4, <2>5, <2>6 DEF Awaits
  <2> QED
    BY <2>7, StuckAwaits
<1> QED
    BY <1>1, <1>2, <1>3, <1>4, StuckAwaits, Kinds

(* So each of them waits for one that is further than itself. *)
LEMMA SomeoneFurther ==
    ASSUME NEW D, Stuck(D), NEW a \in D
    PROVE  \E b \in D : Depth(a) < Depth(b)
<1>1. PICK b \in D : b # a /\ b \in Awaits(a)
    BY StuckAwaits
<1>2. a \in Actor /\ b \in Actor
    BY StuckAwaits
<1>3. Products \in Nat /\ \A p \in Product : p \in Nat /\ p >= 1
    BY ConstantsAssumption DEF Product
(* The one that has locked row r is further than someone at its product. *)
<1>4. ASSUME NEW r \in Row, rowLock[r] = b
      PROVE  /\ r[1] \in Product /\ Depth(b) \in Int
             /\ 6 * r[1] + 2 < Depth(b)
             /\ r \in OutletRow => 6 * r[1] + 4 < Depth(b)
  <2>1. r[1] \in Product
    BY RowShape
  <2>2. CASE b \in Order /\ op[b] = "reserve" /\ row[b][1] > r[1]
    <3>1. row[b] # Nobody
      BY <2>2, StuckAwaits
    <3>2. row[b][1] \in Product /\ Depth(b) \in {6 * row[b][1] + 3, 6 * row[b][1] + 2}
      BY <2>2, <3>1, OrderDepth
    <3> QED
      BY <1>3, <1>4, <2>1, <2>2, <3>2
  <2>3. CASE b \in Order /\ op[b] = "reserve" /\ row[b] = r /\ r \notin OutletRow
    <3>1. Depth(b) = 6 * r[1] + 3
      BY <1>4, <2>3, RowShape, OrderDepth
    <3> QED
      BY <1>3, <1>4, <2>1, <2>3, <3>1
  <2>4. CASE b \in Admin /\ work[b] = "target" /\ Move[on[b]].product = r[1]
    <3>1. Depth(b) = 6 * r[1] + 5
      BY <2>4, AdminDepth
    <3> QED
      BY <1>3, <1>4, <2>1, <3>1
  <2> QED
    BY <1>4, <2>2, <2>3, <2>4, HolderOfRow
<1>5. CASE a \in Order /\ row[a] # Nobody /\ rowLock[row[a]] # a
  <2>1. rowLock[row[a]] = b
    BY <1>1, <1>5 DEF Awaits
  <2>2. /\ row[a] \in Row /\ op[a] \in {"reserve", "expire"}
        /\ op[a] = "expire" => row[a] \in OutletRow /\ Depth(a) = 6 * row[a][1] + 4
        /\ op[a] = "reserve" => Depth(a) = 6 * row[a][1] + 2
    BY <1>5, OrderDepth, StuckAwaits
  <2>3. /\ row[a][1] \in Product /\ Depth(b) \in Int /\ 6 * row[a][1] + 2 < Depth(b)
        /\ row[a] \in OutletRow => 6 * row[a][1] + 4 < Depth(b)
    BY <1>4, <2>1, <2>2
  <2> QED
    BY <2>2, <2>3
<1>6. CASE a \in Order /\ row[a] # Nobody /\ rowLock[row[a]] = a
  <2>1. PICK x \in Reserved(row[a][1]) : resLock[x] = b
    BY <1>1, <1>6 DEF Awaits
  <2>2. x \in Reservation /\ x[2] = row[a][1]
    BY <2>1 DEF Reserved
  <2>3. row[a][1] \in Product /\ Depth(a) = 6 * row[a][1] + 3
    BY <1>6, OrderDepth, StuckAwaits
  <2>4. CASE op[b] = "reserve" /\ row[b][1] > x[2]
    <3>1. b \in Order /\ row[b] # Nobody
      BY <2>1, <2>2, <2>4, HolderOfReservation, StuckAwaits
    <3>2. row[b][1] \in Product /\ Depth(b) \in {6 * row[b][1] + 3, 6 * row[b][1] + 2}
      BY <2>4, <3>1, OrderDepth
    <3> QED
      BY <1>3, <2>2, <2>3, <2>4, <3>2
  <2>5. CASE op[b] = "expire" /\ row[b] # Nobody /\ row[b][1] = x[2]
    <3>1. Depth(b) = 6 * row[b][1] + 4
      BY <2>1, <2>2, <2>5, HolderOfReservation, OrderDepth
    <3> QED
      BY <1>3, <2>2, <2>3, <2>5, <3>1
  <2> QED
    BY <2>1, <2>2, <2>4, <2>5, HolderOfReservation
<1>7. CASE a \in Order /\ row[a] = Nobody
  <2>1. op[a] = "expire"
    BY <1>7, StuckAwaits
  <2>2. PICK p \in todo[a] : resLock[<<a, p>>] = b
    BY <1>1, <1>7, <2>1 DEF Awaits
  <2>3. p \in Product /\ <<a, p>> \in Reservation
    BY <1>7 DEF Stuck, IInv, TypeOK, Reservation
  <2>4. b \in Order /\ op[b] = "reserve"
    BY <1>1, <2>2, <2>3, HolderOfReservation
  <2>5. row[b][1] \in Product /\ Depth(b) \in {6 * row[b][1] + 3, 6 * row[b][1] + 2}
    BY <2>4, OrderDepth, StuckAwaits
  <2>6. Depth(a) = 0
    BY <1>7 DEF Depth
  <2> QED
    BY <1>3, <2>5, <2>6
<1>8. CASE a \in Admin
  <2> DEFINE t == on[a]
  <2>1. a \notin Order /\ t \in Transfer /\ Move[t].product \in Product
    BY <1>2, <1>8, Kinds, AdminDepth
  <2>2. From(t) \in Row /\ To(t) \in Row /\ From(t)[1] = Move[t].product /\ To(t)[1] = Move[t].product
    BY <2>1, MoveRows, RowShape DEF From, To
  <2>3. To(t) \in OutletRow
    BY <2>1, MoveRows
  <2>4. CASE work[a] = "source"
    <3>1. rowLock[From(t)] = b
      BY <1>1, <2>1, <2>4 DEF Awaits
    <3>2. Depth(a) = 6 * From(t)[1] + 1
      BY <1>8, <2>2, <2>4, AdminDepth
    <3>3. From(t)[1] \in Product /\ Depth(b) \in Int /\ 6 * From(t)[1] + 2 < Depth(b)
      BY <1>4, <2>2, <3>1
    <3> QED
      BY <1>3, <3>2, <3>3
  <2>5. CASE work[a] = "target"
    <3>1. rowLock[To(t)] = b
      BY <1>1, <2>1, <2>5 DEF Awaits
    <3>2. Depth(a) = 6 * To(t)[1] + 5
      BY <1>8, <2>2, <2>5, AdminDepth
    <3>3. ~(b \in Admin /\ work[b] = "target")
      BY <1>1, <1>8, <2>5 DEF Stuck, Orderly
    <3>4. b \in Order /\ op[b] = "reserve" /\ row[b][1] > To(t)[1]
      BY <2>2, <2>3, <3>1, <3>3, HolderOfRow
    <3>5. row[b][1] \in Product /\ Depth(b) \in {6 * row[b][1] + 3, 6 * row[b][1] + 2}
      BY <3>4, OrderDepth, StuckAwaits
    <3> QED
      BY <1>3, <2>1, <2>2, <3>2, <3>4, <3>5
  <2>6. CASE work[a] \in {"approve", "complete"}
    <3>1. moveLock[t] = b
      BY <1>1, <2>1, <2>6 DEF Awaits
    <3>2. b \in Admin
      <4>1. moveLock[t] \in Admin \cup {Nobody}
        BY <2>1 DEF Stuck, IInv, TypeOK
      <4> QED
        BY <1>2, <3>1, <4>1, Kinds
    <3>3. work[b] \in {"source", "target"} /\ on[b] = t
      BY <2>1, <3>1, <3>2 DEF Stuck, BookInv, LocksOfAdmins
    <3>4. Depth(a) = 6 * Move[t].product + 0
      BY <1>8, <2>6, AdminDepth
    <3>5. Depth(b) \in {6 * Move[t].product + 1, 6 * Move[t].product + 5}
      BY <3>2, <3>3, AdminDepth
    <3> QED
      BY <1>3, <2>1, <3>4, <3>5
  <2>7. work[a] \in {"source", "target", "approve", "complete"}
    BY <1>1, <2>1 DEF Awaits
  <2> QED
    BY <2>4, <2>5, <2>6, <2>7
<1> QED
    BY <1>2, <1>5, <1>6, <1>7, <1>8, Kinds

LEMMA Greatest ==
    ASSUME NEW K \in Nat, NEW T, T \subseteq 0 .. K, T # {}
    PROVE  \E m \in T : \A n \in T : ~(m < n)
<1> DEFINE S == {k \in Nat : \E n \in T : k = K - n}
           R == {pair \in Nat \X Nat : pair[1] < pair[2]}
<1>1. \A n \in T : n \in Nat /\ K - n \in Nat /\ K - n \in S
    OBVIOUS
<1>2. S \subseteq Nat /\ S # {}
    BY <1>1
<1>3. IsWellFoundedOn(R, Nat)
    BY NatLessThanWellFounded DEF OpToRel
<1>4. \E k \in S : \A n \in S : <<n, k>> \notin R
  <2> HIDE DEF S, R
  <2> QED
    BY <1>2, <1>3, WFMin
<1>5. PICK m \in T : \A n \in S : <<n, K - m>> \notin R
    BY <1>4
<1>6. ASSUME NEW n \in T, m < n PROVE FALSE
  <2>1. m \in Nat /\ n \in Nat /\ K - m \in Nat /\ K - n \in Nat
    BY <1>1
  <2>2. K - n < K - m
    BY <1>6, <2>1
  <2>3. <<K - n, K - m>> \in R
    BY <2>1, <2>2
  <2> QED
    BY <1>1, <1>5, <2>3
<1> QED
    BY <1>6

LEMMA DepthBound ==
    ASSUME NEW D, Stuck(D), NEW a \in D
    PROVE  Depth(a) \in 0 .. 6 * Products + 5
<1>1. Products \in Nat /\ \A p \in Product : p \in Nat /\ p >= 1 /\ p <= Products
    BY ConstantsAssumption DEF Product
<1>2. CASE a \in Order /\ row[a] = Nobody
    BY <1>1, <1>2 DEF Depth
<1>3. CASE a \in Order /\ row[a] # Nobody
  <2>1. row[a][1] \in Product /\ Depth(a) \in {6 * row[a][1] + 2, 6 * row[a][1] + 3, 6 * row[a][1] + 4}
    BY <1>3, OrderDepth, StuckAwaits
  <2> QED
    BY <1>1, <2>1
<1>4. CASE a \in Admin
  <2> DEFINE p == Move[on[a]].product
  <2>1. p \in Product /\ Depth(a) \in {6 * p, 6 * p + 1, 6 * p + 5}
    BY <1>1, <1>4, AdminDepth
  <2> HIDE DEF p
  <2> QED
    BY <1>1, <2>1
<1> QED
    BY <1>2, <1>3, <1>4, StuckAwaits, Kinds

(* "two carts with the same products in reversed order can never deadlock (H1)", and more: *)
(* however many checkouts, expiries and transfers there are, no set of them waits in a    *)
(* circle, unless two of the transfers have both locked their sources                  *)
(* (reserveForOrder's ascending productId, expireReservation, completeTransfer).       *)
THEOREM NobodyDeadlocks == Spec => []OrderlyNeverEmbrace
<1>1. ASSUME IInv, BookInv PROVE OrderlyNeverEmbrace
  <2> SUFFICES ASSUME NEW D \in SUBSET Actor, D # {}, Orderly(D),
                      \A a \in D : ~(Awaits(a) \cap D \subseteq {a})
               PROVE  FALSE
    BY DEF OrderlyNeverEmbrace
  <2>1. Stuck(D)
    BY <1>1 DEF Stuck
  <2> DEFINE T == {Depth(a) : a \in D}
             K == 6 * Products + 5
  <2>2. K \in Nat
    BY ConstantsAssumption
  <2>3. T \subseteq 0 .. K /\ T # {}
    BY <2>1, DepthBound
  <2>4. PICK m \in T : \A n \in T : ~(m < n)
    <3> HIDE DEF T, K
    <3> QED
      BY <2>2, <2>3, Greatest
  <2>5. PICK a \in D : m = Depth(a)
    BY <2>4
  <2>6. PICK b \in D : Depth(a) < Depth(b)
    BY <2>1, SomeoneFurther
  <2> QED
    BY <2>4, <2>5, <2>6
<1> QED
    BY <1>1, BookInvariance, PTL

-----------------------------------------------------------------------------
(* The transactions happen at once *)

LEMMA BookSets ==
    /\ Books!Row = Row /\ Books!OutletRow = OutletRow /\ Books!Reservation = Reservation
    BY DEF Books!Row, Books!OutletRow, Books!Reservation, Row, OutletRow, Reservation, Place

LEMMA BookFree ==
    ASSUME NEW r
    PROVE  Books!Free(r) = Free(r)
<1>1. {x \in Books!Reservation : status[x] = "RESERVED" /\ via[x] = r}
        = {x \in Reservation : status[x] = "RESERVED" /\ via[x] = r}
    BY BookSets
<1>2. Books!HeldAtShop(r) = Promised(r)
    BY <1>1 DEF Books!HeldAtShop, Promised, Books!Cardinality, Cardinality
<1> QED
    BY <1>2, BookSets DEF Books!Free, Free

(* A step that leaves rows and reservations alone is none of the book's. *)
LEMMA BookStutters ==
    ASSUME UNCHANGED <<present, stock, reserved, status, via>>,
           \A q \in Order : outlet'[q] # outlet[q] => \A p \in Product : status[<<q, p>>] = "none"
    PROVE  UNCHANGED Books!vars
<1>1. \A q \in Order : Placed(q)' = Placed(q)
    BY DEF Placed
<1>2. \A q \in Order : Placed(q) => outlet'[q] = outlet[q]
    BY DEF Placed
<1>3. PlacedAt' = PlacedAt
    BY <1>1, <1>2 DEF PlacedAt
<1> QED
    BY <1>3 DEF Books!vars

LEMMA InitBooks ==
    ASSUME Init
    PROVE  Books!Init
<1>1. PlacedAt = [o \in Order |-> Nobody]
  <2>1. \A o \in Order : ~Placed(o)
    BY DEF Init, Placed, Reservation
  <2> QED
    BY <2>1 DEF PlacedAt
<1> QED
    BY <1>1, BookSets DEF Init, Books!Init

(* adjustStock *)
LEMMA AdjustBooked ==
    ASSUME NEW r \in Counted, NEW n \in Counts, AdjustStock(r, n)
    PROVE  Books!Next
<1>1. UNCHANGED <<reserved, status, via, outlet>>
    BY DEF AdjustStock, orders
<1>2. PlacedAt' = PlacedAt
    BY <1>1 DEF PlacedAt, Placed
<1>3. Books!Count(r, n)
    BY <1>1, <1>2 DEF AdjustStock, Books!Count
<1> QED
    BY <1>3 DEF Books!Next

(* completeTransfer *)
LEMMA MoveBooked ==
    ASSUME IInv, BookInv, NEW a \in Admin, MoveStock(a)
    PROVE  Books!Next
<1> DEFINE t == on[a]
<1>1. UNCHANGED <<reserved, status, via, outlet>>
    BY DEF MoveStock, orders
<1>2. PlacedAt' = PlacedAt
    BY <1>1 DEF PlacedAt, Placed
<1>3. t \in Transfer /\ From(t) \in present /\ Free(From(t)) >= 1
    BY DEF MoveStock, IInv, Roomy, BookInv, StaysFree
<1>4. /\ present' = present \cup {To(t)}
      /\ stock' = [stock EXCEPT ![From(t)] = @ - 1, ![To(t)] = @ + 1]
    BY DEF MoveStock
<1> HIDE DEF t
<1>5. Books!Ship(t)
    BY <1>1, <1>2, <1>3, <1>4, BookFree DEF Books!Ship, From, To
<1> QED
    BY <1>3, <1>5 DEF Books!Next

(* What the commit of a transaction does to its own reservations and to the rows. *)
LEMMA CommitEffect ==
    ASSUME IInv, NEW o \in Order, Commit(o)
    PROVE  /\ present' = present /\ outlet' = outlet /\ todo[o] = {} /\ row[o] = Nobody
           /\ status' = [x \in Reservation |-> IF x \in Won(o) THEN Outcome(o) ELSE status[x]]
           /\ stock' = [r \in Row |-> StockAfter(o, r)]
           /\ reserved' = [r \in OutletRow |-> ReservedAfter(o, r)]
           /\ op[o] # "reserve" => via' = via
<1>1. /\ present' = present /\ outlet' = outlet /\ todo[o] = {}
      /\ status' = [x \in Reservation |-> IF x \in Won(o) THEN Outcome(o) ELSE status[x]]
      /\ stock' = [r \in Row |-> StockAfter(o, r)]
      /\ reserved' = [r \in OutletRow |-> ReservedAfter(o, r)]
      /\ via' = [x \in Reservation |->
                  IF x \in Won(o) /\ op[o] = "reserve" THEN used[o][x[2]] ELSE via[x]]
    BY DEF Commit
<1>2. row[o] = Nobody
    BY <1>1, RowAtWork
<1>3. op[o] # "reserve" => via' = via
    BY <1>1 DEF IInv, TypeOK
<1> QED
    BY <1>1, <1>2, <1>3

(* A committed checkout reserves its cart at once: every row it used has a unit free. *)
LEMMA ReserveBooked ==
    ASSUME IInv, BookInv, NEW o \in Order, Commit(o), op[o] = "reserve"
    PROVE  Books!Next \/ UNCHANGED Books!vars
<1> DEFINE at == [p \in Cart[o] |-> used[o][p]]
           l  == outlet[o]
<1>1. TypeOK /\ Phase(o) /\ Complete(o) /\ StaysFree
    BY DEF IInv, BookInv
<1>2. /\ present' = present /\ outlet' = outlet /\ todo[o] = {}
      /\ status' = [x \in Reservation |-> IF x \in Won(o) THEN Outcome(o) ELSE status[x]]
      /\ stock' = [r \in Row |-> StockAfter(o, r)]
      /\ reserved' = [r \in OutletRow |-> ReservedAfter(o, r)]
    BY CommitEffect
<1>3. via' = [x \in Reservation |-> IF x \in Won(o) THEN used[o][x[2]] ELSE via[x]]
    BY DEF Commit
<1>4. Cart[o] = {p \in Product : used[o][p] # Nobody} /\ l \in Outlet
    BY <1>1, <1>2 DEF Complete
<1>5. \A x \in Reservation : x \in Won(o) <=> x[1] = o /\ x[2] \in Cart[o]
    BY <1>4 DEF Won, Reservation
<1>6. \A p \in Product : status[<<o, p>>] = "none"
    BY <1>1 DEF Phase
<1>7. Outcome(o) = "RESERVED"
    BY DEF Outcome
<1>8. ASSUME NEW p \in Cart[o]
      PROVE  /\ p \in Product /\ at[p] = used[o][p] /\ at[p] \in Row /\ at[p][1] = p
             /\ at[p] \in {<<p, l>>, <<p, Shop>>} /\ at[p] \in present /\ Free(at[p]) >= 1
  <2>1. p \in Product /\ used[o][p] # Nobody
    BY <1>4
  <2>2. used[o][p] \in Row /\ used[o][p][1] = p
    BY <2>1, UsersLock
  <2>3. Found(o, used[o][p])
    BY <1>1, <2>1 DEF Phase
  <2>4. used[o][p] = <<p, used[o][p][2]>>
    BY <2>2, RowShape
  <2>5. Free(used[o][p]) >= 1
    BY <1>1, <2>1 DEF StaysFree
  <2> QED
    BY <2>1, <2>2, <2>3, <2>4, <2>5 DEF Found
<1>9. stock' = stock
  <2>1. \A r \in Row : StockAfter(o, r) = stock[r]
    BY <1>6, RowShape DEF StockAfter
  <2> QED
    BY <1>1, <1>2, <2>1 DEF TypeOK
<1>10. \A r \in Row : Uses(o, r) <=> r[1] \in Cart[o] /\ at[r[1]] = r
  <2>1. \A r \in Row : r # Nobody /\ r[1] \in Product
    BY RowShape
  <2> QED
    BY <1>4, <2>1 DEF Uses
<1>11. \A r \in OutletRow : ReservedAfter(o, r) = IF Uses(o, r) THEN reserved[r] + 1 ELSE reserved[r]
    BY <1>6, RowShape DEF ReservedAfter
<1>12. CASE Cart[o] = {}
  <2>1. status' = status /\ via' = via
    BY <1>1, <1>2, <1>3, <1>5, <1>12 DEF TypeOK
  <2>2. reserved' = reserved
    BY <1>1, <1>2, <1>10, <1>11, <1>12, RowShape DEF TypeOK
  <2> QED
    BY <1>2, <1>9, <2>1, <2>2, BookStutters
<1>13. CASE Cart[o] # {}
  <2>1. PlacedAt' = [PlacedAt EXCEPT ![o] = l]
    <3>1. ASSUME NEW q \in Order, q # o PROVE Placed(q)' <=> Placed(q)
      <4>1. \A p \in Product : status'[<<q, p>>] = status[<<q, p>>]
        BY <1>2, <1>5, <3>1 DEF Reservation
      <4> QED
        BY <4>1 DEF Placed
    <3>2. Placed(o)'
      <4>1. PICK p \in Cart[o] : TRUE
        BY <1>13
      <4>2. p \in Product /\ <<o, p>> \in Reservation
        BY <1>8 DEF Reservation
      <4> QED
        BY <1>2, <1>5, <1>7, <4>2 DEF Placed
    <3> QED
      BY <1>2, <3>1, <3>2 DEF PlacedAt
  <2>2. DOMAIN at = Cart[o] /\ at \in [Cart[o] -> Row]
    BY <1>8
  <2> HIDE DEF at
  <2>3. Books!Become(o, at, "RESERVED")
    BY <1>2, <1>5, <1>7, <2>2, BookSets DEF Books!Become
  <2>4. via' = [x \in Reservation |-> IF x[1] = o /\ x[2] \in Cart[o] THEN at[x[2]] ELSE via[x]]
    BY <1>3, <1>5, <1>8
  <2>5. reserved' = [r \in OutletRow |-> reserved[r] + Books!One(Books!Uses(at, r))]
    <3>1. \A r \in OutletRow : Books!Uses(at, r) <=> Uses(o, r)
      BY <1>10, <2>2, RowShape DEF Books!Uses
    <3>2. \A r \in OutletRow : reserved[r] \in Int
      BY <1>1 DEF TypeOK
    <3>3. \A r \in OutletRow : ReservedAfter(o, r) = reserved[r] + Books!One(Books!Uses(at, r))
      BY <1>11, <3>1, <3>2 DEF Books!One
    <3> QED
      BY <1>2, <3>3
  <2>6. \A p \in Cart[o] : at[p] \in {<<p, l>>, <<p, Shop>>} \cap present /\ Books!Free(at[p]) >= 1
    BY <1>8, BookFree
  <2>7. Books!Reserve(o, l, at)
    BY <1>2, <1>6, <1>9, <2>1, <2>3, <2>4, <2>5, <2>6, BookSets DEF Books!Reserve
  <2>8. at \in Books!Assignments(Cart[o])
    BY <1>8, <2>2, BookSets DEF Books!Assignments
  <2> QED
    BY <1>4, <2>7, <2>8 DEF Books!Next
<1> QED
    BY <1>12, <1>13

(* The rows a settling transaction answers to: those it has locked, and the shop's for   *)
(* the holds it let go without one.                                              *)
Settled(o) == {p \in Product : resLock[<<o, p>>] = o}
RowsOf(o)  == [p \in Settled(o) |-> IF used[o][p] # Nobody THEN used[o][p] ELSE <<p, Shop>>]

LEMMA SettledRows ==
    ASSUME IInv, BookInv, NEW o \in Order, Commit(o), op[o] # "reserve"
    PROVE  /\ DOMAIN RowsOf(o) = Settled(o) /\ Settled(o) \subseteq Product
           /\ RowsOf(o) \in Books!Assignments(Settled(o))
           /\ op[o] \in {"commit", "release"} => Settled(o) = Takings(o)
           /\ op[o] = "expire" => \E p \in Product : Settled(o) = {p}
           /\ \A p \in Settled(o) :
                /\ \/ status[<<o, p>>] = "RESERVED"
                   \/ op[o] = "release" /\ status[<<o, p>>] = "COMMITTED"
                /\ RowsOf(o)[p] \in {via[<<o, p>>], <<p, outlet[o]>>} \cap present
           /\ \A r \in Row : Uses(o, r) => Books!Uses(RowsOf(o), r)
           /\ \A r \in Row : Books!Uses(RowsOf(o), r) /\ ~Uses(o, r) =>
                r \notin OutletRow /\ op[o] # "commit" /\ status[<<o, r[1]>>] = "RESERVED"
<1> DEFINE at == RowsOf(o)
<1>1. /\ TypeOK /\ Phase(o) /\ Claims(o) /\ Complete(o) /\ Product \X {Shop} \subseteq present
    BY DEF IInv, BookInv
<1>2. todo[o] = {} /\ op[o] \in {"commit", "release", "expire"}
    BY <1>1 DEF Commit, TypeOK
<1>3. DOMAIN at = Settled(o) /\ Settled(o) \subseteq Product
    BY DEF RowsOf, Settled
<1>4. /\ op[o] \in {"commit", "release"} => Settled(o) = Takings(o)
      /\ op[o] = "expire" => \E p \in Product : Settled(o) = {p}
  <2>1. {} \cup Settled(o) = Settled(o)
    OBVIOUS
  <2> QED
    BY <1>1, <1>2, <2>1 DEF Complete, Settled
<1>5. ASSUME NEW p \in Settled(o)
      PROVE  /\ p \in Product /\ at[p] \in Row /\ at[p][1] = p
             /\ \/ status[<<o, p>>] = "RESERVED"
                \/ op[o] = "release" /\ status[<<o, p>>] = "COMMITTED"
             /\ at[p] \in {via[<<o, p>>], <<p, outlet[o]>>} /\ at[p] \in present
             /\ \/ used[o][p] # Nobody /\ at[p] = used[o][p]
                \/ /\ used[o][p] = Nobody /\ at[p] = <<p, Shop>>
                   /\ op[o] # "commit" /\ status[<<o, p>>] = "RESERVED"
  <2>1. p \in Product /\ resLock[<<o, p>>] = o /\ at[p] = IF used[o][p] # Nobody THEN used[o][p] ELSE <<p, Shop>>
    BY <1>3 DEF Settled, RowsOf
  <2>2. \/ status[<<o, p>>] = "RESERVED"
        \/ op[o] = "release" /\ status[<<o, p>>] = "COMMITTED"
    BY <1>1, <1>2, <2>1 DEF Claims
  <2>3. \/ used[o][p] # Nobody /\ used[o][p] \in {via[<<o, p>>], <<p, outlet[o]>>}
        \/ used[o][p] = Nobody /\ op[o] # "commit" /\ status[<<o, p>>] = "RESERVED"
                    /\ via[<<o, p>>] = <<p, Shop>>
    BY <1>1, <1>2, <2>1 DEF Complete
  <2>4. CASE used[o][p] # Nobody
    <3>1. used[o][p] \in Row /\ used[o][p][1] = p
      BY <2>1, <2>4, UsersLock
    <3>2. used[o][p] \in present
      BY <1>1, <2>1, <2>4 DEF Phase, Found
    <3> QED
      BY <2>1, <2>2, <2>3, <2>4, <3>1, <3>2
  <2>5. CASE used[o][p] = Nobody
    <3>1. <<p, Shop>> \in Row /\ <<p, Shop>> \in present
      BY <1>1, <2>1, RowShape
    <3> QED
      BY <2>1, <2>2, <2>3, <2>5, <3>1
  <2> QED
    BY <2>4, <2>5
<1>6. at \in Books!Assignments(Settled(o))
  <2>1. at \in [Settled(o) -> Row]
    BY <1>5 DEF RowsOf
  <2> HIDE DEF at
  <2> QED
    BY <1>5, <2>1, BookSets DEF Books!Assignments
<1> HIDE DEF at
<1>7. ASSUME NEW r \in Row, Uses(o, r) PROVE Books!Uses(at, r)
  <2>1. r[1] \in Product /\ resLock[<<o, r[1]>>] = o /\ used[o][r[1]] = r /\ r # Nobody
    BY <1>1, <1>7, UsedRow, RowShape DEF Uses
  <2>2. r[1] \in Settled(o)
    BY <2>1 DEF Settled
  <2> QED
    BY <1>3, <1>5, <2>1, <2>2 DEF Books!Uses
<1>8. ASSUME NEW r \in Row, Books!Uses(at, r), ~Uses(o, r)
      PROVE  r \notin OutletRow /\ op[o] # "commit" /\ status[<<o, r[1]>>] = "RESERVED"
  <2>1. r[1] \in Settled(o) /\ at[r[1]] = r /\ used[o][r[1]] # r
    BY <1>3, <1>8 DEF Books!Uses, Uses
  <2>2. r = <<r[1], Shop>> /\ op[o] # "commit" /\ status[<<o, r[1]>>] = "RESERVED"
    BY <1>5, <2>1
  <2>3. r[2] = Shop
    BY <2>2
  <2> QED
    BY <2>2, <2>3, RowShape
<1> QED
    BY <1>3, <1>4, <1>5, <1>6, <1>7, <1>8 DEF at

LEMMA SettleEffect ==
    ASSUME IInv, BookInv, NEW o \in Order, Commit(o), op[o] # "reserve"
    PROVE  /\ Books!Answers(o, RowsOf(o))
           /\ Books!Become(o, RowsOf(o), Outcome(o))
           /\ Books!EndHolds(o, RowsOf(o))
           /\ UNCHANGED <<present, via, PlacedAt>>
<1> DEFINE at == RowsOf(o)
<1>1. TypeOK /\ DOMAIN at = Settled(o) /\ Settled(o) \subseteq Product
    BY SettledRows DEF IInv
<1>2. /\ present' = present /\ outlet' = outlet /\ via' = via
      /\ status' = [x \in Reservation |-> IF x \in Won(o) THEN Outcome(o) ELSE status[x]]
      /\ reserved' = [r \in OutletRow |-> ReservedAfter(o, r)]
    BY CommitEffect
<1>3. \A p \in Settled(o) :
        /\ status[<<o, p>>] = "RESERVED" \/ status[<<o, p>>] = "COMMITTED"
        /\ at[p] \in {via[<<o, p>>], <<p, outlet[o]>>} \cap present
    BY SettledRows
<1>4. \A x \in Reservation : x \in Won(o) <=> x[1] = o /\ x[2] \in Settled(o)
  <2>1. \A x \in Reservation : x = <<x[1], x[2]>> /\ x[2] \in Product
    BY DEF Reservation
  <2> QED
    BY <2>1 DEF Won, Settled
<1>5. /\ \A r \in Row : Uses(o, r) => Books!Uses(at, r)
      /\ \A r \in OutletRow : Books!Uses(at, r) => Uses(o, r)
    BY SettledRows, RowShape
<1> HIDE DEF at
<1>6. Books!Become(o, at, Outcome(o))
    BY <1>1, <1>2, <1>4, BookSets DEF Books!Become
<1>7. Books!Answers(o, at)
  <2>1. ASSUME NEW p \in Settled(o) PROVE PlacedAt[o] = outlet[o]
    BY <1>1, <1>3, <2>1 DEF PlacedAt, Placed
  <2> QED
    BY <1>1, <1>3, <2>1 DEF Books!Answers
<1>8. Books!EndHolds(o, at)
  <2>1. \A r \in OutletRow : reserved[r] \in Int /\ r \in Row
    BY <1>1, RowShape DEF TypeOK
  <2>2. \A r \in OutletRow : ReservedAfter(o, r) =
            reserved[r] - IF Uses(o, r) /\ status[<<o, r[1]>>] = "RESERVED" THEN 1 ELSE 0
    BY <2>1 DEF ReservedAfter
  <2>3. \A r \in OutletRow : Books!Uses(at, r) <=> Uses(o, r)
    BY <1>5, <2>1
  <2>4. \A r \in OutletRow : ReservedAfter(o, r) =
            reserved[r] - Books!One(Books!Uses(at, r) /\ Books!Held(o, r[1]))
    BY <2>2, <2>3 DEF Books!One, Books!Held
  <2> QED
    BY <1>2, <2>4, BookSets DEF Books!EndHolds
<1>9. PlacedAt' = PlacedAt
  <2>1. ASSUME NEW q \in Order PROVE Placed(q)' <=> Placed(q)
    <3>1. Outcome(o) # "none"
      BY DEF Outcome
    <3>2. ASSUME NEW p \in Product PROVE status'[<<q, p>>] = "none" <=> status[<<q, p>>] = "none"
      <4>1. <<q, p>> \in Reservation
        BY DEF Reservation
      <4>2. CASE q = o /\ p \in Settled(o)
        <5>1. status'[<<q, p>>] = Outcome(o)
          BY <1>2, <1>4, <4>1, <4>2
        <5> QED
          BY <1>3, <3>1, <4>2, <5>1
      <4>3. CASE ~(q = o /\ p \in Settled(o))
        <5>1. <<q, p>> \notin Won(o)
          BY <1>4, <4>1, <4>3
        <5> QED
          BY <1>2, <4>1, <5>1
      <4> QED
        BY <4>2, <4>3
    <3> QED
      BY <3>2 DEF Placed
  <2> QED
    BY <1>2, <2>1 DEF PlacedAt
<1> QED
    BY <1>2, <1>6, <1>7, <1>8, <1>9 DEF at

(* So a settling transaction pays, gives back or lets lapse at once what it found. *)
LEMMA SettleBooked ==
    ASSUME IInv, BookInv, NEW o \in Order, Commit(o), op[o] # "reserve"
    PROVE  Books!Next
<1> DEFINE at == RowsOf(o)
<1>1. TypeOK /\ op[o] \in {"commit", "release", "expire"}
    BY DEF IInv, TypeOK, Commit
<1>2. /\ DOMAIN at = Settled(o) /\ Settled(o) \subseteq Product
      /\ at \in Books!Assignments(Settled(o))
      /\ op[o] \in {"commit", "release"} => Settled(o) = Takings(o)
      /\ op[o] = "expire" => \E p \in Product : Settled(o) = {p}
      /\ \A p \in Settled(o) :
            \/ status[<<o, p>>] = "RESERVED"
            \/ op[o] = "release" /\ status[<<o, p>>] = "COMMITTED"
    BY SettledRows
<1>3. /\ \A r \in Row : Uses(o, r) => Books!Uses(at, r)
      /\ \A r \in Row : Books!Uses(at, r) /\ ~Uses(o, r) =>
                op[o] # "commit" /\ status[<<o, r[1]>>] = "RESERVED"
    BY SettledRows
<1>4. /\ Books!Answers(o, at) /\ Books!Become(o, at, Outcome(o)) /\ Books!EndHolds(o, at)
      /\ UNCHANGED <<present, via, PlacedAt>>
    BY SettleEffect
<1>5. stock' = [r \in Row |-> StockAfter(o, r)] /\ \A r \in Row : stock[r] \in Int
    BY <1>1, CommitEffect DEF TypeOK
<1>6. \A r \in Row : Uses(o, r) => r[1] \in Settled(o)
    BY <1>2, <1>3 DEF Books!Uses
<1> HIDE DEF at
<1>7. CASE op[o] = "commit"
  <2>1. Settled(o) = {p \in Product : Books!Held(o, p)}
    BY <1>2, <1>7 DEF Takings, Books!Held
  <2>2. \A r \in Row : StockAfter(o, r) = stock[r] - Books!One(Books!Uses(at, r))
    <3>1. \A r \in Row : Uses(o, r) <=> Books!Uses(at, r)
      BY <1>3, <1>7
    <3>2. \A r \in Row : StockAfter(o, r) = IF Uses(o, r) THEN stock[r] - 1 ELSE stock[r]
      BY <1>2, <1>6, <1>7 DEF StockAfter
    <3> QED
      BY <1>5, <3>1, <3>2 DEF Books!One
  <2>3. Outcome(o) = "COMMITTED"
    BY <1>7 DEF Outcome
  <2>4. Books!Pay(o, at)
    BY <1>2, <1>4, <1>5, <2>1, <2>2, <2>3, BookSets DEF Books!Pay
  <2> QED
    BY <1>2, <2>4 DEF Books!Next
<1>8. CASE op[o] = "release"
  <2>1. Settled(o) = {p \in Product : Books!Held(o, p) \/ Books!Sold(o, p)}
    BY <1>2, <1>8 DEF Takings, Books!Held, Books!Sold
  <2>2. \A r \in Row : StockAfter(o, r) = stock[r] + Books!One(Books!Uses(at, r) /\ Books!Sold(o, r[1]))
    <3>1. \A r \in Row : StockAfter(o, r) =
            IF Uses(o, r) /\ status[<<o, r[1]>>] = "COMMITTED" THEN stock[r] + 1 ELSE stock[r]
      BY <1>8 DEF StockAfter
    <3>2. \A r \in Row : Uses(o, r) /\ status[<<o, r[1]>>] = "COMMITTED"
                            <=> Books!Uses(at, r) /\ status[<<o, r[1]>>] = "COMMITTED"
      BY <1>3
    <3> QED
      BY <1>5, <3>1, <3>2 DEF Books!One, Books!Sold
  <2>3. Outcome(o) = "RELEASED"
    BY <1>8 DEF Outcome
  <2>4. Books!GiveBack(o, at)
    BY <1>2, <1>4, <1>5, <2>1, <2>2, <2>3, BookSets DEF Books!GiveBack
  <2> QED
    BY <1>2, <2>4 DEF Books!Next
<1>9. CASE op[o] = "expire"
  <2>1. PICK p \in Product : Settled(o) = {p}
    BY <1>2, <1>9
  <2>2. Books!Held(o, p)
    BY <1>2, <1>9, <2>1 DEF Books!Held
  <2>3. stock' = stock
    <3>1. \A r \in Row : Uses(o, r) => status[<<o, r[1]>>] = "RESERVED"
      BY <1>2, <1>6, <1>9
    <3>2. \A r \in Row : StockAfter(o, r) = stock[r]
      BY <1>9, <3>1 DEF StockAfter
    <3> QED
      BY <1>1, <1>5, <3>2 DEF TypeOK
  <2>4. Outcome(o) = "EXPIRED"
    BY <1>9 DEF Outcome
  <2>5. Books!Lapse(o, at)
    BY <1>2, <1>4, <2>1, <2>2, <2>3, <2>4 DEF Books!Lapse
  <2> QED
    BY <1>2, <2>5 DEF Books!Next
<1> QED
    BY <1>1, <1>7, <1>8, <1>9

(* However the statements of the transactions are interleaved, each has the effect of    *)
(* happening at once when it commits: a checkout reserves on rows that have a unit free   *)
(* at that moment, a settlement, a release and an expiry end just what they find, a       *)
(* transfer moves a unit nobody holds (reserveForOrder, commitForOrder, releaseForOrder,  *)
(* expireReservation, adjustStock, completeTransfer).                                 *)
THEOREM TransactionsSerialize == Spec => Serializable
<1>1. Init => Books!Init
    BY InitBooks
<1>2. IInv /\ BookInv /\ [Next]_vars => [Books!Next]_(Books!vars)
  <2> SUFFICES ASSUME IInv, BookInv, [Next]_vars PROVE Books!Next \/ UNCHANGED Books!vars
    OBVIOUS
  <2>1. ASSUME NEW o \in Order, OrderStep(o) PROVE Books!Next \/ UNCHANGED Books!vars
    <3>1. CASE Commit(o)
      BY <3>1, ReserveBooked, SettleBooked
    <3>2. CASE ~Commit(o)
      <4>1. UNCHANGED <<present, stock, reserved, status, via>>
        BY <2>1, <3>2, QuietStep DEF rows, history
      <4> QED
        BY <2>1, <3>2, <4>1, OutletStays, BookStutters
    <3> QED
      BY <3>1, <3>2
  <2>2. ASSUME NEW a \in Admin, AdminStep(a) PROVE Books!Next \/ UNCHANGED Books!vars
    <3>1. CASE MoveStock(a)
      BY <3>1, MoveBooked
    <3>2. CASE ~MoveStock(a)
      <4>1. UNCHANGED <<present, stock, reserved, status, via, outlet>>
        BY <2>2, <3>2, AdminQuiet DEF orders, history
      <4> QED
        BY <4>1, BookStutters
    <3> QED
      BY <3>1, <3>2
  <2>3. ASSUME NEW r \in Counted, NEW n \in Counts, AdjustStock(r, n)
        PROVE  Books!Next \/ UNCHANGED Books!vars
    BY <2>3, AdjustBooked
  <2>4. CASE UNCHANGED vars
    BY <2>4, BookStutters DEF vars, rows, orders, history
  <2> QED
    BY <2>1, <2>2, <2>3, <2>4 DEF Next
<1> QED
    BY <1>1, <1>2, BookInvariance, PTL DEF Spec, Serializable, Books!Spec

=============================================================================
