----------------------- MODULE OrderSettlementProofs -----------------------
(***************************************************************************)
(* The life of one order keeps its books for any number of concurrent       *)
(* requests and workers, any set of items, any of them booked per outlet,    *)
(* any quantities and any stock.                                            *)
(***************************************************************************)
EXTENDS OrderSettlement, TLAPS

(* The part of the invariant that is about committed rows alone. *)
Books == StockConserved /\ CancelledHoldsNothing /\ EventsExactlyOnce /\ UnpaidOrderIsDead

(* Checkout leaves the books in order. *)
LEMMA InitIInv == Init => IInv
<1> SUFFICES ASSUME Init PROVE IInv
    OBVIOUS
<1> USE ConstantsAssumption DEF Init
<1>1. TypeOK
    BY DEF TypeOK, PaymentStatus, OrderStatus, ActiveOrder, ReservationStatus, NotSeen
<1>2. ASSUME NEW p \in Proc PROVE Phase(p) /\ Claims(p) /\ LockShape(p) /\ GuardsHold(p)
    BY DEF Phase, Claims, LockShape, GuardsHold
<1>3. StockConserved /\ CancelledHoldsNothing /\ EventsExactlyOnce /\ UnpaidOrderIsDead
    BY DEF StockConserved, CancelledHoldsNothing, EventsExactlyOnce, UnpaidOrderIsDead, Event
<1> QED
    BY <1>1, <1>2, <1>3 DEF IInv

(* Steps that leave the committed rows alone leave the books alone. *)
LEMMA BooksKept ==
  ASSUME IInv, UNCHANGED rows
  PROVE  Books'
  BY DEF IInv, Books, rows, StockConserved, CancelledHoldsNothing, EventsExactlyOnce,
         UnpaidOrderIsDead

(* The invariant of the next state from its parts. *)
LEMMA Assemble ==
  ASSUME TypeOK', Books', \A q \in Proc : Phase(q)' /\ Claims(q)' /\ LockShape(q)' /\ GuardsHold(q)'
  PROVE  IInv'
  BY DEF IInv, Books

(* A payment operation that has passed its first read holds nothing yet. *)
LEMMA BeginPaymentOpIInv ==
  ASSUME IInv, NEW p \in Proc, NEW o \in PaymentOp, BeginPaymentOp(p, o)
  PROVE  IInv'
<1> USE ConstantsAssumption DEF BeginPaymentOp, Start, rows, locks
<1>1. TypeOK'
    BY DEF IInv, TypeOK, Op, PaymentOp, ReservationStatus
<1>2. ASSUME NEW q \in Proc PROVE Phase(q)'
    BY DEF IInv, TypeOK, Phase, PaymentOp
<1>3. ASSUME NEW q \in Proc PROVE Claims(q)'
    BY DEF IInv, TypeOK, Phase, Claims, PaymentOp
<1>4. ASSUME NEW q \in Proc PROVE LockShape(q)'
    BY DEF IInv, TypeOK, Phase, Claims, LockShape, PaymentOp
<1>5. ASSUME NEW q \in Proc PROVE GuardsHold(q)'
    BY DEF IInv, TypeOK, Phase, LockShape, GuardsHold, PaymentOp, TerminalPayment
<1>6. Books'
    BY BooksKept
<1> QED
    BY <1>1, <1>2, <1>3, <1>4, <1>5, <1>6, Assemble

(* Neither does a cancellation. *)
LEMMA BeginCancelIInv ==
  ASSUME IInv, NEW p \in Proc, BeginCancel(p)
  PROVE  IInv'
<1> USE ConstantsAssumption DEF BeginCancel, Start, rows, locks
<1>1. TypeOK'
    BY DEF IInv, TypeOK, Op, PaymentOp, ReservationStatus
<1>2. ASSUME NEW q \in Proc PROVE Phase(q)'
    BY DEF IInv, TypeOK, Phase, PaymentOp
<1>3. ASSUME NEW q \in Proc PROVE Claims(q)'
    BY DEF IInv, TypeOK, Phase, Claims, PaymentOp
<1>4. ASSUME NEW q \in Proc PROVE LockShape(q)'
    BY DEF IInv, TypeOK, Phase, Claims, LockShape, PaymentOp
<1>5. ASSUME NEW q \in Proc PROVE GuardsHold(q)'
    BY DEF IInv, TypeOK, Phase, LockShape, GuardsHold, PaymentOp, TerminalPayment
<1>6. Books'
    BY BooksKept
<1> QED
    BY <1>1, <1>2, <1>3, <1>4, <1>5, <1>6, Assemble

(* The sweep sets out to claim one RESERVED row. *)
LEMMA BeginExpireHoldIInv ==
  ASSUME IInv, NEW p \in Proc, NEW i \in Item, BeginExpireHold(p, i)
  PROVE  IInv'
<1> USE ConstantsAssumption DEF BeginExpireHold, Start, NotSeen, rows, locks
<1>1. TypeOK'
    BY DEF IInv, TypeOK, Op, PaymentOp, ReservationStatus
<1>2. ASSUME NEW q \in Proc PROVE Phase(q)'
    BY DEF IInv, TypeOK, Phase, PaymentOp
<1>3. ASSUME NEW q \in Proc PROVE Claims(q)'
    <2>1. CASE q = p
        <3>1. todo'[p] \cup won'[p] = {i} /\ seen'[p][i] = "RESERVED" /\ ~cancels'[p]
            BY DEF IInv, TypeOK, Phase
        <3>2. op'[p] = "expireHold"
            BY DEF IInv, TypeOK
        <3> QED
            BY <2>1, <3>1, <3>2 DEF Claims
    <2>2. CASE q # p
        BY <2>2 DEF IInv, TypeOK, Claims
    <2> QED
        BY <2>1, <2>2
<1>4. ASSUME NEW q \in Proc PROVE LockShape(q)'
    BY DEF IInv, TypeOK, Phase, Claims, LockShape, PaymentOp
<1>5. ASSUME NEW q \in Proc PROVE GuardsHold(q)'
    BY DEF IInv, TypeOK, Phase, LockShape, GuardsHold, PaymentOp, TerminalPayment
<1>6. Books'
    BY BooksKept
<1> QED
    BY <1>1, <1>2, <1>3, <1>4, <1>5, <1>6, Assemble

(* A lost transaction gives back its locks and nothing else. *)
LEMMA RollbackIInv ==
  ASSUME IInv, NEW p \in Proc, Rollback(p)
  PROVE  IInv'
<1> USE ConstantsAssumption DEF Rollback, EndTransaction, Unlocked, NotSeen, rows, locks
<1>1. TypeOK'
    BY DEF IInv, TypeOK, Op, PaymentOp, ReservationStatus
<1>2. ASSUME NEW q \in Proc PROVE Phase(q)'
    BY DEF IInv, TypeOK, Phase, PaymentOp
<1>3. ASSUME NEW q \in Proc PROVE Claims(q)'
    BY DEF IInv, TypeOK, Phase, Claims, PaymentOp
<1>4. ASSUME NEW q \in Proc PROVE LockShape(q)'
    BY DEF IInv, TypeOK, Phase, Claims, LockShape, PaymentOp
<1>5. ASSUME NEW q \in Proc PROVE GuardsHold(q)'
    BY DEF IInv, TypeOK, Phase, LockShape, GuardsHold, PaymentOp, TerminalPayment
<1>6. Books'
    BY BooksKept
<1> QED
    BY <1>1, <1>2, <1>3, <1>4, <1>5, <1>6, Assemble

(* The payment CAS succeeds on an open payment only. *)
LEMMA ClaimPaymentIInv ==
  ASSUME IInv, NEW p \in Proc, ClaimPayment(p)
  PROVE  IInv'
<1> USE ConstantsAssumption DEF ClaimPayment, PaymentClaimable, ExpiryEligible, rows, locks
<1>1. TypeOK'
    BY DEF IInv, TypeOK, Op, PaymentOp, ReservationStatus
<1>2. ASSUME NEW q \in Proc PROVE Phase(q)'
    BY DEF IInv, TypeOK, Phase, PaymentOp
<1>3. ASSUME NEW q \in Proc PROVE Claims(q)'
    BY DEF IInv, TypeOK, Phase, Claims, PaymentOp
<1>4. ASSUME NEW q \in Proc PROVE LockShape(q)'
    BY DEF IInv, TypeOK, Phase, Claims, LockShape, PaymentOp
<1>5. ASSUME NEW q \in Proc PROVE GuardsHold(q)'
    BY DEF IInv, TypeOK, Phase, LockShape, GuardsHold, PaymentOp, TerminalPayment
<1>6. Books'
    BY BooksKept
<1> QED
    BY <1>1, <1>2, <1>3, <1>4, <1>5, <1>6, Assemble

(* A settlement pins an order that is not cancelled. *)
LEMMA SettleLocksOrderIInv ==
  ASSUME IInv, NEW p \in Proc, SettleLocksOrder(p)
  PROVE  IInv'
<1> USE ConstantsAssumption DEF SettleLocksOrder, rows, locks
<1>1. TypeOK'
    BY DEF IInv, TypeOK, Op, PaymentOp, ReservationStatus
<1>2. ASSUME NEW q \in Proc PROVE Phase(q)'
    BY DEF IInv, TypeOK, Phase, PaymentOp
<1>3. ASSUME NEW q \in Proc PROVE Claims(q)'
    BY DEF IInv, TypeOK, Phase, Claims, PaymentOp
<1>4. ASSUME NEW q \in Proc PROVE LockShape(q)'
    BY DEF IInv, TypeOK, Phase, Claims, LockShape, PaymentOp
<1>5. ASSUME NEW q \in Proc PROVE GuardsHold(q)'
    BY DEF IInv, TypeOK, Phase, LockShape, GuardsHold, PaymentOp, TerminalPayment
<1>6. Books'
    BY BooksKept
<1> QED
    BY <1>1, <1>2, <1>3, <1>4, <1>5, <1>6, Assemble

(* A cancellation pins an order that was cancellable. *)
LEMMA CancelOrderIInv ==
  ASSUME IInv, NEW p \in Proc, CancelOrder(p)
  PROVE  IInv'
<1> USE ConstantsAssumption DEF CancelOrder, rows, locks
<1>1. TypeOK'
    BY DEF IInv, TypeOK, Op, PaymentOp, ReservationStatus
<1>2. ASSUME NEW q \in Proc PROVE Phase(q)'
    BY DEF IInv, TypeOK, Phase, PaymentOp
<1>3. ASSUME NEW q \in Proc PROVE Claims(q)'
    BY DEF IInv, TypeOK, Phase, Claims, PaymentOp
<1>4. ASSUME NEW q \in Proc PROVE LockShape(q)'
    BY DEF IInv, TypeOK, Phase, Claims, LockShape, PaymentOp
<1>5. ASSUME NEW q \in Proc PROVE GuardsHold(q)'
    BY DEF IInv, TypeOK, Phase, LockShape, GuardsHold, PaymentOp, TerminalPayment
<1>6. Books'
    BY BooksKept
<1> QED
    BY <1>1, <1>2, <1>3, <1>4, <1>5, <1>6, Assemble

(* An order that is not cancellable stays so without a lock. *)
LEMMA NothingToCancelIInv ==
  ASSUME IInv, NEW p \in Proc, NothingToCancel(p)
  PROVE  IInv'
<1> USE ConstantsAssumption DEF NothingToCancel, rows, locks
<1>1. TypeOK'
    BY DEF IInv, TypeOK, Op, PaymentOp, ReservationStatus
<1>2. ASSUME NEW q \in Proc PROVE Phase(q)'
    BY DEF IInv, TypeOK, Phase, PaymentOp
<1>3. ASSUME NEW q \in Proc PROVE Claims(q)'
    BY DEF IInv, TypeOK, Phase, Claims, PaymentOp
<1>4. ASSUME NEW q \in Proc PROVE LockShape(q)'
    BY DEF IInv, TypeOK, Phase, Claims, LockShape, PaymentOp
<1>5. ASSUME NEW q \in Proc PROVE GuardsHold(q)'
    BY DEF IInv, TypeOK, Phase, LockShape, GuardsHold, PaymentOp, TerminalPayment
<1>6. Books'
    BY BooksKept
<1> QED
    BY <1>1, <1>2, <1>3, <1>4, <1>5, <1>6, Assemble

(* The snapshot covers every reservation the operation is to move. *)
LEMMA ReadReservationsIInv ==
  ASSUME IInv, NEW p \in Proc, ReadReservations(p)
  PROVE  IInv'
<1> USE ConstantsAssumption DEF ReadReservations, Wanted, rows, locks
<1>1. TypeOK'
    BY DEF IInv, TypeOK, Op, PaymentOp, ReservationStatus
<1>2. ASSUME NEW q \in Proc PROVE Phase(q)'
    BY DEF IInv, TypeOK, Phase, PaymentOp
<1>3. ASSUME NEW q \in Proc PROVE Claims(q)'
    <2>1. CASE q = p
        <3>1. /\ won'[p] = {} /\ op'[p] # "expireHold"
              /\ op'[p] = "settle" \/ cancels'[p]
            BY DEF IInv, TypeOK, Phase, PaymentOp
        <3>2. \A i \in todo'[p] : i \in Item /\ seen'[p][i] = res[i] /\ res[i] \in Wanted(op[p])
            BY DEF IInv, TypeOK
        <3>3. cancels[p] => op[p] # "settle"
            BY DEF IInv, Phase
        <3> QED
            BY <2>1, <3>1, <3>2, <3>3 DEF Claims, Wanted
    <2>2. CASE q # p
        BY <2>2 DEF IInv, TypeOK, Claims
    <2> QED
        BY <2>1, <2>2
<1>4. ASSUME NEW q \in Proc PROVE LockShape(q)'
    BY DEF IInv, TypeOK, Phase, Claims, LockShape, PaymentOp
<1>5. ASSUME NEW q \in Proc PROVE GuardsHold(q)'
    <2>1. CASE q = p
        <3>1. cancels[p] => op[p] # "settle"
            BY DEF IInv, Phase
        <3>2. cancels[p] => \A i \in Item :
                                \/ res[i] \in {"RELEASED", "EXPIRED"}
                                \/ i \in todo'[p] /\ res[i] = seen'[p][i]
            <4>1. SUFFICES ASSUME cancels[p], NEW i \in Item, res[i] \in {"RESERVED", "COMMITTED"}
                           PROVE  i \in todo'[p] /\ res[i] = seen'[p][i]
                BY DEF IInv, TypeOK, ReservationStatus
            <4>2. res[i] \in Wanted(op[p])
                BY <3>1, <4>1 DEF Wanted
            <4> QED
                BY <4>2 DEF IInv, TypeOK
        <3>3. op[p] \in {"fail", "expire"} => cancels[p]
            BY DEF IInv, Phase
        <3> QED
            BY <2>1, <3>2, <3>3 DEF IInv, TypeOK, GuardsHold
    <2>2. CASE q # p
        BY <2>2 DEF IInv, TypeOK, GuardsHold
    <2> QED
        BY <2>1, <2>2
<1>6. Books'
    BY BooksKept
<1> QED
    BY <1>1, <1>2, <1>3, <1>4, <1>5, <1>6, Assemble

(* The CAS on the observed status pins the reservation. *)
LEMMA ClaimReservationIInv ==
  ASSUME IInv, NEW p \in Proc, NEW i \in Item, ClaimReservation(p, i)
  PROVE  IInv'
<1> USE ConstantsAssumption DEF ClaimReservation, StillAsSeen, BetweenItems, rows, locks
<1> DEFINE rest == IF TouchesStock(p, i) THEN todo[p] ELSE todo[p] \ {i}
           gained == IF TouchesStock(p, i) THEN won[p] ELSE won[p] \cup {i}
<1>0. todo' = [todo EXCEPT ![p] = rest] /\ won' = [won EXCEPT ![p] = gained]
    BY DEF IInv, TypeOK
<1>7. \A q \in Proc : /\ todo'[q] \cup won'[q] = todo[q] \cup won[q]
                      /\ q # p => todo'[q] = todo[q] /\ won'[q] = won[q]
                      /\ won[q] \subseteq won'[q] /\ won'[q] \subseteq won[q] \cup {i}
                      /\ pc'[q] = pc[q] /\ op'[q] = op[q] /\ cancels'[q] = cancels[q]
                      /\ seen'[q] = seen[q]
    BY <1>0 DEF IInv, TypeOK
<1>8. /\ resLock[i] = Free /\ resLock' = [resLock EXCEPT ![i] = p] /\ i \in todo[p]
      /\ res[i] = seen[p][i] /\ UNCHANGED <<rows, payLock, orderLock, stockLock>>
    OBVIOUS
<1> HIDE DEF rest, gained
<1>1. TypeOK'
    BY <1>0 DEF IInv, TypeOK, rest, gained
<1>2. ASSUME NEW q \in Proc PROVE Phase(q)'
    BY <1>0 DEF IInv, TypeOK, Phase, rest, gained
<1>3. ASSUME NEW q \in Proc PROVE Claims(q)'
    BY <1>7 DEF IInv, Claims
<1>4. ASSUME NEW q \in Proc PROVE LockShape(q)'
    <2>1. won'[p] \subseteq won[p] \cup {i} /\ i \in todo[p] /\ resLock'[i] = p
        BY <1>7, <1>8 DEF IInv, TypeOK
    <2>2. \A j \in Item : resLock'[j] = IF j = i THEN p ELSE resLock[j]
        BY <1>8 DEF IInv, TypeOK
    <2> QED
        BY <1>7, <1>8, <2>1, <2>2 DEF IInv, TypeOK, LockShape
<1>5. ASSUME NEW q \in Proc PROVE GuardsHold(q)'
    BY <1>7, <1>8 DEF IInv, GuardsHold
<1>6. Books'
    BY BooksKept
<1> QED
    BY <1>1, <1>2, <1>3, <1>4, <1>5, <1>6, Assemble

(* A reservation whose CAS is lost is not one the operation has to move. *)
LEMMA SkipReservationIInv ==
  ASSUME IInv, NEW p \in Proc, NEW i \in Item, SkipReservation(p, i)
  PROVE  IInv'
<1> USE ConstantsAssumption DEF SkipReservation, StillAsSeen, BetweenItems, rows, locks
<1>1. TypeOK'
    BY DEF IInv, TypeOK, Op, PaymentOp, ReservationStatus
<1>2. ASSUME NEW q \in Proc PROVE Phase(q)'
    BY DEF IInv, TypeOK, Phase, PaymentOp
<1>3. ASSUME NEW q \in Proc PROVE Claims(q)'
    BY DEF IInv, TypeOK, Phase, Claims, PaymentOp
<1>4. ASSUME NEW q \in Proc PROVE LockShape(q)'
    BY DEF IInv, TypeOK, Phase, Claims, LockShape, PaymentOp
<1>5. ASSUME NEW q \in Proc PROVE GuardsHold(q)'
    BY DEF IInv, TypeOK, Phase, Claims, LockShape, GuardsHold, PaymentOp, TerminalPayment
<1>6. Books'
    BY BooksKept
<1> QED
    BY <1>1, <1>2, <1>3, <1>4, <1>5, <1>6, Assemble

(* The stock row is locked under the reservation row. *)
LEMMA LockStockIInv ==
  ASSUME IInv, NEW p \in Proc, NEW i \in Item, LockStock(p, i)
  PROVE  IInv'
<1> USE ConstantsAssumption DEF LockStock, rows, locks
<1>1. TypeOK'
    BY DEF IInv, TypeOK, Op, PaymentOp, ReservationStatus
<1>2. ASSUME NEW q \in Proc PROVE Phase(q)'
    BY DEF IInv, TypeOK, Phase, PaymentOp
<1>3. ASSUME NEW q \in Proc PROVE Claims(q)'
    BY DEF IInv, TypeOK, Phase, Claims, PaymentOp
<1>4. ASSUME NEW q \in Proc PROVE LockShape(q)'
    BY DEF IInv, TypeOK, Phase, Claims, LockShape, PaymentOp
<1>5. ASSUME NEW q \in Proc PROVE GuardsHold(q)'
    BY DEF IInv, TypeOK, Phase, LockShape, GuardsHold, PaymentOp, TerminalPayment
<1>6. Books'
    BY BooksKept
<1> QED
    BY <1>1, <1>2, <1>3, <1>4, <1>5, <1>6, Assemble

(* A commit moves counters, reservations, payment, order and events together. *)
LEMMA CommitIInv ==
  ASSUME IInv, NEW p \in Proc, Commit(p)
  PROVE  IInv'
<1> USE ConstantsAssumption
<1>1. /\ todo[p] = {} /\ pc[p] = "items" /\ op[p] \in Op
      /\ EndTransaction(p)
    BY DEF IInv, TypeOK, Phase, Commit
<1>2. \A i \in won[p] :
        /\ i \in Item /\ resLock[i] = p /\ res[i] = seen[p][i]
        /\ op[p] \in {"settle", "expireHold"} \/ cancels[p]
        /\ seen[p][i] \in {"RESERVED", "COMMITTED"}
        /\ ~cancels[p] => seen[p][i] = "RESERVED"
    BY DEF IInv, TypeOK, Claims, LockShape
<1>3. cancels[p] => op[p] \in {"fail", "expire", "cancel"}
    BY DEF IInv, Phase
<1>4. \A i \in Item : res'[i] = IF i \in won[p] THEN ReservationTarget(op[p]) ELSE res[i]
    BY DEF Commit
<1>5. order' = OrderAfter(p) /\ payment' = IF op[p] \in PaymentOp THEN PaymentTarget(op[p]) ELSE payment
    BY DEF Commit
<1>6. StockConserved'
    <2>1. ASSUME NEW i \in Item
          PROVE  stock'[i] = Stock0[i] - (IF res'[i] = "COMMITTED" THEN Qty[i] ELSE 0)
        <3>1. stock'[i] = StockAfter(p, i) /\ stock[i] = Stock0[i] - (IF res[i] = "COMMITTED" THEN Qty[i] ELSE 0)
            BY DEF Commit, IInv, StockConserved
        <3>2. CASE i \in won[p]
            BY <1>2, <1>3, <1>4, <3>1, <3>2 DEF StockAfter, ReservationTarget
        <3>3. CASE i \notin won[p]
            BY <1>4, <3>1, <3>3 DEF StockAfter
        <3> QED
            BY <3>2, <3>3
    <2>2. ASSUME NEW i \in OutletItem
          PROVE  held'[i] = IF res'[i] = "RESERVED" THEN Qty[i] ELSE 0
        <3>1. held'[i] = HeldAfter(p, i) /\ held[i] = IF res[i] = "RESERVED" THEN Qty[i] ELSE 0
            BY DEF Commit, IInv, StockConserved
        <3>2. i \in Item
            OBVIOUS
        <3>3. CASE i \in won[p]
            BY <1>2, <1>3, <1>4, <3>1, <3>2, <3>3 DEF HeldAfter, ReservationTarget
        <3>4. CASE i \notin won[p]
            BY <1>4, <3>1, <3>2, <3>4 DEF HeldAfter
        <3> QED
            BY <3>3, <3>4
    <2> QED
        BY <2>1, <2>2 DEF StockConserved
<1>7. TypeOK'
    <2>1. stock' \in [Item -> Nat] /\ held' \in [OutletItem -> Nat]
        <3>1. stock' = [i \in Item |-> StockAfter(p, i)] /\ held' = [i \in OutletItem |-> HeldAfter(p, i)]
            BY DEF Commit
        <3>2. \A i \in Item : stock'[i] \in Nat
            BY <1>6 DEF StockConserved
        <3>3. \A i \in OutletItem : held'[i] \in Nat
            BY <1>6 DEF StockConserved
        <3> QED
            BY <3>1, <3>2, <3>3
    <2>2. events' \in [Event -> Nat]
        BY DEF Commit, IInv, TypeOK
    <2>3. payment' \in PaymentStatus /\ order' \in OrderStatus
        BY <1>5 DEF IInv, TypeOK, PaymentTarget, OrderAfter, PaymentStatus, TerminalPayment,
                    OrderStatus, ActiveOrder
    <2>4. res' \in [Item -> ReservationStatus]
        BY DEF Commit, IInv, TypeOK, ReservationTarget, ReservationStatus
    <2>5. byCourier' \in BOOLEAN
        BY Zenon DEF Commit, IInv, TypeOK
    <2> QED
        BY <1>1, <2>1, <2>2, <2>3, <2>4, <2>5 DEF IInv, TypeOK, EndTransaction, Unlocked, NotSeen
<1>8. EventsExactlyOnce'
    <2>1. op[p] \in PaymentOp => payment \notin TerminalPayment
        BY <1>1 DEF IInv, LockShape, GuardsHold
    <2>2. cancels[p] => order \in Cancellable
        BY DEF IInv, GuardsHold
    <2>3. \A e \in Event : events'[e] = events[e] + (IF e \in Written(p) THEN 1 ELSE 0)
        BY DEF Commit
    <2>4. \A e \in {"payment.paid", "payment.failed", "payment.expired"} :
            e \in Written(p) <=> op[p] \in PaymentOp /\ e = EventOf(op[p])
        BY DEF Written, Event
    <2>5. "order.cancelled" \in Written(p) <=> cancels[p]
        BY DEF Written, Event, EventOf
    <2>6. /\ events'["payment.paid"] = IF payment' = "PAID" THEN 1 ELSE 0
          /\ events'["payment.failed"] = IF payment' = "FAILED" THEN 1 ELSE 0
          /\ events'["payment.expired"] = IF payment' = "EXPIRED" THEN 1 ELSE 0
        <3>1. CASE op[p] \in PaymentOp
            <4>1. /\ events["payment.paid"] = 0
                  /\ events["payment.failed"] = 0
                  /\ events["payment.expired"] = 0
                BY <2>1, <3>1 DEF IInv, EventsExactlyOnce, TerminalPayment
            <4>2. \A e \in {"payment.paid", "payment.failed", "payment.expired"} :
                    events'[e] = IF e = EventOf(op[p]) THEN 1 ELSE 0
                BY <2>3, <2>4, <3>1, <4>1 DEF Event
            <4> QED
                BY <1>5, <3>1, <4>2 DEF EventOf, PaymentOp, PaymentTarget
        <3>2. CASE op[p] \notin PaymentOp
            BY <1>5, <2>3, <2>4, <3>2 DEF IInv, TypeOK, EventsExactlyOnce, Event
        <3> QED
            BY <3>1, <3>2
    <2>7. events'["order.cancelled"] = IF order' = "CANCELLED" THEN 1 ELSE 0
        <3>1. events'["order.cancelled"] = events["order.cancelled"] + (IF cancels[p] THEN 1 ELSE 0)
            BY <2>3, <2>5 DEF Event
        <3>2. events["order.cancelled"] = IF order = "CANCELLED" THEN 1 ELSE 0
            BY DEF IInv, EventsExactlyOnce
        <3>3. CASE cancels[p]
            BY <1>3, <1>5, <2>2, <3>1, <3>2, <3>3 DEF OrderAfter, Cancellable, ActiveOrder
        <3>4. CASE ~cancels[p]
            BY <1>5, <3>1, <3>2, <3>4 DEF OrderAfter
        <3> QED
            BY <3>3, <3>4
    <2> QED
        BY <2>6, <2>7 DEF EventsExactlyOnce
<1>9. CancelledHoldsNothing'
    <2>1. SUFFICES ASSUME order' = "CANCELLED", ~byCourier, NEW i \in Item
                   PROVE  res'[i] \in {"RELEASED", "EXPIRED"}
        BY DEF CancelledHoldsNothing, Commit
    <2>2. CASE cancels[p]
        BY <1>1, <1>3, <1>4, <2>2 DEF IInv, GuardsHold, ReservationTarget
    <2>3. CASE ~cancels[p]
        <3>1. order = "CANCELLED" /\ op[p] # "settle"
            BY <1>1, <1>5, <2>1, <2>3 DEF OrderAfter, IInv, GuardsHold
        <3> QED
            BY <1>2, <1>4, <2>1, <2>3, <3>1 DEF IInv, CancelledHoldsNothing
    <2> QED
        BY <2>2, <2>3
<1>10. UnpaidOrderIsDead'
    <2>1. CASE op[p] \in {"fail", "expire"}
        <3>1. order' \in {"CANCELLED", "DELIVERED", "COMPLETED"}
            BY <1>1, <1>5, <2>1 DEF IInv, TypeOK, GuardsHold, OrderAfter, OrderStatus, Cancellable
        <3> QED
            BY <3>1 DEF UnpaidOrderIsDead
    <2>2. CASE op[p] \in {"settle", "cancel", "expireHold"}
        BY <1>5, <2>2 DEF IInv, UnpaidOrderIsDead, OrderAfter, PaymentOp, PaymentTarget
    <2> QED
        BY <1>1, <2>1, <2>2 DEF Op, PaymentOp
<1>11. ASSUME NEW q \in Proc PROVE Phase(q)' /\ Claims(q)'
    BY <1>1 DEF IInv, TypeOK, Phase, Claims, EndTransaction
<1>12. ASSUME NEW q \in Proc PROVE LockShape(q)'
    BY <1>1, <1>2, <1>4 DEF IInv, TypeOK, LockShape, EndTransaction, Unlocked
<1>13. ASSUME NEW q \in Proc PROVE GuardsHold(q)'
    <2>1. CASE q = p
        BY <1>1, <2>1 DEF IInv, TypeOK, EndTransaction, Unlocked, GuardsHold
    <2>2. CASE q # p
        <3>1. /\ pc'[q] = pc[q] /\ op'[q] = op[q] /\ cancels'[q] = cancels[q]
              /\ todo'[q] = todo[q] /\ won'[q] = won[q] /\ seen'[q] = seen[q]
              /\ payLock' = q => payLock = q
            BY <1>1, <2>2 DEF IInv, TypeOK, EndTransaction, Unlocked
        <3>2. payLock = q => op[p] \notin PaymentOp
            BY <1>1, <2>2 DEF IInv, LockShape
        <3>3. orderLock = q => op[p] # "settle" /\ ~cancels[p]
            BY <1>1, <2>2 DEF IInv, LockShape
        <3>4. cancels[q] \/ (op[q] = "settle" /\ pc[q] \in {"read", "items"}) => orderLock = q
            BY DEF IInv, LockShape
        <3>5. orderLock = q => order' = order
            BY <1>5, <3>3 DEF OrderAfter
        <3>6. order \notin Cancellable => order' \notin Cancellable
            BY <1>5 DEF OrderAfter, Cancellable, ActiveOrder
        <3>7. ASSUME cancels[q], pc[q] = "items", NEW i \in Item
              PROVE  \/ res'[i] \in {"RELEASED", "EXPIRED"}
                     \/ i \in won[q]
                     \/ i \in todo[q] /\ res'[i] = seen[q][i]
            <4>1. CASE i \in won[p]
                BY <1>2, <1>4, <3>3, <3>4, <3>7, <4>1 DEF ReservationTarget
            <4>2. CASE i \notin won[p]
                BY <1>4, <3>7, <4>2 DEF IInv, GuardsHold
            <4> QED
                BY <4>1, <4>2
        <3>8. payLock' = q => payment' \notin TerminalPayment
            BY <1>5, <3>1, <3>2 DEF IInv, GuardsHold
        <3>9. \A i \in Item : res'[i] = "RESERVED" => res[i] = "RESERVED"
            BY <1>4 DEF ReservationTarget
        <3> QED
            BY <3>1, <3>4, <3>5, <3>6, <3>7, <3>8, <3>9 DEF IInv, GuardsHold
    <2> QED
        BY <2>1, <2>2
<1> QED
    BY <1>6, <1>7, <1>8, <1>9, <1>10, <1>11, <1>12, <1>13, Assemble DEF Books

(* A receipt moves an open payment nobody has claimed. *)
LEMMA UploadReceiptIInv ==
  ASSUME IInv, UploadReceipt
  PROVE  IInv'
<1> USE ConstantsAssumption DEF UploadReceipt, Uploadable, locks, local
<1>1. TypeOK'
    BY DEF IInv, TypeOK, PaymentStatus
<1>2. Books'
    BY DEF IInv, Books, StockConserved, CancelledHoldsNothing, EventsExactlyOnce, UnpaidOrderIsDead
<1>3. ASSUME NEW q \in Proc PROVE Phase(q)' /\ Claims(q)' /\ LockShape(q)' /\ GuardsHold(q)'
    BY DEF IInv, Phase, Claims, LockShape, GuardsHold, TerminalPayment
<1> QED
    BY <1>1, <1>2, <1>3, Assemble

(* A courier ends an order nobody has claimed. *)
LEMMA CourierCancelsOrderIInv ==
  ASSUME IInv, CourierCancelsOrder
  PROVE  IInv'
<1> USE ConstantsAssumption DEF CourierCancelsOrder, locks, local
<1>1. order \in OrderStatus /\ "CANCELLED" \in Successors(order) /\ order' = "CANCELLED" /\ byCourier'
    BY DEF SourcesFor
<1>2. order # "CANCELLED" /\ order' \notin Cancellable
    BY <1>1 DEF Successors, Cancellable, ActiveOrder
<1>3. TypeOK'
    BY <1>1 DEF IInv, TypeOK, OrderStatus, Event
<1>4. StockConserved'
    BY DEF IInv, StockConserved
<1>5. EventsExactlyOnce'
    BY <1>1, <1>2 DEF IInv, TypeOK, EventsExactlyOnce, Event
<1>6. CancelledHoldsNothing' /\ UnpaidOrderIsDead'
    BY <1>1 DEF CancelledHoldsNothing, UnpaidOrderIsDead
<1>7. ASSUME NEW q \in Proc PROVE Phase(q)' /\ Claims(q)' /\ LockShape(q)' /\ GuardsHold(q)'
    BY <1>1, <1>2 DEF IInv, Phase, Claims, LockShape, GuardsHold
<1> QED
    BY <1>3, <1>4, <1>5, <1>6, <1>7, Assemble DEF Books

(* An admin or the courier moves an order nobody has claimed. *)
LEMMA AdvanceOrderIInv ==
  ASSUME IInv, NEW target \in OrderStatus, AdvanceOrder(target)
  PROVE  IInv'
<1> USE ConstantsAssumption DEF AdvanceOrder, SourcesFor, locks, local
<1>1. order \in OrderStatus /\ target \in Successors(order) /\ target # "CANCELLED" /\ order' = target
    OBVIOUS
<1>2. order # "CANCELLED" /\ (order \notin Cancellable => order' \notin Cancellable)
    BY <1>1 DEF Successors, OrderStatus, Cancellable, ActiveOrder
<1>3. order \in {"DELIVERED", "COMPLETED"} => order' \in {"DELIVERED", "COMPLETED"}
    BY <1>1 DEF Successors
<1>4. TypeOK'
    BY DEF IInv, TypeOK
<1>5. Books'
    BY <1>1, <1>2, <1>3
    DEF IInv, Books, StockConserved, CancelledHoldsNothing, EventsExactlyOnce, UnpaidOrderIsDead
<1>6. ASSUME NEW q \in Proc PROVE Phase(q)' /\ Claims(q)' /\ LockShape(q)' /\ GuardsHold(q)'
    BY <1>1, <1>2 DEF IInv, Phase, Claims, LockShape, GuardsHold
<1> QED
    BY <1>4, <1>5, <1>6, Assemble

(* Every step preserves the invariant. *)
LEMMA NextIInv == IInv /\ [Next]_vars => IInv'
<1> SUFFICES ASSUME IInv, [Next]_vars PROVE IInv'
    OBVIOUS
<1>1. CASE UNCHANGED vars
    BY <1>1 DEF IInv, TypeOK, Phase, Claims, LockShape, GuardsHold, StockConserved,
                CancelledHoldsNothing, EventsExactlyOnce, UnpaidOrderIsDead, vars, rows, locks, local
<1>2. CASE UploadReceipt
    BY <1>2, UploadReceiptIInv
<1>3. CASE \E target \in OrderStatus : AdvanceOrder(target)
    BY <1>3, AdvanceOrderIInv
<1>7. CASE CourierCancelsOrder
    BY <1>7, CourierCancelsOrderIInv
<1>4. ASSUME NEW p \in Proc,
             \/ \E o \in PaymentOp : BeginPaymentOp(p, o)
             \/ BeginCancel(p)
             \/ \E i \in Item : BeginExpireHold(p, i)
      PROVE  IInv'
    BY <1>4, BeginPaymentOpIInv, BeginCancelIInv, BeginExpireHoldIInv
<1>5. ASSUME NEW p \in Proc, Rollback(p) \/ PaymentConflict(p) \/ SettleRefused(p)
      PROVE  IInv'
    <2>1. Rollback(p)
        BY <1>5 DEF Rollback, PaymentConflict, SettleRefused
    <2> QED
        BY <2>1, RollbackIInv
<1>6. ASSUME NEW p \in Proc, Step(p)
      PROVE  IInv'
    BY <1>5, <1>6, ClaimPaymentIInv, SettleLocksOrderIInv, CancelOrderIInv, NothingToCancelIInv,
       ReadReservationsIInv, ClaimReservationIInv, SkipReservationIInv, LockStockIInv, CommitIInv
    DEF Step
<1> QED
    BY <1>1, <1>2, <1>3, <1>4, <1>5, <1>6, <1>7 DEF Next

(* The invariant holds throughout. *)
LEMMA InvariantHolds == Spec => []IInv
  BY InitIInv, NextIInv, PTL DEF Spec

(* The rows, locks and local variables keep their types: stock and holds stay      *)
(* natural numbers, statuses are those of the schema (Payment, Order,             *)
(* InventoryReservation).                                                        *)
THEOREM SettlementTypes == Spec => []TypeOK
<1>1. IInv => TypeOK
    BY DEF IInv
<1> QED
    BY <1>1, InvariantHolds, PTL

(* Every unit of stock is accounted for: commitForOrder, releaseForOrder and       *)
(* expireReservation count each reservation once, whoever else works on it.       *)
THEOREM BooksAreKept == Spec => []StockConserved
<1>1. IInv => StockConserved
    BY DEF IInv
<1> QED
    BY <1>1, InvariantHolds, PTL

(* An order cancelled by fail, by expire or by an admin keeps no stock:            *)
(* cancelAndRestock releases what every earlier transaction left.  (A courier's     *)
(* report cancels an order without it, and is excepted.)                           *)
THEOREM CancelledOrderHoldsNothing == Spec => []CancelledHoldsNothing
<1>1. IInv => CancelledHoldsNothing
    BY DEF IInv
<1> QED
    BY <1>1, InvariantHolds, PTL

(* Each terminal transition of payment and order is announced exactly once: the    *)
(* outbox row is written by the transaction that wins the CAS.                   *)
THEOREM EventsWrittenOnce == Spec => []EventsExactlyOnce
<1>1. IInv => EventsExactlyOnce
    BY DEF IInv
<1> QED
    BY <1>1, InvariantHolds, PTL

(* No order lives on when its payment failed or expired: fail and expire cancel it *)
(* with cancelAndRestock, unless it was delivered meanwhile.                     *)
THEOREM UnpaidOrdersEnd == Spec => []UnpaidOrderIsDead
<1>1. IInv => UnpaidOrderIsDead
    BY DEF IInv
<1> QED
    BY <1>1, InvariantHolds, PTL

(* The CASes of settle, fail and expire make a terminal payment status final.   *)
THEOREM PaymentEndsOnce == Spec => TerminalPaymentFinal
<1>1. ASSUME IInv, Next, payment \in TerminalPayment
      PROVE  payment' = payment
    <2>1. \A p \in Proc : op[p] \in PaymentOp /\ pc[p] = "items" => payment \notin TerminalPayment
        BY <1>1 DEF IInv, LockShape, GuardsHold
    <2>2. ASSUME NEW p \in Proc, Commit(p) PROVE payment' = payment
        BY <1>1, <2>1, <2>2 DEF Commit
    <2>3. ASSUME NEW p \in Proc, Step(p) \/ Rollback(p) PROVE payment' = payment
        BY <2>2, <2>3 DEF Step, Rollback, ClaimPayment, PaymentConflict, SettleLocksOrder,
           SettleRefused, CancelOrder, NothingToCancel, ReadReservations, ClaimReservation,
           SkipReservation, LockStock, rows
    <2>4. ~UploadReceipt
        BY <1>1 DEF UploadReceipt, Uploadable, TerminalPayment
    <2>5. ASSUME NEW p \in Proc, \/ \E o \in PaymentOp : BeginPaymentOp(p, o)
                                \/ BeginCancel(p)
                                \/ \E i \in Item : BeginExpireHold(p, i)
          PROVE  payment' = payment
        BY <2>5 DEF BeginPaymentOp, BeginCancel, BeginExpireHold, rows
    <2> QED
        BY <1>1, <2>3, <2>4, <2>5 DEF Next, AdvanceOrder, CourierCancelsOrder
<1>2. IInv /\ [Next]_vars => [(payment \in TerminalPayment) => (payment' = payment)]_vars
    BY <1>1
<1> QED
    BY <1>2, InvariantHolds, PTL DEF Spec, TerminalPaymentFinal

(* settle's FOR UPDATE read (audit F4): no payment becomes PAID on an order that *)
(* is, or in the same transaction becomes, CANCELLED.                           *)
THEOREM NoPaidCancelledOrder == Spec => NeverPaidWhenCancelled
<1>1. ASSUME IInv, Next, payment # "PAID", payment' = "PAID"
      PROVE  order # "CANCELLED" /\ order' # "CANCELLED"
    <2>1. ASSUME NEW p \in Proc, Commit(p)
          PROVE  order # "CANCELLED" /\ order' # "CANCELLED"
        <3>1. op[p] = "settle"
            BY <1>1, <2>1 DEF Commit, PaymentTarget, PaymentOp
        <3>2. order # "CANCELLED" /\ ~cancels[p]
            BY <1>1, <2>1, <3>1 DEF Commit, IInv, Phase, GuardsHold
        <3> QED
            BY <2>1, <3>1, <3>2, <1>1 DEF Commit, OrderAfter
    <2>2. ASSUME NEW p \in Proc, Step(p) \/ Rollback(p)
          PROVE  order # "CANCELLED" /\ order' # "CANCELLED"
        BY <1>1, <2>1, <2>2 DEF Step, Rollback, ClaimPayment, PaymentConflict, SettleLocksOrder,
           SettleRefused, CancelOrder, NothingToCancel, ReadReservations, ClaimReservation,
           SkipReservation, LockStock, rows
    <2>3. ~UploadReceipt
        BY <1>1 DEF UploadReceipt
    <2>4. ASSUME NEW p \in Proc, \/ \E o \in PaymentOp : BeginPaymentOp(p, o)
                                \/ BeginCancel(p)
                                \/ \E i \in Item : BeginExpireHold(p, i)
          PROVE  FALSE
        BY <1>1, <2>4 DEF BeginPaymentOp, BeginCancel, BeginExpireHold, rows
    <2> QED
        BY <1>1, <2>2, <2>3, <2>4 DEF Next, AdvanceOrder, CourierCancelsOrder
<1>2. IInv /\ [Next]_vars =>
        [(payment # "PAID" /\ payment' = "PAID") => (order # "CANCELLED" /\ order' # "CANCELLED")]_vars
    BY <1>1
<1> QED
    BY <1>2, InvariantHolds, PTL DEF Spec, NeverPaidWhenCancelled

(* The transactions of an order never deadlock, however many run at once.       *)
THEOREM NoDeadlock == Spec => []NoDeadlyEmbrace
<1>1. ASSUME IInv, NEW D \in SUBSET Proc, D # {}
      PROVE  \E p \in D : \A q \in D \ {p} : ~WaitsFor(p, q)
    <2> USE <1>1
    <2>1. \A p, q \in Proc : p # q /\ WaitsFor(p, q) =>
            \/ pc[p] = "payment" /\ payLock = q
            \/ pc[p] = "order" /\ orderLock = q
            \/ pc[p] = "items" /\ \E i \in todo[p] : i \in Item /\ resLock[i] = q
        BY DEF WaitsFor, IInv, TypeOK, LockShape
    <2>2. \A q \in Proc : /\ payLock = q => pc[q] \in {"order", "read", "items"}
                          /\ orderLock = q => pc[q] \in {"read", "items"}
        BY DEF IInv, LockShape, Phase
    <2>3. \A q \in Proc : \A i \in Item : resLock[i] = q =>
            pc[q] = "items" /\ (orderLock = q \/ (op[q] = "expireHold" /\ todo[q] \cup won[q] = {i}))
        BY DEF IInv, Phase, Claims, LockShape
    <2>4. CASE \E e \in D : op[e] = "expireHold" /\ \E i \in Item : resLock[i] = e
        <3>1. PICK e \in D : op[e] = "expireHold" /\ \E i \in Item : resLock[i] = e
            BY <2>4
        <3>2. PICK i \in Item : resLock[i] = e
            BY <3>1
        <3>3. pc[e] = "items" /\ todo[e] \subseteq {i}
            BY <2>3, <3>1, <3>2 DEF IInv, Claims, LockShape
        <3> QED
            BY <2>1, <3>2, <3>3
    <2>5. CASE ~\E e \in D : op[e] = "expireHold" /\ \E i \in Item : resLock[i] = e
        <3>1. \A q \in D : \A i \in Item : resLock[i] = q => orderLock = q
            BY <2>3, <2>5
        <3>2. CASE orderLock \in D
            <4>1. \A q \in D \ {orderLock} : ~WaitsFor(orderLock, q)
                BY <2>1, <2>2, <3>1, <3>2
            <4> QED
                BY <3>2, <4>1
        <3>3. CASE orderLock \notin D /\ \E p \in D : pc[p] # "payment"
            BY <2>1, <3>1, <3>3
        <3>4. CASE \A p \in D : pc[p] = "payment"
            BY <2>1, <2>2, <3>4
        <3> QED
            BY <3>2, <3>3, <3>4
    <2> QED
        BY <2>4, <2>5
<1>2. IInv => NoDeadlyEmbrace
    BY <1>1 DEF NoDeadlyEmbrace
<1> QED
    BY <1>2, InvariantHolds, PTL

(* The order moves along ORDER_STATUS_TRANSITIONS only.                         *)
THEOREM OrderKeepsToItsTransitions == Spec => OrderMovesLegally
<1>1. ASSUME IInv, Next, order' # order
      PROVE  order' \in Successors(order)
    <2>1. ASSUME NEW p \in Proc, Commit(p) PROVE order' \in Successors(order)
        <3>1. order' = OrderAfter(p) /\ (cancels[p] => order \in Cancellable)
            BY <1>1, <2>1 DEF Commit, IInv, GuardsHold
        <3>2. cancels[p] => op[p] # "settle"
            BY <1>1 DEF IInv, Phase
        <3> QED
            BY <1>1, <3>1, <3>2 DEF OrderAfter, Successors, Cancellable, ActiveOrder
    <2>2. ASSUME NEW p \in Proc, Step(p) \/ Rollback(p) PROVE order' \in Successors(order)
        BY <1>1, <2>1, <2>2 DEF Step, Rollback, ClaimPayment, PaymentConflict, SettleLocksOrder,
           SettleRefused, CancelOrder, NothingToCancel, ReadReservations, ClaimReservation,
           SkipReservation, LockStock, rows
    <2>3. ASSUME NEW p \in Proc, \/ \E o \in PaymentOp : BeginPaymentOp(p, o)
                                \/ BeginCancel(p)
                                \/ \E i \in Item : BeginExpireHold(p, i)
          PROVE  FALSE
        BY <1>1, <2>3 DEF BeginPaymentOp, BeginCancel, BeginExpireHold, rows
    <2> QED
        BY <1>1, <2>2, <2>3 DEF Next, UploadReceipt, AdvanceOrder, CourierCancelsOrder, SourcesFor
<1>2. IInv /\ [Next]_vars => [order' # order => order' \in Successors(order)]_vars
    BY <1>1
<1> QED
    BY <1>2, InvariantHolds, PTL DEF Spec, OrderMovesLegally

(* OrderLife speaks of the same statuses. *)
LEMMA SameDomain ==
  /\ Atomic!TerminalPayment = TerminalPayment
  /\ Atomic!Uploadable = Uploadable
  /\ Atomic!Cancellable = Cancellable
  /\ Atomic!OrderStatus = OrderStatus
  /\ \A t : Atomic!SourcesFor(t) = SourcesFor(t)
  BY DEF TerminalPayment, Uploadable, Cancellable, ActiveOrder, OrderStatus, SourcesFor, Successors,
         Atomic!TerminalPayment, Atomic!Uploadable, Atomic!Cancellable, Atomic!ActiveOrder,
         Atomic!OrderStatus, Atomic!SourcesFor, Atomic!Successors

(* A commit is one atomic operation of OrderLife, or changes nothing there.     *)
LEMMA CommitIsAtomic ==
  ASSUME IInv, NEW p \in Proc, Commit(p)
  PROVE  Atomic!Next \/ UNCHANGED <<payment, order, res>>
<1>1. /\ todo[p] = {} /\ pc[p] = "items" /\ op[p] \in Op
      /\ order' = OrderAfter(p)
      /\ payment' = IF op[p] \in PaymentOp THEN PaymentTarget(op[p]) ELSE payment
      /\ res' = [i \in Item |-> IF i \in won[p] THEN ReservationTarget(op[p]) ELSE res[i]]
    BY DEF IInv, TypeOK, Phase, Commit
<1>2. \A i \in won[p] :
        /\ i \in Item /\ res[i] = seen[p][i] /\ seen[p][i] \in {"RESERVED", "COMMITTED"}
        /\ op[p] \in {"settle", "expireHold"} \/ cancels[p]
        /\ ~cancels[p] => seen[p][i] = "RESERVED"
        /\ op[p] = "expireHold" => won[p] = {i}
    BY <1>1 DEF IInv, TypeOK, Claims, LockShape
<1>3. /\ op[p] \in PaymentOp => payment \notin TerminalPayment
      /\ cancels[p] => op[p] \in {"fail", "expire", "cancel"} /\ order \in Cancellable
    BY <1>1 DEF IInv, Phase, LockShape, GuardsHold
<1>4. res = [i \in Item |-> res[i]]
    BY DEF IInv, TypeOK
<1>5. CASE op[p] = "settle"
    <2>1. order # "CANCELLED" /\ \A i \in Item : res[i] = "RESERVED" <=> i \in won[p]
        BY <1>1, <1>2, <1>3, <1>5 DEF IInv, GuardsHold
    <2>2. order' = IF order = "PENDING" THEN "PROCESSING" ELSE order
        BY <1>1, <1>3, <1>5 DEF OrderAfter
    <2>3. res' = Atomic!Moved({"RESERVED"}, "COMMITTED")
        BY <1>1, <1>5, <2>1 DEF Atomic!Moved, ReservationTarget
    <2>4. Atomic!Settle
        BY <1>1, <1>3, <1>5, <2>1, <2>2, <2>3, SameDomain DEF Atomic!Settle, PaymentOp, PaymentTarget
    <2> QED
        BY <2>4 DEF Atomic!Next
<1>6. CASE op[p] = "expireHold"
    <2>1. payment' = payment /\ order' = order
        BY <1>1, <1>3, <1>6 DEF OrderAfter, PaymentOp
    <2>2. CASE won[p] = {}
        BY <1>1, <1>4, <2>1, <2>2
    <2>3. CASE won[p] # {}
        <3>1. PICK i \in Item : won[p] = {i} /\ res[i] = "RESERVED"
            BY <1>2, <1>3, <1>6, <2>3
        <3>2. res' = [res EXCEPT ![i] = "EXPIRED"]
            BY <1>1, <1>4, <1>6, <3>1 DEF ReservationTarget
        <3>3. Atomic!ExpireHold(i)
            BY <2>1, <3>1, <3>2 DEF Atomic!ExpireHold
        <3> QED
            BY <3>3 DEF Atomic!Next
    <2> QED
        BY <2>2, <2>3
<1>7. CASE op[p] \in {"fail", "expire", "cancel"}
    <2>1. CASE cancels[p]
        <3>1. \A i \in Item : res[i] \in {"RESERVED", "COMMITTED"} <=> i \in won[p]
            BY <1>1, <1>2, <2>1 DEF IInv, GuardsHold
        <3>2. res' = Atomic!Moved({"RESERVED", "COMMITTED"}, ReservationTarget(op[p]))
            BY <1>1, <3>1 DEF Atomic!Moved
        <3>3. Atomic!CancelAndRestock(ReservationTarget(op[p]))
            BY <1>1, <1>3, <2>1, <3>2, SameDomain DEF Atomic!CancelAndRestock, OrderAfter
        <3>4. CASE op[p] = "fail"
            BY <1>1, <1>3, <3>3, <3>4, SameDomain
            DEF Atomic!Next, Atomic!EndUnpaid, ReservationTarget, PaymentOp, PaymentTarget
        <3>5. CASE op[p] = "expire"
            BY <1>1, <1>3, <3>3, <3>5, SameDomain
            DEF Atomic!Next, Atomic!EndUnpaid, ReservationTarget, PaymentOp, PaymentTarget
        <3>6. CASE op[p] = "cancel"
            BY <1>1, <3>3, <3>6 DEF Atomic!Next, Atomic!Cancel, ReservationTarget, PaymentOp
        <3> QED
            BY <1>7, <3>4, <3>5, <3>6
    <2>2. CASE ~cancels[p]
        <3>1. won[p] = {}
            BY <1>2, <1>7, <2>2
        <3>2. UNCHANGED <<order, res>>
            BY <1>1, <1>4, <1>7, <2>2, <3>1 DEF OrderAfter
        <3>3. CASE op[p] = "fail"
            BY <1>1, <1>3, <2>2, <3>2, <3>3, SameDomain
            DEF IInv, GuardsHold, Atomic!Next, Atomic!EndUnpaid, PaymentOp, PaymentTarget
        <3>4. CASE op[p] = "expire"
            BY <1>1, <1>3, <2>2, <3>2, <3>4, SameDomain
            DEF IInv, GuardsHold, Atomic!Next, Atomic!EndUnpaid, PaymentOp, PaymentTarget
        <3>5. CASE op[p] = "cancel"
            BY <1>1, <3>2, <3>5 DEF PaymentOp
        <3> QED
            BY <1>7, <3>3, <3>4, <3>5
    <2> QED
        BY <2>1, <2>2
<1> QED
    BY <1>1, <1>5, <1>6, <1>7 DEF Op, PaymentOp

(* The transactions are serializable: whatever their interleaving, the payment, *)
(* the order and its reservations move as if each operation were atomic.        *)
THEOREM SettlementIsAtomic == Spec => Serializable
<1>1. Init => Atomic!Init
    BY DEF Init, Atomic!Init
<1>2. ASSUME IInv, Next
      PROVE  Atomic!Next \/ UNCHANGED <<payment, order, res>>
    <2>1. ASSUME NEW p \in Proc, Step(p) \/ Rollback(p)
          PROVE  Atomic!Next \/ UNCHANGED <<payment, order, res>>
        BY <1>2, <2>1, CommitIsAtomic DEF Step, Rollback, ClaimPayment, PaymentConflict,
           SettleLocksOrder, SettleRefused, CancelOrder, NothingToCancel, ReadReservations,
           ClaimReservation, SkipReservation, LockStock, rows
    <2>2. ASSUME NEW p \in Proc, \/ \E o \in PaymentOp : BeginPaymentOp(p, o)
                                \/ BeginCancel(p)
                                \/ \E i \in Item : BeginExpireHold(p, i)
          PROVE  UNCHANGED <<payment, order, res>>
        BY <2>2 DEF BeginPaymentOp, BeginCancel, BeginExpireHold, rows
    <2>3. CASE UploadReceipt
        BY <2>3, SameDomain DEF UploadReceipt, Atomic!UploadReceipt, Atomic!Next
    <2>4. CASE \E target \in OrderStatus : AdvanceOrder(target)
        BY <2>4, SameDomain DEF AdvanceOrder, Atomic!AdvanceOrder, Atomic!Next
    <2>5. CASE CourierCancelsOrder
        BY <2>5, SameDomain DEF CourierCancelsOrder, Atomic!CourierCancelsOrder, Atomic!Next
    <2> QED
        BY <1>2, <2>1, <2>2, <2>3, <2>4, <2>5 DEF Next
<1>3. IInv /\ [Next]_vars => [Atomic!Next]_Atomic!vars
    BY <1>2 DEF vars, rows, Atomic!vars
<1> QED
    BY <1>1, <1>3, InvariantHolds, PTL DEF Spec, Serializable, Atomic!Spec

=============================================================================
