-------------------------- MODULE OrderSettlement --------------------------
(***************************************************************************)
(* The life of one order: its status, its payment, its stock reservations   *)
(* and the stock they hold, and everybody who moves them                    *)
(* (backend/src/modules/payments/settlement, orders, inventory, admin).     *)
(*                                                                         *)
(* Three callers share PaymentSettlementService (an admin, the gateway's    *)
(* webhook and reconciliation, the payment lifecycle worker); an admin can  *)
(* also cancel or advance the order, the courier's sync advances it, the    *)
(* customer uploads receipts, and the reservation worker expires holds.     *)
(* Each operation reads outside a transaction, then runs one PostgreSQL     *)
(* transaction at READ COMMITTED.  The model takes a transaction apart into *)
(* its locking statements: a conditional UPDATE or a SELECT ... FOR UPDATE  *)
(* waits for the row lock, is evaluated on the committed value, and keeps   *)
(* the lock; the writes become visible together at Commit, or not at all    *)
(* (Rollback: an error, a timeout, a lost process).                         *)
(*                                                                         *)
(* An item of the order is booked per outlet (a ProductInventory row with   *)
(* stock and reserved) or, in the legacy way, on Product.stock alone.       *)
(***************************************************************************)
EXTENDS Integers, OrderDomain

CONSTANTS
    Proc,           \* concurrent requests and workers
    Free,           \* a row nobody has locked
    Item,           \* the products of the order
    OutletItem,     \* the items that have a ProductInventory row at the outlet
    Qty,            \* [Item -> quantity ordered]
    Stock0          \* [Item -> stock when the order was placed]

ASSUME ConstantsAssumption ==
    /\ Free \notin Proc
    /\ OutletItem \subseteq Item
    /\ Qty \in [Item -> Nat \ {0}]
    /\ Stock0 \in [Item -> Nat]
    /\ \A i \in Item : Qty[i] <= Stock0[i]      \* reserveForOrder checked it

(* Operations that run as a transaction of several statements: the three of    *)
(* PaymentSettlementService, an admin cancellation, a reservation-worker expiry. *)
PaymentOp == {"settle", "fail", "expire"}
Op        == PaymentOp \cup {"cancel", "expireHold"}

PaymentTarget(o) == CASE o = "settle" -> "PAID" [] o = "fail" -> "FAILED" [] OTHER -> "EXPIRED"

(* The status a claimed reservation goes to: the releaseStatus of the caller. *)
ReservationTarget(o) ==
    CASE o = "settle"                  -> "COMMITTED"
      [] o \in {"fail", "cancel"}      -> "RELEASED"
      [] OTHER                         -> "EXPIRED"

VARIABLES
    \* committed rows
    payment, order, res,
    stock,      \* [Item -> Int], ProductInventory.stock or Product.stock
    held,       \* [OutletItem -> Int], ProductInventory.reserved
    events,     \* [Event -> Nat], outbox and timeline rows written so far
    byCourier,  \* history: it was a courier's report that cancelled the order
    \* row locks
    payLock, orderLock, resLock, stockLock,
    \* transactions
    op, pc,
    cancels,    \* [Proc -> BOOLEAN], this transaction won the CANCELLED transition
    seen,       \* [Proc -> [Item -> status as read]], the findMany snapshot
    todo,       \* [Proc -> SUBSET Item], reservations still to claim
    won         \* [Proc -> SUBSET Item], reservations whose CAS this transaction won

rows  == <<payment, order, res, stock, held, events, byCourier>>
locks == <<payLock, orderLock, resLock, stockLock>>
local == <<op, pc, cancels, seen, todo, won>>
vars  == <<rows, locks, local>>

Event == {"payment.paid", "payment.failed", "payment.expired", "order.cancelled"}
EventOf(o) ==
    CASE o = "settle" -> "payment.paid" [] o = "fail" -> "payment.failed" [] OTHER -> "payment.expired"

NotSeen == [i \in Item |-> "none"]

TypeOK ==
    /\ payment \in PaymentStatus
    /\ order \in OrderStatus
    /\ res \in [Item -> ReservationStatus]
    /\ stock \in [Item -> Nat]
    /\ held \in [OutletItem -> Nat]
    /\ events \in [Event -> Nat]
    /\ byCourier \in BOOLEAN
    /\ payLock \in Proc \cup {Free}
    /\ orderLock \in Proc \cup {Free}
    /\ resLock \in [Item -> Proc \cup {Free}]
    /\ stockLock \in [Item -> Proc \cup {Free}]
    /\ op \in [Proc -> Op \cup {"none"}]
    /\ pc \in [Proc -> {"idle", "payment", "order", "read", "items"}]
    /\ cancels \in [Proc -> BOOLEAN]
    /\ seen \in [Proc -> [Item -> ReservationStatus \cup {"none"}]]
    /\ todo \in [Proc -> SUBSET Item]
    /\ won \in [Proc -> SUBSET Item]

(* Checkout has just committed. *)
Init ==
    /\ payment = "PENDING"
    /\ order = "PENDING"
    /\ res = [i \in Item |-> "RESERVED"]
    /\ stock = Stock0
    /\ held = [i \in OutletItem |-> Qty[i]]
    /\ events = [e \in Event |-> 0]
    /\ byCourier = FALSE
    /\ payLock = Free
    /\ orderLock = Free
    /\ resLock = [i \in Item |-> Free]
    /\ stockLock = [i \in Item |-> Free]
    /\ op = [p \in Proc |-> "none"]
    /\ pc = [p \in Proc |-> "idle"]
    /\ cancels = [p \in Proc |-> FALSE]
    /\ seen = [p \in Proc |-> NotSeen]
    /\ todo = [p \in Proc |-> {}]
    /\ won = [p \in Proc |-> {}]

-----------------------------------------------------------------------------
(* Beginning: the read that precedes the transaction *)

Start(p, o, at) ==
    /\ pc[p] = "idle"
    /\ op' = [op EXCEPT ![p] = o]
    /\ pc' = [pc EXCEPT ![p] = at]

(* settle, fail, expire return or throw at once on a terminal payment. *)
BeginPaymentOp(p, o) ==
    /\ o \in PaymentOp
    /\ payment \notin TerminalPayment
    /\ Start(p, o, "payment")
    /\ UNCHANGED <<rows, locks, cancels, seen, todo, won>>

(* updateOrderStatus(CANCELLED): a no-op on an order already cancelled. *)
BeginCancel(p) ==
    /\ order # "CANCELLED"
    /\ Start(p, "cancel", "order")
    /\ UNCHANGED <<rows, locks, cancels, seen, todo, won>>

(* Mutant: the sweep forgets the holds of payments already decided. *)
BeginExpireHoldPending(p, i) ==
    /\ res[i] = "RESERVED"
    /\ payment \notin TerminalPayment
    /\ Start(p, "expireHold", "items")
    /\ seen' = [seen EXCEPT ![p] = [NotSeen EXCEPT ![i] = "RESERVED"]]
    /\ todo' = [todo EXCEPT ![p] = {i}]
    /\ UNCHANGED <<rows, locks, cancels, won>>

(* releaseExpired has found reservation i due. *)
BeginExpireHold(p, i) ==
    /\ res[i] = "RESERVED"
    /\ Start(p, "expireHold", "items")
    /\ seen' = [seen EXCEPT ![p] = [NotSeen EXCEPT ![i] = "RESERVED"]]
    /\ todo' = [todo EXCEPT ![p] = {i}]
    /\ UNCHANGED <<rows, locks, cancels, won>>

-----------------------------------------------------------------------------
(* The end of a transaction *)

Unlocked(p, lock) == IF lock = p THEN Free ELSE lock

EndTransaction(p) ==
    /\ payLock' = Unlocked(p, payLock)
    /\ orderLock' = Unlocked(p, orderLock)
    /\ resLock' = [i \in Item |-> Unlocked(p, resLock[i])]
    /\ stockLock' = [i \in Item |-> Unlocked(p, stockLock[i])]
    /\ op' = [op EXCEPT ![p] = "none"]
    /\ pc' = [pc EXCEPT ![p] = "idle"]
    /\ cancels' = [cancels EXCEPT ![p] = FALSE]
    /\ seen' = [seen EXCEPT ![p] = NotSeen]
    /\ todo' = [todo EXCEPT ![p] = {}]
    /\ won' = [won EXCEPT ![p] = {}]

Rollback(p) ==
    /\ pc[p] # "idle"
    /\ EndTransaction(p)
    /\ UNCHANGED rows

-----------------------------------------------------------------------------
(* The statements of a transaction, in the order the code issues them *)

(* Mutant: an uploaded receipt blocks the expiry. *)
PaymentClaimableNoReceipt(o) ==
    IF o = "expire" THEN payment = "PENDING" ELSE payment \notin TerminalPayment

(* updateMany on the payment: the CAS of settle and fail excludes the terminal *)
(* states, the one of expire names the eligible ones.                          *)
PaymentClaimable(o) ==
    IF o = "expire" THEN payment \in ExpiryEligible ELSE payment \notin TerminalPayment

ClaimPayment(p) ==
    /\ pc[p] = "payment"
    /\ payLock = Free
    /\ PaymentClaimable(op[p])
    /\ payLock' = p
    /\ pc' = [pc EXCEPT ![p] = "order"]
    /\ UNCHANGED <<rows, orderLock, resLock, stockLock, op, cancels, seen, todo, won>>

(* The CAS matched nothing: ConflictException, rolled back. *)
PaymentConflict(p) ==
    /\ pc[p] = "payment"
    /\ payLock = Free
    /\ ~PaymentClaimable(op[p])
    /\ EndTransaction(p)
    /\ UNCHANGED rows

(* settle: SELECT ... FOR UPDATE; a cancelled order refuses the payment. *)
SettleLocksOrder(p) ==
    /\ pc[p] = "order" /\ op[p] = "settle"
    /\ orderLock = Free
    /\ order # "CANCELLED"
    /\ orderLock' = p
    /\ pc' = [pc EXCEPT ![p] = "read"]
    /\ UNCHANGED <<rows, payLock, resLock, stockLock, op, cancels, seen, todo, won>>

SettleRefused(p) ==
    /\ pc[p] = "order" /\ op[p] = "settle"
    /\ orderLock = Free
    /\ order = "CANCELLED"
    /\ EndTransaction(p)
    /\ UNCHANGED rows

(* cancelAndRestock: the CAS over the active statuses. *)
CancelOrder(p) ==
    /\ pc[p] = "order" /\ op[p] # "settle"
    /\ orderLock = Free
    /\ order \in Cancellable
    /\ orderLock' = p
    /\ cancels' = [cancels EXCEPT ![p] = TRUE]
    /\ pc' = [pc EXCEPT ![p] = "read"]
    /\ UNCHANGED <<rows, payLock, resLock, stockLock, op, seen, todo, won>>

(* Somebody else cancelled it, or it was delivered: no restock, but fail and    *)
(* expire go on with the payment.                                               *)
NothingToCancel(p) ==
    /\ pc[p] = "order" /\ op[p] # "settle"
    /\ orderLock = Free
    /\ order \notin Cancellable
    /\ pc' = [pc EXCEPT ![p] = "items"]
    /\ UNCHANGED <<rows, locks, op, cancels, seen, todo, won>>

(* Mutant: a release overlooks the stock already deducted. *)
WantedReserved(o) == {"RESERVED"}

(* commitForOrder reads the RESERVED rows, releaseForOrder the COMMITTED too. *)
Wanted(o) == IF o = "settle" THEN {"RESERVED"} ELSE {"RESERVED", "COMMITTED"}

ReadReservations(p) ==
    LET found == {i \in Item : res[i] \in Wanted(op[p])}
    IN  /\ pc[p] = "read"
        /\ seen' = [seen EXCEPT ![p] = [i \in Item |-> IF i \in found THEN res[i] ELSE "none"]]
        /\ todo' = [todo EXCEPT ![p] = found]
        /\ pc' = [pc EXCEPT ![p] = "items"]
        /\ UNCHANGED <<rows, locks, op, cancels, won>>

(* Mutant: the row is updated by id, whatever its status has become. *)
StillAsSeenById(p, i) == TRUE

(* The CAS on the status observed by the snapshot read. *)
StillAsSeen(p, i) == res[i] = seen[p][i]

(* Releasing a hold on Product.stock changes no counter, so locks no stock row. *)
TouchesStock(p, i) == i \in OutletItem \/ seen[p][i] = "COMMITTED" \/ op[p] = "settle"

(* The loop is sequential: no reservation is claimed but not yet adjusted. *)
BetweenItems(p) == \A j \in todo[p] : resLock[j] # p

ClaimReservation(p, i) ==
    /\ pc[p] = "items" /\ i \in todo[p]
    /\ resLock[i] = Free
    /\ StillAsSeen(p, i)
    /\ BetweenItems(p)
    /\ resLock' = [resLock EXCEPT ![i] = p]
    /\ IF TouchesStock(p, i)
       THEN UNCHANGED <<todo, won>>
       ELSE /\ todo' = [todo EXCEPT ![p] = @ \ {i}]
            /\ won' = [won EXCEPT ![p] = @ \cup {i}]
    /\ UNCHANGED <<rows, payLock, orderLock, stockLock, op, pc, cancels, seen>>

(* The CAS lost: "skipped", the winner has already adjusted stock and hold. *)
SkipReservation(p, i) ==
    /\ pc[p] = "items" /\ i \in todo[p]
    /\ resLock[i] = Free
    /\ ~StillAsSeen(p, i)
    /\ BetweenItems(p)
    /\ todo' = [todo EXCEPT ![p] = @ \ {i}]
    /\ UNCHANGED <<rows, locks, op, pc, cancels, seen, won>>

(* Mutant: the stock row is locked before the reservation's CAS. *)
LockStockFirst(p, i) ==
    /\ pc[p] = "items" /\ i \in todo[p]
    /\ stockLock[i] = Free
    /\ stockLock' = [stockLock EXCEPT ![i] = p]
    /\ todo' = [todo EXCEPT ![p] = IF resLock[i] = p THEN @ \ {i} ELSE @]
    /\ won' = [won EXCEPT ![p] = IF resLock[i] = p THEN @ \cup {i} ELSE @]
    /\ UNCHANGED <<rows, payLock, orderLock, resLock, op, pc, cancels, seen>>

(* lockedPiFor, or the row lock of the Product update. *)
LockStock(p, i) ==
    /\ pc[p] = "items" /\ i \in todo[p]
    /\ resLock[i] = p
    /\ stockLock[i] = Free
    /\ stockLock' = [stockLock EXCEPT ![i] = p]
    /\ todo' = [todo EXCEPT ![p] = @ \ {i}]
    /\ won' = [won EXCEPT ![p] = @ \cup {i}]
    /\ UNCHANGED <<rows, payLock, orderLock, resLock, op, pc, cancels, seen>>

(* What the won reservations do to the counters: a commit deducts the stock and *)
(* the hold, a release of a COMMITTED row restocks, one of a RESERVED row frees *)
(* the hold.                                                                    *)
StockAfter(p, i) ==
    CASE i \in won[p] /\ op[p] = "settle"          -> stock[i] - Qty[i]
      [] i \in won[p] /\ seen[p][i] = "COMMITTED"  -> stock[i] + Qty[i]
      [] OTHER                                     -> stock[i]

(* Mutant: a restock of a COMMITTED row frees the hold a second time. *)
HeldAfterAlways(p, i) == IF i \in won[p] THEN held[i] - Qty[i] ELSE held[i]

HeldAfter(p, i) ==
    IF i \in won[p] /\ seen[p][i] = "RESERVED" THEN held[i] - Qty[i] ELSE held[i]

OrderAfter(p) ==
    CASE cancels[p]                                -> "CANCELLED"
      [] op[p] = "settle" /\ order = "PENDING"     -> "PROCESSING"
      [] OTHER                                     -> order

(* Mutant: the order event of a cancellation is written whether or not the CAS won. *)
WrittenAlways(p) ==
    {e \in Event : \/ op[p] \in PaymentOp /\ e = EventOf(op[p])
                   \/ op[p] \in {"fail", "expire", "cancel"} /\ e = "order.cancelled"}

Written(p) ==
    {e \in Event : \/ op[p] \in PaymentOp /\ e = EventOf(op[p])
                   \/ cancels[p] /\ e = "order.cancelled"}

Commit(p) ==
    /\ pc[p] = "items" /\ todo[p] = {}
    /\ payment' = IF op[p] \in PaymentOp THEN PaymentTarget(op[p]) ELSE payment
    /\ order' = OrderAfter(p)
    /\ res' = [i \in Item |-> IF i \in won[p] THEN ReservationTarget(op[p]) ELSE res[i]]
    /\ stock' = [i \in Item |-> StockAfter(p, i)]
    /\ held' = [i \in OutletItem |-> HeldAfter(p, i)]
    /\ events' = [e \in Event |-> events[e] + (IF e \in Written(p) THEN 1 ELSE 0)]
    /\ EndTransaction(p)
    /\ UNCHANGED byCourier

-----------------------------------------------------------------------------
(* Single-statement operations *)

(* applyReceiptInTx: a customer's receipt, by account or by token. *)
UploadReceipt ==
    /\ payLock = Free
    /\ payment \in Uploadable
    /\ payment' = "WAITING_VERIFICATION"
    /\ UNCHANGED <<order, res, stock, held, events, byCourier, locks, local>>

(* updateOrderStatus, and the order CAS of the shipment services, for a target   *)
(* other than CANCELLED.                                                        *)
AdvanceOrder(target) ==
    /\ orderLock = Free
    /\ target # "CANCELLED"
    /\ order \in SourcesFor(target)
    /\ order' = target
    /\ UNCHANGED <<payment, res, stock, held, events, byCourier, locks, local>>

(* The order CAS of the shipment services when the courier reports its parcel     *)
(* cancelled: the order and its timeline only, without cancelAndRestock.          *)
CourierCancelsOrder ==
    /\ orderLock = Free
    /\ order \in SourcesFor("CANCELLED")
    /\ order' = "CANCELLED"
    /\ events' = [events EXCEPT !["order.cancelled"] = @ + 1]
    /\ byCourier' = TRUE
    /\ UNCHANGED <<payment, res, stock, held, locks, local>>

-----------------------------------------------------------------------------
Step(p) ==
    \/ ClaimPayment(p)
    \/ PaymentConflict(p)
    \/ SettleLocksOrder(p)
    \/ SettleRefused(p)
    \/ CancelOrder(p)
    \/ NothingToCancel(p)
    \/ ReadReservations(p)
    \/ \E i \in Item : \/ ClaimReservation(p, i)
                       \/ SkipReservation(p, i)
                       \/ LockStock(p, i)
    \/ Commit(p)

Next ==
    \/ \E p \in Proc : \/ \E o \in PaymentOp : BeginPaymentOp(p, o)
                       \/ BeginCancel(p)
                       \/ \E i \in Item : BeginExpireHold(p, i)
                       \/ Step(p)
                       \/ Rollback(p)
    \/ UploadReceipt
    \/ \E target \in OrderStatus : AdvanceOrder(target)
    \/ CourierCancelsOrder

Spec == Init /\ [][Next]_vars

(* What the scheduling gives: the lifecycle worker keeps sweeping the payments   *)
(* past their window and the reservation worker the holds, and PostgreSQL serves *)
(* a statement that waits for a row lock once the lock keeps coming free.        *)
Fairness ==
    \A p \in Proc : /\ SF_vars(BeginPaymentOp(p, "expire"))
                    /\ \A i \in Item : SF_vars(BeginExpireHold(p, i))
                    /\ SF_vars(Step(p))

FairSpec == Spec /\ Fairness

-----------------------------------------------------------------------------
(* Every unit is accounted for: what the counters say is what the reservations *)
(* say, whoever committed, released or expired them and in whatever order.     *)
StockConserved ==
    /\ \A i \in Item : stock[i] = Stock0[i] - (IF res[i] = "COMMITTED" THEN Qty[i] ELSE 0)
    /\ \A i \in OutletItem : held[i] = IF res[i] = "RESERVED" THEN Qty[i] ELSE 0

(* An order cancelled by an admin, a failed or an expired payment keeps no stock: *)
(* cancelAndRestock gave back what was held and what was deducted, even when a    *)
(* settlement or an expiry ran against it.                                       *)
CancelledHoldsNothing ==
    order = "CANCELLED" /\ ~byCourier => \A i \in Item : res[i] \in {"RELEASED", "EXPIRED"}

(* "Single source of truth for cancelling an order and restoring its reserved     *)
(* stock" (OrderCancellationService, class comment): whoever cancels an order, no  *)
(* stock stays deducted for it.  A courier's report does not go through it.        *)
CancelledIsRestocked ==
    order = "CANCELLED" => \A i \in Item : res[i] # "COMMITTED"

(* Each terminal transition is announced exactly once, and a transition that    *)
(* did not happen is never announced.                                           *)
EventsExactlyOnce ==
    /\ events["payment.paid"] = IF payment = "PAID" THEN 1 ELSE 0
    /\ events["payment.failed"] = IF payment = "FAILED" THEN 1 ELSE 0
    /\ events["payment.expired"] = IF payment = "EXPIRED" THEN 1 ELSE 0
    /\ events["order.cancelled"] = IF order = "CANCELLED" THEN 1 ELSE 0

(* A payment that ended unpaid leaves no live order behind. *)
UnpaidOrderIsDead ==
    payment \in {"FAILED", "EXPIRED"} => order \in {"CANCELLED", "DELIVERED", "COMPLETED"}

(* No deadlock among the transactions of an order: in every set of them some    *)
(* one waits for none of the others.  Payment, order, reservation and stock rows *)
(* are always locked in that order.                                             *)
WaitsFor(p, q) ==
    \/ pc[p] = "payment" /\ payLock = q
    \/ pc[p] = "order" /\ orderLock = q
    \/ pc[p] = "items" /\ \E i \in todo[p] :
           \/ resLock[i] = q
           \/ resLock[i] = p /\ stockLock[i] = q

NoDeadlyEmbrace ==
    \A D \in SUBSET Proc :
        D # {} => \E p \in D : \A q \in D \ {p} : ~WaitsFor(p, q)

(* A terminal payment never changes: a late settlement cannot resurrect an      *)
(* expired payment nor an expiry undo a paid one.                               *)
TerminalPaymentFinal ==
    [][(payment \in TerminalPayment) => (payment' = payment)]_vars

(* The order only ever moves along ORDER_STATUS_TRANSITIONS: nothing leaves     *)
(* CANCELLED or COMPLETED, nothing moves backwards.                             *)
OrderMovesLegally ==
    [][order' # order => order' \in Successors(order)]_vars

(* Money is never accepted for a cancelled order. *)
NeverPaidWhenCancelled ==
    [][(payment # "PAID" /\ payment' = "PAID") => (order # "CANCELLED" /\ order' # "CANCELLED")]_vars

(* Serializability: however the statements of the transactions interleave, the   *)
(* committed rows move as if every operation were one atomic step (OrderLife).   *)
Atomic == INSTANCE OrderLife WITH payment <- payment, order <- order, res <- res, Item <- Item

Serializable == Atomic!Spec

(* The inductive invariant behind the safety properties. *)
Phase(p) ==
    /\ pc[p] = "idle" <=> op[p] = "none"
    /\ pc[p] = "payment" => op[p] \in PaymentOp
    /\ pc[p] = "order" => op[p] \in PaymentOp \cup {"cancel"}
    /\ pc[p] = "read" => op[p] = "settle" \/ cancels[p]
    /\ cancels[p] => pc[p] \in {"read", "items"} /\ op[p] \in {"fail", "expire", "cancel"}
    /\ pc[p] # "items" => todo[p] = {} /\ won[p] = {}
    /\ todo[p] \cap won[p] = {}

(* What a transaction is still to do, or has won, is of a status it asked for. *)
Claims(p) ==
    \A i \in todo[p] \cup won[p] :
        /\ op[p] \in {"settle", "expireHold"} \/ cancels[p]
        /\ seen[p][i] \in {"RESERVED", "COMMITTED"}
        /\ ~cancels[p] => seen[p][i] = "RESERVED"
        /\ op[p] = "expireHold" => todo[p] \cup won[p] = {i}

(* Who holds which lock, and what nobody else can have changed under it. *)
LockShape(p) ==
    /\ payLock = p <=> op[p] \in PaymentOp /\ pc[p] \in {"order", "read", "items"}
    /\ orderLock = p <=> cancels[p] \/ (op[p] = "settle" /\ pc[p] \in {"read", "items"})
    /\ \A i \in Item :
        /\ resLock[i] = p => i \in todo[p] \cup won[p] /\ res[i] = seen[p][i]
        /\ i \in won[p] => resLock[i] = p
        /\ stockLock[i] = p => resLock[i] = p

GuardsHold(p) ==
    /\ payLock = p => payment \notin TerminalPayment
    /\ cancels[p] => order \in Cancellable
    /\ op[p] = "settle" /\ pc[p] \in {"read", "items"} => order # "CANCELLED"
    /\ op[p] = "settle" /\ pc[p] = "items" =>
        \A i \in Item : res[i] = "RESERVED" => i \in todo[p] \cup won[p]
    /\ op[p] \in {"fail", "expire"} /\ pc[p] = "items" /\ ~cancels[p] => order \notin Cancellable
    /\ cancels[p] /\ pc[p] = "items" =>
        \A i \in Item : \/ res[i] \in {"RELEASED", "EXPIRED"}
                        \/ i \in won[p]
                        \/ i \in todo[p] /\ res[i] = seen[p][i]

IInv ==
    /\ TypeOK
    /\ \A p \in Proc : Phase(p) /\ Claims(p) /\ LockShape(p) /\ GuardsHold(p)
    /\ StockConserved
    /\ CancelledHoldsNothing
    /\ EventsExactlyOnce
    /\ UnpaidOrderIsDead

(* A transaction that is lost rather than refused. *)
Fails == \E p \in Proc : Rollback(p) /\ ~PaymentConflict(p) /\ ~SettleRefused(p)

(* Once transactions stop failing, every payment is decided, whatever the order  *)
(* has become meanwhile (cancelled by an admin, delivered unpaid).              *)
EventuallyDecided == <>[][~Fails]_vars => <>(payment \in TerminalPayment)

(* ... and no item stays on hold for ever, even when its order ended without a   *)
(* release.                                                                     *)
HoldsEnd == <>[][~Fails]_vars => <>(\A i \in Item : res[i] # "RESERVED")

=============================================================================
