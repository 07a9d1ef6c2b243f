-------------------------- MODULE ShipmentBooking --------------------------
(***************************************************************************)
(* The shipment of a paid order: booking it with the courier, following it, *)
(* and cancelling it (backend/src/modules/shipment).                        *)
(*                                                                         *)
(* A booking reads the row, turns back where its courier waits for a person  *)
(* (one that is booked by hand, or a pickup slot nobody has chosen yet),      *)
(* claims the row with a compare-and-swap, calls the courier outside any      *)
(* transaction and then records the airwaybill; whoever comes while the row   *)
(* is PENDING waits until the claim is old.  The courier's     *)
(* answer may be lost, a process may die and a claim may be taken over at    *)
(* any point between.  Afterwards the tracking poller (through a cache), the *)
(* courier's webhooks (repeated, out of order, with or without a time) and   *)
(* an operator's cancellation move the same row, and through it the order.   *)
(*                                                                         *)
(* The module begins where settlement has left the order: paid, with a       *)
(* shipment in RATE_SELECTED.                                               *)
(***************************************************************************)
EXTENDS Integers, Sequences, OrderDomain

CONSTANTS
    Proc,           \* requests and worker ticks
    Courier,        \* the couriers an order may have been quoted with
    ByHand,         \* those not booked by the application (supportsAutomaticBooking = false)
    Slotted,        \* those booked only once an operator has chosen a pickup slot
    Polled,         \* those the tracking poller asks
    MaxParcels,     \* bound: airwaybills the courier issues
    MaxSaid,        \* bound: status changes the courier reports
    Vocabulary      \* the statuses it reports, as ShipmentStatusMapper maps them

Interruption == {"FAILED", "CANCELLED"}
Terminal     == Interruption \cup {"DELIVERED"}
Progress     == {"CREATED", "WAITING_PICKUP", "PICKED_UP", "IN_TRANSIT", "OUT_FOR_DELIVERY", "DELIVERED"}
Word         == Progress \cup Interruption

ShipmentStatus == {"PENDING", "RATE_SELECTED"} \cup Word

ASSUME ConstantsAssumption ==
    /\ ByHand \cup Slotted \cup Polled \subseteq Courier
    /\ MaxParcels \in Nat
    /\ MaxSaid \in Nat
    /\ Vocabulary \subseteq Word

(* Airwaybills are numbered as they are issued; 0 is no airwaybill. *)
Parcel == 1 .. MaxParcels

(* PROGRESS_RANK *)
Rank(s) ==
    CASE s = "CREATED"          -> 1
      [] s = "WAITING_PICKUP"   -> 2
      [] s = "PICKED_UP"        -> 3
      [] s = "IN_TRANSIT"       -> 4
      [] s = "OUT_FOR_DELIVERY" -> 5
      [] s = "DELIVERED"        -> 6
      [] OTHER                  -> 0

(* Mutant: a parcel that is on its way is polled no more. *)
PollableEarly == {"CREATED", "WAITING_PICKUP", "PICKED_UP"}

(* POLLABLE *)
Pollable == Progress \ Terminal

VARIABLES
    \* the Shipment row
    provider,   \* Shipment.provider
    status,     \* Shipment.status
    awb,        \* trackingNumber (and providerShipmentId), 0 when null
    stale,      \* updatedAt is older than BOOKING_LEASE_MS
    applied,    \* metadata: lastAppliedEventAt, 0 when null
    slot,       \* metadata: there is a pickup slot
    \* the order
    order,
    told,       \* [Word -> shipment.status notifications written]
    \* the courier
    parcels,    \* airwaybills issued
    current,    \* [Parcel -> Word], what it knows of each
    said,       \* Seq([awb, word]): what it has reported, in time order
    cache,      \* [Parcel -> Word \cup {"none"}], the poller's cached answers
    \* processes
    pc,
    parcel,     \* [Proc -> the airwaybill it works on]
    seen,       \* [Proc -> status it read before polling]
    answer,     \* [Proc -> the courier's answer]
    kept,       \* [Proc -> whether the metadata its catch has read had a slot]
    disturbed   \* history: a live booking lost its claim, or the row an airwaybill

row     == <<provider, status, awb, stale, applied, slot>>
courier == <<parcels, current, said, cache>>
local   == <<pc, parcel, seen, answer, kept>>
vars    == <<row, order, told, courier, local, disturbed>>

TypeOK ==
    /\ provider \in Courier
    /\ status \in ShipmentStatus
    /\ awb \in 0 .. MaxParcels
    /\ stale \in BOOLEAN
    /\ applied \in 0 .. MaxSaid
    /\ slot \in BOOLEAN
    /\ order \in OrderStatus
    /\ told \in [Word -> Nat]
    /\ parcels \in 0 .. MaxParcels
    /\ current \in [Parcel -> Word]
    /\ said \in Seq([awb : Parcel, word : Word]) /\ Len(said) <= MaxSaid
    /\ cache \in [Parcel -> Word \cup {"none"}]
    /\ pc \in [Proc -> {"idle", "preparing", "attempting", "failing", "claimed", "booked",
                        "polling", "answered", "cancelling", "cancelled"}]
    /\ parcel \in [Proc -> 0 .. MaxParcels]
    /\ seen \in [Proc -> ShipmentStatus \cup {"none"}]
    /\ answer \in [Proc -> Word \cup {"none"}]
    /\ kept \in [Proc -> BOOLEAN]
    /\ disturbed \in BOOLEAN

Init ==
    /\ provider \in Courier
    /\ status = "RATE_SELECTED"
    /\ awb = 0
    /\ stale = FALSE
    /\ applied = 0
    /\ slot = FALSE
    /\ order = "PROCESSING"
    /\ told = [w \in Word |-> 0]
    /\ parcels = 0
    /\ current = [b \in Parcel |-> "CREATED"]
    /\ said = <<>>
    /\ cache = [b \in Parcel |-> "none"]
    /\ pc = [p \in Proc |-> "idle"]
    /\ parcel = [p \in Proc |-> 0]
    /\ seen = [p \in Proc |-> "none"]
    /\ answer = [p \in Proc |-> "none"]
    /\ kept = [p \in Proc |-> FALSE]
    /\ disturbed = FALSE

-----------------------------------------------------------------------------
(* Processes *)

Goes(p, to, b) ==
    /\ pc' = [pc EXCEPT ![p] = to]
    /\ parcel' = [parcel EXCEPT ![p] = b]

Ends(p) ==
    /\ Goes(p, "idle", 0)
    /\ seen' = [seen EXCEPT ![p] = "none"]
    /\ answer' = [answer EXCEPT ![p] = "none"]
    /\ kept' = [kept EXCEPT ![p] = FALSE]

(* createForOrder throws; its catch reads the metadata it is going to write back. *)
Throws(p) ==
    /\ Goes(p, "failing", 0)
    /\ kept' = [kept EXCEPT ![p] = slot]

(* Bookings that have claimed the row and not yet recorded an outcome. *)
InFlight == {p \in Proc : pc[p] \in {"claimed", "booked"}}

-----------------------------------------------------------------------------
(* createForOrderSafe: settlement, admin retry and preparation, reconciliation *)

(* Mutants: the claim does not wait for the lease, or never takes over. *)
ClaimableAny  == awb = 0 /\ status \in {"RATE_SELECTED", "FAILED", "PENDING"}
ClaimableOnce == awb = 0 /\ status \in {"RATE_SELECTED", "FAILED"}

Claimable ==
    /\ awb = 0
    /\ status \in {"RATE_SELECTED", "FAILED"} \/ (status = "PENDING" /\ stale)

(* What createForOrder asks of the row before it claims it; otherwise it returns *)
(* AWAITING_MANUAL_FULFILMENT or AWAITING_PICKUP_SCHEDULE and changes nothing.    *)
Bookable ==
    /\ provider \notin ByHand
    /\ provider \in Slotted => slot

Attempt(p) ==
    /\ pc[p] = "idle"
    /\ awb = 0
    /\ Bookable
    /\ Goes(p, "attempting", 0)
    /\ UNCHANGED <<row, order, told, courier, seen, answer, kept, disturbed>>

(* The same by ShipmentReconciliationWorker, which leaves FAILED to an admin. *)
Reconcile(p) == Claimable /\ status # "FAILED" /\ Attempt(p)

Claim(p) ==
    /\ pc[p] = "attempting"
    /\ Claimable
    /\ status' = "PENDING"
    /\ stale' = FALSE
    /\ Goes(p, "claimed", 0)
    /\ UNCHANGED <<provider, awb, applied, slot, order, told, courier, seen, answer, kept, disturbed>>

(* BOOKING_IN_PROGRESS, or the airwaybill another booking has recorded. *)
ClaimLost(p) ==
    /\ pc[p] = "attempting"
    /\ ~Claimable
    /\ Ends(p)
    /\ UNCHANGED <<row, order, told, courier, disturbed>>

(* prepareForOrder: the operator's pickup slot, merged into the metadata as read  *)
(* when there was no airwaybill, before the booking is tried.                    *)
PrepareReads(p) ==
    /\ pc[p] = "idle"
    /\ awb = 0
    /\ Goes(p, "preparing", 0)
    /\ UNCHANGED <<row, order, told, courier, seen, answer, kept, disturbed>>

(* The update is keyed by id, takes no lock, and renews updatedAt. *)
PrepareRecords(p) ==
    /\ pc[p] = "preparing"
    /\ applied' = 0
    /\ slot' = TRUE
    /\ stale' = FALSE
    /\ Ends(p)
    /\ UNCHANGED <<provider, status, awb, order, told, courier, disturbed>>

(* An error before the claim (a read fails, no outlet, no provider). *)
FailsBeforeClaim(p) ==
    /\ pc[p] = "idle"
    /\ awb = 0
    /\ Throws(p)
    /\ UNCHANGED <<row, order, told, courier, seen, answer, disturbed>>

(* provider.createShipment *)
CourierBooks(p) ==
    /\ pc[p] = "claimed"
    /\ parcels < MaxParcels
    /\ parcels' = parcels + 1
    /\ Goes(p, "booked", parcels + 1)
    /\ UNCHANGED <<row, order, told, current, said, cache, seen, answer, kept, disturbed>>

CourierRefuses(p) ==
    /\ pc[p] = "claimed"
    /\ Throws(p)
    /\ UNCHANGED <<row, order, told, courier, seen, answer, disturbed>>

(* The courier has booked, and its answer is lost: a timeout. *)
AnswerLost(p) ==
    /\ pc[p] = "claimed"
    /\ parcels < MaxParcels
    /\ parcels' = parcels + 1
    /\ Throws(p)
    /\ disturbed' = TRUE
    /\ UNCHANGED <<row, order, told, current, said, cache, seen, answer>>

(* The order CAS of the write-back. *)
ShipOrder == order' = IF order \in SourcesFor("SHIPPED") THEN "SHIPPED" ELSE order

(* The write-back is keyed by id alone. *)
WriteBack(p) ==
    /\ pc[p] = "booked"
    /\ status' = "CREATED"
    /\ awb' = parcel[p]
    /\ stale' = FALSE
    /\ ShipOrder
    /\ Ends(p)
    /\ UNCHANGED <<provider, applied, slot, told, courier, disturbed>>

WriteBackFails(p) ==
    /\ pc[p] = "booked"
    /\ Throws(p)
    /\ disturbed' = TRUE
    /\ UNCHANGED <<row, order, told, courier, seen, answer>>

(* The catch of createForOrderSafe, whoever holds the claim; a slot recorded since *)
(* it read the metadata is lost.                                                 *)
MarkFailed(p) ==
    /\ pc[p] = "failing"
    /\ IF awb = 0
       THEN status' = "FAILED" /\ stale' = FALSE /\ slot' = kept[p]
       ELSE UNCHANGED <<status, stale, slot>>
    /\ Ends(p)
    /\ disturbed' = (disturbed \/ InFlight # {})
    /\ UNCHANGED <<provider, awb, applied, order, told, courier>>

(* The process dies, or even the catch's update fails. *)
Crash(p) ==
    /\ pc[p] # "idle"
    /\ Ends(p)
    /\ disturbed' = (disturbed \/ pc[p] = "booked")
    /\ UNCHANGED <<row, order, told, courier>>

(* now passes updatedAt + BOOKING_LEASE_MS *)
LeaseExpires ==
    /\ status = "PENDING"
    /\ ~stale
    /\ stale' = TRUE
    /\ disturbed' = (disturbed \/ InFlight # {})
    /\ UNCHANGED <<provider, status, awb, applied, slot, order, told, courier, local>>

-----------------------------------------------------------------------------
(* The courier *)

(* It moves forward, or its journey is interrupted. *)
MayBecome(b, w) ==
    /\ current[b] \notin Terminal
    /\ w \in Interruption \/ Rank(w) > Rank(current[b])

Says(b, w) ==
    /\ Len(said) < MaxSaid
    /\ MayBecome(b, w)
    /\ said' = Append(said, [awb |-> b, word |-> w])
    /\ current' = [current EXCEPT ![b] = w]

CourierSays(b, w) ==
    /\ b <= parcels
    /\ Says(b, w)
    /\ UNCHANGED <<row, order, told, parcels, cache, local, disturbed>>

-----------------------------------------------------------------------------
(* Transitions: decideShipmentTransition and applyTransitionInTx *)

(* Mutant: backwards moves pass. *)
DecideAnyRank(from, word, at, last) ==
    /\ from \notin Terminal
    /\ from # word
    /\ ~(at > 0 /\ last > 0 /\ at < last)

(* at is the time of the event and last that of the event last applied, 0 when   *)
(* there is none; the poller passes neither.  An older event is refused, and so  *)
(* is an interruption without a time after a move with one.                     *)
Decide(from, word, at, last) ==
    /\ from \notin Terminal
    /\ from # word
    /\ ~(at > 0 /\ last > 0 /\ at < last)
    /\ IF word \in Interruption
       THEN at > 0 \/ last = 0
       ELSE Rank(word) > Rank(from)

(* toOrderStatus *)
OrderFor(word) ==
    CASE word \in {"CREATED", "WAITING_PICKUP"}                       -> "SHIPPED"
      [] word \in {"PICKED_UP", "IN_TRANSIT", "OUT_FOR_DELIVERY"}     -> "DELIVERING"
      [] word = "DELIVERED"                                           -> "DELIVERED"
      [] word = "CANCELLED"                                           -> "CANCELLED"
      [] OTHER                                                        -> "none"

(* shouldNotify *)
Notifies(word) == word # "WAITING_PICKUP"

AdvanceOrderTo(word) ==
    order' = IF OrderFor(word) # "none" /\ order \in SourcesFor(OrderFor(word))
             THEN OrderFor(word)
             ELSE order

(* Mutant: the shipment is given the order's status. *)
ApplyTransitionSwapped(readStatus, word) ==
    IF status = readStatus
    THEN /\ status' = OrderFor(word)
         /\ AdvanceOrderTo(word)
         /\ told' = [told EXCEPT ![word] = @ + (IF Notifies(word) THEN 1 ELSE 0)]
    ELSE UNCHANGED <<status, order, told>>

(* Mutant: the status is not compared with the one read before asking. *)
ApplyTransitionById(readStatus, word) ==
    /\ status' = word
    /\ AdvanceOrderTo(word)
    /\ told' = [told EXCEPT ![word] = @ + (IF Notifies(word) THEN 1 ELSE 0)]

(* The CAS, the order and the customer's notification, in one transaction. *)
ApplyTransition(readStatus, word) ==
    IF status = readStatus
    THEN /\ status' = word
         /\ AdvanceOrderTo(word)
         /\ told' = [told EXCEPT ![word] = @ + (IF Notifies(word) THEN 1 ELSE 0)]
    ELSE UNCHANGED <<status, order, told>>

-----------------------------------------------------------------------------
(* The tracking poller: syncAll, which passes over JNE in webhook-only mode *)

PollReads(p) ==
    /\ pc[p] = "idle"
    /\ provider \in Polled
    /\ status \in Pollable
    /\ awb # 0
    /\ Goes(p, "polling", awb)
    /\ seen' = [seen EXCEPT ![p] = status]
    /\ UNCHANGED <<row, order, told, courier, answer, kept, disturbed>>

(* trackWithCache: the cached answer, or a fresh one that is then cached. *)
PollAsks(p) ==
    /\ pc[p] = "polling"
    /\ LET b == parcel[p]
           a == IF cache[b] # "none" THEN cache[b] ELSE current[b]
       IN  /\ answer' = [answer EXCEPT ![p] = a]
           /\ cache' \in {cache, [cache EXCEPT ![b] = a]}
    /\ Goes(p, "answered", parcel[p])
    /\ UNCHANGED <<row, order, told, parcels, current, said, seen, kept, disturbed>>

(* A refused answer is recorded in the metadata and nothing else. *)
PollApplies(p) ==
    /\ pc[p] = "answered"
    /\ IF Decide(seen[p], answer[p], 0, 0)
       THEN ApplyTransition(seen[p], answer[p])
       ELSE UNCHANGED <<status, order, told>>
    /\ Ends(p)
    /\ UNCHANGED <<provider, awb, stale, applied, slot, courier, disturbed>>

(* The answer's two hours pass, or a webhook or a cancellation drops it. *)
CacheDropped(b) ==
    /\ cache[b] # "none"
    /\ cache' = [cache EXCEPT ![b] = "none"]
    /\ UNCHANGED <<row, order, told, parcels, current, said, local, disturbed>>

-----------------------------------------------------------------------------
(* The couriers' webhooks: one transaction under the shipment's row lock *)

(* The push of report i, now or again, with its time or without one.  One that  *)
(* is not about the row's airwaybill is refused.                                *)
Webhook(i, dated) ==
    LET word == said[i].word
        at   == IF dated THEN i ELSE 0
    IN  /\ i \in DOMAIN said
        /\ said[i].awb = awb
        /\ Decide(status, word, at, applied)
        /\ ApplyTransition(status, word)
        /\ applied' = IF dated THEN i ELSE applied
        /\ UNCHANGED <<provider, awb, stale, slot, courier, local, disturbed>>

-----------------------------------------------------------------------------
(* cancelForShipment *)

CancelReads(p) ==
    /\ pc[p] = "idle"
    /\ status # "CANCELLED"
    /\ awb # 0
    /\ Goes(p, "cancelling", awb)
    /\ UNCHANGED <<row, order, told, courier, seen, answer, kept, disturbed>>

(* provider.cancelShipment: accepted, which the courier will also report. *)
CourierCancels(p) ==
    /\ pc[p] = "cancelling"
    /\ Says(parcel[p], "CANCELLED")
    /\ Goes(p, "cancelled", parcel[p])
    /\ UNCHANGED <<row, order, told, parcels, cache, seen, answer, kept, disturbed>>

(* Refused, or the call or the update after it fails: nothing is recorded. *)
CancelFails(p) ==
    /\ pc[p] \in {"cancelling", "cancelled"}
    /\ Ends(p)
    /\ UNCHANGED <<row, order, told, courier, disturbed>>

CancelRecords(p) ==
    /\ pc[p] = "cancelled"
    /\ status' = "CANCELLED"
    /\ stale' = FALSE
    /\ Ends(p)
    /\ UNCHANGED <<provider, awb, applied, slot, order, told, courier, disturbed>>

-----------------------------------------------------------------------------
(* OrderCancellationService.cancelAndRestock, which leaves the shipment alone; the  *)
(* admin who advances an order by hand is in OrderSettlement.                     *)
CancelOrder ==
    /\ order \in Cancellable
    /\ order' = "CANCELLED"
    /\ UNCHANGED <<row, told, courier, local, disturbed>>

-----------------------------------------------------------------------------
BookingStep(p) ==
    \/ Claim(p)
    \/ ClaimLost(p)
    \/ CourierBooks(p)
    \/ CourierRefuses(p)
    \/ AnswerLost(p)
    \/ WriteBack(p)
    \/ WriteBackFails(p)
    \/ MarkFailed(p)

Next ==
    \/ \E p \in Proc : \/ Attempt(p)
                       \/ PrepareReads(p)
                       \/ PrepareRecords(p)
                       \/ FailsBeforeClaim(p)
                       \/ BookingStep(p)
                       \/ Crash(p)
                       \/ PollReads(p)
                       \/ PollAsks(p)
                       \/ PollApplies(p)
                       \/ CancelReads(p)
                       \/ CourierCancels(p)
                       \/ CancelFails(p)
                       \/ CancelRecords(p)
    \/ LeaseExpires
    \/ \E b \in Parcel : \/ CacheDropped(b)
                         \/ \E w \in Vocabulary : CourierSays(b, w)
    \/ \E i \in DOMAIN said, dated \in BOOLEAN : Webhook(i, dated)
    \/ CancelOrder

Spec == Init /\ [][Next]_vars

(* What the scheduling gives where the two workers are enabled: they keep ticking  *)
(* and reach every row they select, a process that does not die goes on, and time  *)
(* passes.  (Reconcile and PollReads select no more than the workers do.)          *)
Fairness ==
    /\ WF_vars(LeaseExpires)
    /\ \A b \in Parcel : WF_vars(CacheDropped(b))
    /\ \A p \in Proc :
        /\ SF_vars(Reconcile(p))
        /\ WF_vars(PrepareRecords(p))
        /\ WF_vars(BookingStep(p))
        /\ WF_vars(CourierCancels(p) \/ CancelFails(p) \/ CancelRecords(p))
        /\ SF_vars(PollReads(p))
        /\ WF_vars(PollAsks(p))
        /\ WF_vars(PollApplies(p))

FairSpec == Spec /\ Fairness

-----------------------------------------------------------------------------
(* "no duplicate courier bookings" (shipment.service.ts, the claim's comment), as   *)
(* far as the claim gives it: a second parcel is only booked after the lease of a  *)
(* live booking ran out, another caller's error marked its shipment FAILED, or an *)
(* airwaybill never reached the row.                                              *)
BookedOnceUndisturbed == disturbed \/ parcels <= 1

(* "Notify exactly once per transition": while there is one parcel, no status is  *)
(* told to the customer twice, however often and in whatever order the poller's    *)
(* cache and the webhooks report it.                                             *)
ToldOnce == parcels <= 1 => \A w \in Word : told[w] <= 1

(* Courier reports, stale, repeated or reordered, never move a booked shipment     *)
(* backwards nor out of a terminal status, and a dated one never applies after a    *)
(* newer dated one; only a booking's write-back and an operator's cancellation may, *)
(* and the memory of the last dated one is only lost to an operator's late slot.   *)
ForwardOnly ==
    [][\/ \E p \in Proc : WriteBack(p) \/ CancelRecords(p)
       \/ /\ awb # 0 /\ status' # status
             => /\ status \notin Terminal
                /\ status' \in Interruption \/ Rank(status') > Rank(status)
          /\ applied' >= applied \/ \E p \in Proc : PrepareRecords(p)]_vars

(* The inductive invariant behind the safety properties.  What a process is about: *)
About(p) ==
    /\ pc[p] \in {"polling", "answered"} => seen[p] \in Pollable
    /\ pc[p] \in {"polling", "answered", "cancelling", "cancelled"} => awb # 0 /\ parcel[p] # 0
    /\ pc[p] = "answered" => answer[p] # "none"
    /\ pc[p] = "booked" => parcel[p] # 0 /\ parcels # 0

(* Who holds the claim, and what has been issued under it. *)
OneClaim ==
    \/ disturbed
    \/ /\ \A p, q \in InFlight : p = q
       /\ InFlight # {} => awb = 0 /\ status = "PENDING" /\ ~stale
       /\ parcels = IF awb # 0 \/ (\E p \in Proc : pc[p] = "booked") THEN 1 ELSE 0

(* While there is one parcel: what has been told lies behind the status. *)
OneStory ==
    parcels <= 1 =>
        /\ parcels = 0 => awb = 0
        /\ \A p \in Proc : pc[p] = "booked" => awb = 0 /\ \A q \in Proc : pc[q] = "booked" => p = q
        /\ \A w \in Word : /\ told[w] <= 1
                           /\ told[w] = 1 => /\ awb # 0
                                             /\ \/ status \in Terminal
                                                \/ w \notin Interruption /\ Rank(w) <= Rank(status)

IInv == TypeOK /\ (\A p \in Proc : About(p)) /\ OneClaim /\ OneStory

(* Errors and deaths, and an operator's cancellation. *)
Disturbance ==
    \E p \in Proc : \/ Crash(p)
                    \/ FailsBeforeClaim(p)
                    \/ CancelReads(p)
                    \/ PrepareReads(p)

(* Once disturbances stop, the reconciliation worker leaves no paid shipment that  *)
(* waits for nobody without a booking: it is booked, or FAILED for an admin to see. *)
(* (One that waits for its slot, or whose slot was lost, waits for an operator.)     *)
EventuallyAttempted ==
    <>[][~Disturbance]_vars => []<>(awb # 0 \/ status = "FAILED" \/ ~Bookable)

(* ... and a shipment whose courier is polled catches up with its parcel, if every *)
(* webhook is lost.                                                              *)
EventuallyTracked ==
    <>[][~Disturbance]_vars =>
        <>[](awb # 0 /\ provider \in Polled =>
                \/ status \in Terminal
                \/ /\ current[awb] \notin Interruption
                   /\ Rank(status) >= Rank(current[awb]))

=============================================================================
