----------------------- MODULE ShipmentBookingProofs -----------------------
(***************************************************************************)
(* An undisturbed booking asks the courier once, no status of a parcel is   *)
(* told twice and courier reports only move a shipment forward, for any      *)
(* number of processes, parcels and reports.                                *)
(***************************************************************************)
EXTENDS ShipmentBooking, TLAPS

(* Statuses are words or precede them, and "none" is no status. *)
LEMMA Words ==
  /\ Word \subseteq ShipmentStatus
  /\ Pollable \subseteq Word
  /\ Terminal \subseteq Word
  /\ Interruption \subseteq Terminal
  /\ Pollable \cap Terminal = {}
  /\ "PENDING" \in ShipmentStatus /\ "RATE_SELECTED" \in ShipmentStatus /\ "FAILED" \in ShipmentStatus
  /\ "CREATED" \in ShipmentStatus /\ "CANCELLED" \in ShipmentStatus
  /\ "PENDING" \notin Pollable /\ "PENDING" \notin Terminal
  /\ "none" \notin Word
  /\ "CREATED" \in Word /\ "CANCELLED" \in Word
  BY DEF ShipmentStatus, Word, Pollable, Progress, Interruption, Terminal

LEMMA RankIsInt == \A s \in ShipmentStatus : Rank(s) \in Int
  BY DEF Rank, ShipmentStatus, Word, Progress, Interruption

(* The order only takes statuses of its own. *)
LEMMA OrderTypes ==
  ASSUME order \in OrderStatus
  PROVE  /\ ShipOrder => order' \in OrderStatus
         /\ \A w : AdvanceOrderTo(w) => order' \in OrderStatus
         /\ CancelOrder => order' \in OrderStatus
  BY DEF ShipOrder, AdvanceOrderTo, OrderFor, CancelOrder, OrderStatus, ActiveOrder

LEMMA InitIInv == Init => IInv
<1> SUFFICES ASSUME Init PROVE IInv
    OBVIOUS
<1>a. stale \in BOOLEAN /\ slot \in BOOLEAN /\ disturbed \in BOOLEAN
    BY Zenon DEF Init
<1>c. kept \in [Proc -> BOOLEAN]
    BY Zenon DEF Init
<1>b. said \in Seq([awb : Parcel, word : Word]) /\ Len(said) <= MaxSaid
    BY ConstantsAssumption DEF Init
<1>1. TypeOK
    BY <1>a, <1>b, <1>c, ConstantsAssumption, Words DEF Init, TypeOK, OrderStatus, ActiveOrder
<1>2. (\A p \in Proc : About(p)) /\ OneClaim /\ OneStory
    BY DEF Init, About, OneClaim, OneStory, InFlight
<1> QED
    BY <1>1, <1>2 DEF IInv

LEMMA SeqElement ==
  ASSUME NEW S, NEW s \in Seq(S), NEW i \in DOMAIN s
  PROVE  i \in 1 .. Len(s) /\ s[i] \in S
  OBVIOUS

(* What the courier says is well typed. *)
LEMMA SaysTypes ==
  ASSUME TypeOK, NEW b \in Parcel, NEW w \in Word, Says(b, w)
  PROVE  /\ said' \in Seq([awb : Parcel, word : Word]) /\ Len(said') <= MaxSaid
         /\ current' \in [Parcel -> Word]
<1>1. [awb |-> b, word |-> w] \in [awb : Parcel, word : Word]
    OBVIOUS
<1> QED
    BY <1>1, ConstantsAssumption DEF TypeOK, Says

(* A transition leaves the row, the order and the customer well typed. *)
LEMMA TransitionTypes ==
  ASSUME TypeOK, NEW s, NEW w \in Word, ApplyTransition(s, w)
  PROVE  status' \in ShipmentStatus /\ order' \in OrderStatus /\ told' \in [Word -> Nat]
<1> DEFINE n == told[w] + (IF Notifies(w) THEN 1 ELSE 0)
<1>1. n \in Nat
    BY DEF TypeOK
<1>2. order' \in OrderStatus
    BY OrderTypes DEF TypeOK, ApplyTransition
<1>3. told' = told \/ told' = [told EXCEPT ![w] = n]
    BY DEF ApplyTransition
<1> HIDE DEF n
<1>4. told' \in [Word -> Nat]
    BY <1>1, <1>3 DEF TypeOK
<1> QED
    BY <1>2, <1>4, Words DEF TypeOK, ApplyTransition

(* A process that ends or throws keeps its registers well typed. *)
LEMMA EndsTypes ==
  ASSUME TypeOK, NEW p \in Proc, Ends(p)
  PROVE  /\ pc' \in [Proc -> {"idle", "preparing", "attempting", "failing", "claimed", "booked",
                              "polling", "answered", "cancelling", "cancelled"}]
         /\ parcel' \in [Proc -> 0 .. MaxParcels]
         /\ seen' \in [Proc -> ShipmentStatus \cup {"none"}]
         /\ answer' \in [Proc -> Word \cup {"none"}]
         /\ kept' \in [Proc -> BOOLEAN]
<1>1. [kept EXCEPT ![p] = FALSE] \in [Proc -> BOOLEAN]
    BY Zenon DEF TypeOK
<1>2. kept' \in [Proc -> BOOLEAN]
    BY <1>1, Zenon DEF Ends
<1>3. /\ pc' = [pc EXCEPT ![p] = "idle"] /\ parcel' = [parcel EXCEPT ![p] = 0]
      /\ seen' = [seen EXCEPT ![p] = "none"] /\ answer' = [answer EXCEPT ![p] = "none"]
    BY DEF Ends, Goes
<1> QED
    BY <1>2, <1>3, ConstantsAssumption DEF TypeOK

LEMMA TypeStep ==
  ASSUME IInv, [Next]_vars
  PROVE  TypeOK'
<1> USE ConstantsAssumption DEF IInv, row, courier, local
<1>1. ASSUME NEW p \in Proc, Claim(p) PROVE TypeOK'
  <2>1. stale' \in BOOLEAN
      BY <1>1, Zenon DEF Claim
  <2> QED
      BY <1>1, <2>1, Words DEF Claim, Goes, TypeOK
<1>2. ASSUME NEW p \in Proc, FailsBeforeClaim(p) PROVE TypeOK'
    BY <1>2 DEF FailsBeforeClaim, Throws, Goes, TypeOK
<1>3. ASSUME NEW p \in Proc, CourierBooks(p) PROVE TypeOK'
    BY <1>3, ConstantsAssumption DEF CourierBooks, Goes, TypeOK
<1>4. ASSUME NEW p \in Proc, CourierRefuses(p) PROVE TypeOK'
    BY <1>4 DEF CourierRefuses, Throws, Goes, TypeOK
<1>5. ASSUME NEW p \in Proc, AnswerLost(p) PROVE TypeOK'
    BY <1>5, ConstantsAssumption DEF AnswerLost, Throws, Goes, TypeOK
<1>6. ASSUME NEW p \in Proc, WriteBack(p) PROVE TypeOK'
  <2>1. stale' \in BOOLEAN
      BY <1>6, Zenon DEF WriteBack
  <2> QED
      BY <1>6, <2>1, Words, OrderTypes, EndsTypes DEF WriteBack, TypeOK
<1>7. ASSUME NEW p \in Proc, WriteBackFails(p) PROVE TypeOK'
    BY <1>7 DEF WriteBackFails, Throws, Goes, TypeOK
<1>8. ASSUME NEW p \in Proc, MarkFailed(p) PROVE TypeOK'
  <2>1. stale' \in BOOLEAN
      BY <1>8, Zenon DEF MarkFailed, TypeOK
  <2>2. kept[p] \in BOOLEAN
      BY Zenon DEF TypeOK
  <2>3. slot' \in BOOLEAN
      BY <1>8, <2>2, Zenon DEF MarkFailed, TypeOK
  <2> QED
      BY <1>8, <2>1, <2>3, Words, EndsTypes DEF MarkFailed, TypeOK
<1>9. ASSUME NEW p \in Proc, Crash(p) PROVE TypeOK'
    BY <1>9, EndsTypes DEF Crash, TypeOK
<1>10. CASE LeaseExpires
    BY <1>10 DEF LeaseExpires, TypeOK
<1>11. ASSUME NEW b \in Parcel, NEW w \in Vocabulary, CourierSays(b, w) PROVE TypeOK'
    BY <1>11, SaysTypes, ConstantsAssumption DEF CourierSays, TypeOK
<1>12. ASSUME NEW p \in Proc, PollReads(p) PROVE TypeOK'
    BY <1>12, Words DEF PollReads, Goes, TypeOK
<1>13. ASSUME NEW p \in Proc, PollAsks(p) PROVE TypeOK'
  <2> DEFINE b == parcel[p]
             a == IF cache[b] # "none" THEN cache[b] ELSE current[b]
  <2>1. b \in Parcel
      BY <1>13 DEF PollAsks, About, TypeOK, Parcel
  <2>2. a \in Word
      BY <2>1 DEF TypeOK
  <2>3. answer' = [answer EXCEPT ![p] = a] /\ cache' \in {cache, [cache EXCEPT ![b] = a]}
      BY <1>13 DEF PollAsks
  <2>4. Goes(p, "answered", parcel[p]) /\ UNCHANGED <<row, order, told, parcels, current, said, seen, kept, disturbed>>
      BY <1>13 DEF PollAsks
  <2> HIDE DEF a, b
  <2>5. cache' \in [Parcel -> Word \cup {"none"}]
      BY <2>2, <2>3 DEF TypeOK
  <2> QED
      BY <2>2, <2>3, <2>4, <2>5 DEF Goes, TypeOK
<1>14. ASSUME NEW p \in Proc, PollApplies(p) PROVE TypeOK'
  <2>1. answer[p] \in Word
      BY <1>14 DEF PollApplies, About, TypeOK
  <2>2. status' \in ShipmentStatus /\ order' \in OrderStatus /\ told' \in [Word -> Nat]
      BY <1>14, <2>1, TransitionTypes DEF PollApplies, TypeOK
  <2> QED
      BY <1>14, <2>2, EndsTypes DEF PollApplies, TypeOK
<1>15. ASSUME NEW b \in Parcel, CacheDropped(b) PROVE TypeOK'
    BY <1>15 DEF CacheDropped, TypeOK
<1>16. ASSUME NEW i \in DOMAIN said, NEW dated \in BOOLEAN, Webhook(i, dated) PROVE TypeOK'
  <2>a. said \in Seq([awb : Parcel, word : Word]) /\ Len(said) \in Nat /\ Len(said) <= MaxSaid
      BY DEF TypeOK
  <2>b. i \in 1 .. Len(said) /\ said[i] \in [awb : Parcel, word : Word]
      BY <2>a, SeqElement
  <2>1. i \in 0 .. MaxSaid /\ said[i].word \in Word
      BY <2>a, <2>b
  <2>2. status' \in ShipmentStatus /\ order' \in OrderStatus /\ told' \in [Word -> Nat]
      BY <1>16, <2>1, TransitionTypes DEF Webhook
  <2> QED
      BY <1>16, <2>1, <2>2, ConstantsAssumption DEF Webhook, TypeOK
<1>17. ASSUME NEW p \in Proc, CancelReads(p) PROVE TypeOK'
    BY <1>17 DEF CancelReads, Goes, TypeOK
<1>18. ASSUME NEW p \in Proc, CourierCancels(p) PROVE TypeOK'
  <2>1. parcel[p] \in Parcel
      BY <1>18 DEF CourierCancels, About, TypeOK, Parcel
  <2> QED
      BY <1>18, <2>1, SaysTypes, Words DEF CourierCancels, Goes, TypeOK
<1>19. ASSUME NEW p \in Proc, CancelFails(p) PROVE TypeOK'
    BY <1>19, EndsTypes DEF CancelFails, TypeOK
<1>20. ASSUME NEW p \in Proc, CancelRecords(p) PROVE TypeOK'
  <2>1. stale' \in BOOLEAN
      BY <1>20, Zenon DEF CancelRecords
  <2> QED
      BY <1>20, <2>1, Words, EndsTypes DEF CancelRecords, TypeOK
<1>21. CASE CancelOrder
    BY <1>21, OrderTypes DEF CancelOrder, TypeOK
<1>22. CASE UNCHANGED vars
    BY <1>22 DEF vars, TypeOK
<1>23. ASSUME NEW p \in Proc, PrepareReads(p) PROVE TypeOK'
    BY <1>23 DEF PrepareReads, Goes, TypeOK
<1>24. ASSUME NEW p \in Proc, PrepareRecords(p) PROVE TypeOK'
  <2>1. stale' \in BOOLEAN /\ slot' \in BOOLEAN
      BY <1>24, Zenon DEF PrepareRecords
  <2> QED
      BY <1>24, <2>1, EndsTypes DEF PrepareRecords, TypeOK
<1>25. ASSUME NEW p \in Proc, Attempt(p) PROVE TypeOK'
    BY <1>25 DEF Attempt, Goes, TypeOK
<1>26. ASSUME NEW p \in Proc, ClaimLost(p) PROVE TypeOK'
    BY <1>26, EndsTypes DEF ClaimLost, TypeOK
<1> QED
    BY <1>1, <1>2, <1>3, <1>4, <1>5, <1>6, <1>7, <1>8, <1>9, <1>10, <1>11, <1>12, <1>13, <1>14,
       <1>15, <1>16, <1>17, <1>18, <1>19, <1>20, <1>21, <1>22,
       <1>23, <1>24, <1>25, <1>26 DEF Next, BookingStep

(* A process keeps to the airwaybill and the status it has read. *)
LEMMA AboutStep ==
  ASSUME IInv, TypeOK', [Next]_vars
  PROVE  (\A q \in Proc : About(q))'
<1> USE ConstantsAssumption DEF IInv, row, courier, local
<1>1. ASSUME NEW p \in Proc, Claim(p) PROVE (\A q \in Proc : About(q))'
    BY <1>1 DEF Claim, Goes, About, TypeOK
<1>2. ASSUME NEW p \in Proc, FailsBeforeClaim(p) PROVE (\A q \in Proc : About(q))'
    BY <1>2 DEF FailsBeforeClaim, Throws, Goes, About, TypeOK
<1>3. ASSUME NEW p \in Proc, CourierBooks(p) PROVE (\A q \in Proc : About(q))'
    BY <1>3 DEF CourierBooks, Goes, About, TypeOK
<1>4. ASSUME NEW p \in Proc, CourierRefuses(p) PROVE (\A q \in Proc : About(q))'
    BY <1>4 DEF CourierRefuses, Throws, Goes, About, TypeOK
<1>5. ASSUME NEW p \in Proc, AnswerLost(p) PROVE (\A q \in Proc : About(q))'
    BY <1>5 DEF AnswerLost, Throws, Goes, About, TypeOK
<1>6. ASSUME NEW p \in Proc, WriteBack(p) PROVE (\A q \in Proc : About(q))'
    BY <1>6 DEF WriteBack, Ends, Goes, About, TypeOK
<1>7. ASSUME NEW p \in Proc, WriteBackFails(p) PROVE (\A q \in Proc : About(q))'
    BY <1>7 DEF WriteBackFails, Throws, Goes, About, TypeOK
<1>8. ASSUME NEW p \in Proc, MarkFailed(p) PROVE (\A q \in Proc : About(q))'
    BY <1>8 DEF MarkFailed, Ends, Goes, About, TypeOK
<1>9. ASSUME NEW p \in Proc, Crash(p) PROVE (\A q \in Proc : About(q))'
    BY <1>9 DEF Crash, Ends, Goes, About, TypeOK
<1>10. CASE LeaseExpires
    BY <1>10 DEF LeaseExpires, About, TypeOK
<1>11. ASSUME NEW b \in Parcel, NEW w \in Vocabulary, CourierSays(b, w) PROVE (\A q \in Proc : About(q))'
    BY <1>11 DEF CourierSays, Says, About, TypeOK
<1>12. ASSUME NEW p \in Proc, PollReads(p) PROVE (\A q \in Proc : About(q))'
    BY <1>12 DEF PollReads, Goes, About, TypeOK
<1>13. ASSUME NEW p \in Proc, PollAsks(p) PROVE (\A q \in Proc : About(q))'
  <2> DEFINE b == parcel[p]
             a == IF cache[b] # "none" THEN cache[b] ELSE current[b]
  <2>1. b \in Parcel
      BY <1>13 DEF PollAsks, About, TypeOK, Parcel
  <2>2. a # "none"
      BY <2>1, Words DEF TypeOK
  <2>3. answer' = [answer EXCEPT ![p] = a]
      BY <1>13 DEF PollAsks
  <2>4. pc[p] = "polling" /\ Goes(p, "answered", parcel[p]) /\ UNCHANGED <<row, parcels, seen>>
      BY <1>13 DEF PollAsks
  <2> HIDE DEF a, b
  <2> QED
      BY <2>2, <2>3, <2>4 DEF Goes, About, TypeOK
<1>14. ASSUME NEW p \in Proc, PollApplies(p) PROVE (\A q \in Proc : About(q))'
    BY <1>14 DEF PollApplies, Ends, Goes, About, TypeOK
<1>15. ASSUME NEW b \in Parcel, CacheDropped(b) PROVE (\A q \in Proc : About(q))'
    BY <1>15 DEF CacheDropped, About, TypeOK
<1>16. ASSUME NEW i \in DOMAIN said, NEW dated \in BOOLEAN, Webhook(i, dated) PROVE (\A q \in Proc : About(q))'
    BY <1>16 DEF Webhook, About, TypeOK
<1>17. ASSUME NEW p \in Proc, CancelReads(p) PROVE (\A q \in Proc : About(q))'
    BY <1>17 DEF CancelReads, Goes, About, TypeOK
<1>18. ASSUME NEW p \in Proc, CourierCancels(p) PROVE (\A q \in Proc : About(q))'
    BY <1>18 DEF CourierCancels, Goes, Says, About, TypeOK
<1>19. ASSUME NEW p \in Proc, CancelFails(p) PROVE (\A q \in Proc : About(q))'
    BY <1>19 DEF CancelFails, Ends, Goes, About, TypeOK
<1>20. ASSUME NEW p \in Proc, CancelRecords(p) PROVE (\A q \in Proc : About(q))'
    BY <1>20 DEF CancelRecords, Ends, Goes, About, TypeOK
<1>21. CASE CancelOrder
    BY <1>21 DEF CancelOrder, About, TypeOK
<1>22. CASE UNCHANGED vars
    BY <1>22 DEF vars, About, TypeOK
<1>23. ASSUME NEW p \in Proc, PrepareReads(p) PROVE (\A q \in Proc : About(q))'
    BY <1>23 DEF PrepareReads, Goes, About, TypeOK
<1>24. ASSUME NEW p \in Proc, PrepareRecords(p) PROVE (\A q \in Proc : About(q))'
    BY <1>24 DEF PrepareRecords, Ends, Goes, About, TypeOK
<1>25. ASSUME NEW p \in Proc, Attempt(p) PROVE (\A q \in Proc : About(q))'
    BY <1>25 DEF Attempt, Goes, About, TypeOK
<1>26. ASSUME NEW p \in Proc, ClaimLost(p) PROVE (\A q \in Proc : About(q))'
    BY <1>26 DEF ClaimLost, Ends, Goes, About, TypeOK
<1> QED
    BY <1>1, <1>2, <1>3, <1>4, <1>5, <1>6, <1>7, <1>8, <1>9, <1>10, <1>11, <1>12, <1>13, <1>14, <1>15, <1>16, <1>17, <1>18, <1>19, <1>20, <1>21, <1>22,
       <1>23, <1>24, <1>25, <1>26 DEF Next, BookingStep

(* While nothing disturbs it, one booking at a time holds the claim. *)
LEMMA OneClaimStep ==
  ASSUME IInv, TypeOK', [Next]_vars
  PROVE  OneClaim'
<1> USE ConstantsAssumption DEF IInv, row, courier, local
<1>1. ASSUME NEW p \in Proc, Claim(p) PROVE OneClaim'
    BY <1>1 DEF Claim, Goes, Claimable, About, OneClaim, InFlight, TypeOK
<1>2. ASSUME NEW p \in Proc, FailsBeforeClaim(p) PROVE OneClaim'
    BY <1>2 DEF FailsBeforeClaim, Throws, Goes, About, OneClaim, InFlight, TypeOK
<1>3. ASSUME NEW p \in Proc, CourierBooks(p) PROVE OneClaim'
    BY <1>3 DEF CourierBooks, Goes, About, OneClaim, InFlight, TypeOK
<1>4. ASSUME NEW p \in Proc, CourierRefuses(p) PROVE OneClaim'
    BY <1>4 DEF CourierRefuses, Throws, Goes, About, OneClaim, InFlight, TypeOK
<1>5. ASSUME NEW p \in Proc, AnswerLost(p) PROVE OneClaim'
    BY <1>5 DEF AnswerLost, Throws, Goes, About, OneClaim, InFlight, TypeOK
<1>6. ASSUME NEW p \in Proc, WriteBack(p) PROVE OneClaim'
    BY <1>6 DEF WriteBack, Ends, Goes, About, OneClaim, InFlight, TypeOK
<1>7. ASSUME NEW p \in Proc, WriteBackFails(p) PROVE OneClaim'
    BY <1>7 DEF WriteBackFails, Throws, Goes, About, OneClaim, InFlight, TypeOK
<1>8. ASSUME NEW p \in Proc, MarkFailed(p) PROVE OneClaim'
  <2>1. CASE disturbed \/ InFlight # {}
      BY <1>8, <2>1, Zenon DEF MarkFailed, OneClaim
  <2>2. CASE ~disturbed /\ InFlight = {}
    <3>1. \A q \in Proc : pc[q] \notin {"claimed", "booked"} /\ pc'[q] \notin {"claimed", "booked"}
        BY <1>8, <2>2 DEF MarkFailed, Ends, Goes, InFlight, TypeOK
    <3>2. InFlight' = {}
        BY <3>1 DEF InFlight
    <3> QED
        BY <1>8, <2>2, <3>1, <3>2 DEF MarkFailed, OneClaim, TypeOK
  <2> QED
      BY <2>1, <2>2
<1>9. ASSUME NEW p \in Proc, Crash(p) PROVE OneClaim'
  <2>1. CASE disturbed \/ pc[p] = "booked"
      BY <1>9, <2>1, Zenon DEF Crash, OneClaim
  <2>2. CASE ~disturbed /\ pc[p] # "booked"
      BY <1>9, <2>2 DEF Crash, Ends, Goes, OneClaim, InFlight, TypeOK
  <2> QED
      BY <2>1, <2>2
<1>10. CASE LeaseExpires
    BY <1>10 DEF LeaseExpires, About, OneClaim, InFlight, TypeOK
<1>11. ASSUME NEW b \in Parcel, NEW w \in Vocabulary, CourierSays(b, w) PROVE OneClaim'
    BY <1>11 DEF CourierSays, Says, About, OneClaim, InFlight, TypeOK
<1>12. ASSUME NEW p \in Proc, PollReads(p) PROVE OneClaim'
    BY <1>12 DEF PollReads, Goes, About, OneClaim, InFlight, TypeOK
<1>13. ASSUME NEW p \in Proc, PollAsks(p) PROVE OneClaim'
    BY <1>13 DEF PollAsks, Goes, About, OneClaim, InFlight, TypeOK
<1>14. ASSUME NEW p \in Proc, PollApplies(p) PROVE OneClaim'
    BY <1>14 DEF PollApplies, Ends, Goes, Decide, ApplyTransition, Terminal, Pollable, About, OneClaim, InFlight, TypeOK
<1>15. ASSUME NEW b \in Parcel, CacheDropped(b) PROVE OneClaim'
    BY <1>15 DEF CacheDropped, About, OneClaim, InFlight, TypeOK
<1>16. ASSUME NEW i \in DOMAIN said, NEW dated \in BOOLEAN, Webhook(i, dated) PROVE OneClaim'
  <2>1. said \in Seq([awb : Parcel, word : Word])
      BY DEF TypeOK
  <2>a. said[i] \in [awb : Parcel, word : Word]
      BY <2>1, SeqElement
  <2>2. said[i].awb \in Parcel
      BY <2>a
  <2>3. awb # 0 /\ UNCHANGED <<awb, stale, parcels, pc, disturbed>>
      BY <1>16, <2>2 DEF Webhook, Parcel
  <2> QED
      BY <2>3 DEF OneClaim, InFlight
<1>17. ASSUME NEW p \in Proc, CancelReads(p) PROVE OneClaim'
    BY <1>17 DEF CancelReads, Goes, About, OneClaim, InFlight, TypeOK
<1>18. ASSUME NEW p \in Proc, CourierCancels(p) PROVE OneClaim'
    BY <1>18 DEF CourierCancels, Goes, Says, About, OneClaim, InFlight, TypeOK
<1>19. ASSUME NEW p \in Proc, CancelFails(p) PROVE OneClaim'
    BY <1>19 DEF CancelFails, Ends, Goes, About, OneClaim, InFlight, TypeOK
<1>20. ASSUME NEW p \in Proc, CancelRecords(p) PROVE OneClaim'
    BY <1>20 DEF CancelRecords, Ends, Goes, About, OneClaim, InFlight, TypeOK
<1>21. CASE CancelOrder
    BY <1>21 DEF CancelOrder, About, OneClaim, InFlight, TypeOK
<1>22. CASE UNCHANGED vars
    BY <1>22 DEF vars, About, OneClaim, InFlight, TypeOK
<1>23. ASSUME NEW p \in Proc, PrepareReads(p) PROVE OneClaim'
    BY <1>23 DEF PrepareReads, Goes, About, OneClaim, InFlight, TypeOK
<1>24. ASSUME NEW p \in Proc, PrepareRecords(p) PROVE OneClaim'
    BY <1>24 DEF PrepareRecords, Ends, Goes, About, OneClaim, InFlight, TypeOK
<1>25. ASSUME NEW p \in Proc, Attempt(p) PROVE OneClaim'
    BY <1>25 DEF Attempt, Goes, About, OneClaim, InFlight, TypeOK
<1>26. ASSUME NEW p \in Proc, ClaimLost(p) PROVE OneClaim'
    BY <1>26 DEF ClaimLost, Ends, Goes, About, OneClaim, InFlight, TypeOK
<1> QED
    BY <1>1, <1>2, <1>3, <1>4, <1>5, <1>6, <1>7, <1>8, <1>9, <1>10, <1>11, <1>12, <1>13, <1>14, <1>15, <1>16, <1>17, <1>18, <1>19, <1>20, <1>21, <1>22,
       <1>23, <1>24, <1>25, <1>26 DEF Next, BookingStep

(* A transition tells what lies ahead of what has been told. *)
LEMMA TransitionStory ==
  ASSUME IInv, TypeOK', parcels <= 1, awb # 0, UNCHANGED awb,
         NEW w \in Word, NEW at, NEW last,
         Decide(status, w, at, last), ApplyTransition(status, w)
  PROVE  \A v \in Word : /\ told'[v] <= 1
                         /\ told'[v] = 1 => /\ awb' # 0
                                            /\ \/ status' \in Terminal
                                               \/ v \notin Interruption /\ Rank(v) <= Rank(status')
<1> SUFFICES ASSUME NEW v \in Word
             PROVE  /\ told'[v] <= 1
                    /\ told'[v] = 1 => \/ status' \in Terminal
                                       \/ v \notin Interruption /\ Rank(v) <= Rank(status')
    OBVIOUS
<1>1. /\ told[v] <= 1 /\ told[v] \in Nat /\ told[w] <= 1 /\ told[w] \in Nat
      /\ told[v] = 1 => status \in Terminal \/ (v \notin Interruption /\ Rank(v) <= Rank(status))
      /\ told[w] = 1 => status \in Terminal \/ (w \notin Interruption /\ Rank(w) <= Rank(status))
    BY DEF IInv, OneStory, TypeOK
<1>2. /\ status \notin Terminal
      /\ w \in Interruption \/ Rank(w) > Rank(status)
    BY DEF Decide
<1>3. /\ status' = w
      /\ \A x \in Word : told'[x] = told[x] + (IF x = w /\ Notifies(w) THEN 1 ELSE 0)
    BY DEF ApplyTransition, IInv, TypeOK
<1>4. Rank(status) \in Int /\ Rank(w) \in Int /\ Rank(v) \in Int
    BY RankIsInt, Words DEF IInv, TypeOK
<1>5. told[w] = 0
    BY <1>1, <1>2, <1>4
<1>6. CASE v = w
    BY <1>2, <1>3, <1>4, <1>5, <1>6, Words
<1>7. CASE v # w
    BY <1>1, <1>2, <1>3, <1>4, <1>7, Words
<1> QED
    BY <1>6, <1>7

(* What has been told lies behind the status. *)
LEMMA OneStoryStep ==
  ASSUME IInv, TypeOK', [Next]_vars
  PROVE  OneStory'
<1> USE ConstantsAssumption DEF IInv, row, courier, local
<1>1. ASSUME NEW p \in Proc, Claim(p) PROVE OneStory'
    BY <1>1 DEF Claim, Goes, Claimable, About, OneStory, TypeOK
<1>2. ASSUME NEW p \in Proc, FailsBeforeClaim(p) PROVE OneStory'
    BY <1>2 DEF FailsBeforeClaim, Throws, Goes, About, OneStory, TypeOK
<1>3. ASSUME NEW p \in Proc, CourierBooks(p) PROVE OneStory'
    BY <1>3 DEF CourierBooks, Goes, About, OneStory, TypeOK
<1>4. ASSUME NEW p \in Proc, CourierRefuses(p) PROVE OneStory'
    BY <1>4 DEF CourierRefuses, Throws, Goes, About, OneStory, TypeOK
<1>5. ASSUME NEW p \in Proc, AnswerLost(p) PROVE OneStory'
    BY <1>5 DEF AnswerLost, Throws, Goes, About, OneStory, TypeOK
<1>6. ASSUME NEW p \in Proc, WriteBack(p) PROVE OneStory'
    BY <1>6 DEF WriteBack, Ends, Goes, About, OneStory, TypeOK
<1>7. ASSUME NEW p \in Proc, WriteBackFails(p) PROVE OneStory'
    BY <1>7 DEF WriteBackFails, Throws, Goes, About, OneStory, TypeOK
<1>8. ASSUME NEW p \in Proc, MarkFailed(p) PROVE OneStory'
    BY <1>8 DEF MarkFailed, Ends, Goes, About, OneStory, TypeOK
<1>9. ASSUME NEW p \in Proc, Crash(p) PROVE OneStory'
    BY <1>9 DEF Crash, Ends, Goes, About, OneStory, TypeOK
<1>10. CASE LeaseExpires
    BY <1>10 DEF LeaseExpires, About, OneStory, TypeOK
<1>11. ASSUME NEW b \in Parcel, NEW w \in Vocabulary, CourierSays(b, w) PROVE OneStory'
    BY <1>11 DEF CourierSays, Says, About, OneStory, TypeOK
<1>12. ASSUME NEW p \in Proc, PollReads(p) PROVE OneStory'
    BY <1>12 DEF PollReads, Goes, About, OneStory, TypeOK
<1>13. ASSUME NEW p \in Proc, PollAsks(p) PROVE OneStory'
    BY <1>13 DEF PollAsks, Goes, About, OneStory, TypeOK
<1>14. ASSUME NEW p \in Proc, PollApplies(p) PROVE OneStory'
  <2>1. answer[p] \in Word /\ awb # 0 /\ UNCHANGED <<awb, parcels>>
      BY <1>14 DEF PollApplies, About, TypeOK
  <2>2. /\ \A q \in Proc : pc'[q] = "booked" => pc[q] = "booked"
        /\ UNCHANGED <<awb, parcels>>
      BY <1>14 DEF PollApplies, Ends, Goes, TypeOK
  <2>3. CASE UNCHANGED <<status, told>>
      BY <2>2, <2>3 DEF OneStory
  <2>4. CASE Decide(seen[p], answer[p], 0, 0) /\ status = seen[p] /\ ApplyTransition(status, answer[p])
      BY <2>1, <2>2, <2>4, TransitionStory DEF OneStory
  <2> QED
      BY <1>14, <2>3, <2>4 DEF PollApplies, ApplyTransition
<1>15. ASSUME NEW b \in Parcel, CacheDropped(b) PROVE OneStory'
    BY <1>15 DEF CacheDropped, About, OneStory, TypeOK
<1>16. ASSUME NEW i \in DOMAIN said, NEW dated \in BOOLEAN, Webhook(i, dated) PROVE OneStory'
  <2>1. said \in Seq([awb : Parcel, word : Word])
      BY DEF TypeOK
  <2>a. said[i] \in [awb : Parcel, word : Word]
      BY <2>1, SeqElement
  <2>2. said[i].awb \in Parcel /\ said[i].word \in Word
      BY <2>a
  <2>3. awb # 0 /\ UNCHANGED <<awb, parcels, pc>>
      BY <1>16, <2>2 DEF Webhook, Parcel
  <2>4. Decide(status, said[i].word, IF dated THEN i ELSE 0, applied) /\ ApplyTransition(status, said[i].word)
      BY <1>16 DEF Webhook
  <2> QED
      BY <2>2, <2>3, <2>4, TransitionStory DEF OneStory
<1>17. ASSUME NEW p \in Proc, CancelReads(p) PROVE OneStory'
    BY <1>17 DEF CancelReads, Goes, About, OneStory, TypeOK
<1>18. ASSUME NEW p \in Proc, CourierCancels(p) PROVE OneStory'
    BY <1>18 DEF CourierCancels, Goes, Says, About, OneStory, TypeOK
<1>19. ASSUME NEW p \in Proc, CancelFails(p) PROVE OneStory'
    BY <1>19 DEF CancelFails, Ends, Goes, About, OneStory, TypeOK
<1>20. ASSUME NEW p \in Proc, CancelRecords(p) PROVE OneStory'
    BY <1>20 DEF CancelRecords, Ends, Goes, Terminal, Interruption, About, OneStory, TypeOK
<1>21. CASE CancelOrder
    BY <1>21 DEF CancelOrder, About, OneStory, TypeOK
<1>22. CASE UNCHANGED vars
    BY <1>22 DEF vars, About, OneStory, TypeOK
<1>23. ASSUME NEW p \in Proc, PrepareReads(p) PROVE OneStory'
    BY <1>23 DEF PrepareReads, Goes, About, OneStory, TypeOK
<1>24. ASSUME NEW p \in Proc, PrepareRecords(p) PROVE OneStory'
    BY <1>24 DEF PrepareRecords, Ends, Goes, About, OneStory, TypeOK
<1>25. ASSUME NEW p \in Proc, Attempt(p) PROVE OneStory'
    BY <1>25 DEF Attempt, Goes, About, OneStory, TypeOK
<1>26. ASSUME NEW p \in Proc, ClaimLost(p) PROVE OneStory'
    BY <1>26 DEF ClaimLost, Ends, Goes, About, OneStory, TypeOK
<1> QED
    BY <1>1, <1>2, <1>3, <1>4, <1>5, <1>6, <1>7, <1>8, <1>9, <1>10, <1>11, <1>12, <1>13, <1>14, <1>15, <1>16, <1>17, <1>18, <1>19, <1>20, <1>21, <1>22,
       <1>23, <1>24, <1>25, <1>26 DEF Next, BookingStep

(* The inductive invariant holds throughout. *)
LEMMA Invariant == Spec => []IInv
<1>1. IInv /\ [Next]_vars => IInv'
    BY TypeStep, AboutStep, OneClaimStep, OneStoryStep DEF IInv
<1> QED
    BY InitIInv, <1>1, PTL DEF Spec

(* The state is well typed. *)
THEOREM ShipmentTypes == Spec => []TypeOK
  BY Invariant, PTL DEF IInv

(* The claim of createForOrder: a second airwaybill is never issued unless a lease  *)
(* ran out on a live booking, another caller marked it FAILED or the row was never  *)
(* told of the first.                                                             *)
THEOREM UndisturbedBooksOnce == Spec => []BookedOnceUndisturbed
<1>1. IInv => BookedOnceUndisturbed
    BY DEF IInv, OneClaim, BookedOnceUndisturbed
<1> QED
    BY Invariant, <1>1, PTL

(* applyTransitionInTx tells the customer each status of a parcel at most once.    *)
THEOREM EachStatusToldOnce == Spec => []ToldOnce
<1>1. IInv => ToldOnce
    BY DEF IInv, OneStory, ToldOnce
<1> QED
    BY Invariant, <1>1, PTL

(* decideShipmentTransition and its compare-and-swap: no courier report, polled or  *)
(* pushed, moves a booked shipment backwards or out of a terminal status, nor a     *)
(* dated one behind a newer dated one, as long as no late slot erases its time.    *)
THEOREM ReportsMoveForward == Spec => ForwardOnly
<1> DEFINE Forward ==
        /\ awb # 0 /\ status' # status
             => /\ status \notin Terminal
                /\ status' \in Interruption \/ Rank(status') > Rank(status)
        /\ applied' >= applied \/ \E p \in Proc : PrepareRecords(p)
           Rewrites == \E p \in Proc : WriteBack(p) \/ CancelRecords(p)
<1>1. ASSUME IInv, [Next]_vars PROVE Rewrites \/ Forward
  <2>0. applied \in 0 .. MaxSaid /\ applied >= applied
      BY <1>1, ConstantsAssumption DEF IInv, TypeOK
  <2>1. ASSUME UNCHANGED <<status, applied>> PROVE Forward
      BY <2>0, <2>1
  <2>2. ASSUME NEW p \in Proc, Claim(p) PROVE Forward
      BY <2>0, <2>2 DEF Claim, Claimable
  <2>3. ASSUME NEW p \in Proc, MarkFailed(p) PROVE Forward
      BY <2>0, <2>3 DEF MarkFailed
  <2>4. ASSUME NEW p \in Proc, PollApplies(p) PROVE Forward
      BY <2>0, <2>4 DEF PollApplies, Decide, ApplyTransition
  <2>5. ASSUME NEW i \in DOMAIN said, NEW dated \in BOOLEAN, Webhook(i, dated) PROVE Forward
    <3>1. said \in Seq([awb : Parcel, word : Word])
        BY <1>1 DEF IInv, TypeOK
    <3>2. i \in 1 .. Len(said)
        BY <3>1, SeqElement
    <3>3. /\ Decide(status, said[i].word, IF dated THEN i ELSE 0, applied)
          /\ ApplyTransition(status, said[i].word)
          /\ applied' = IF dated THEN i ELSE applied
        BY <2>5 DEF Webhook
    <3>4. applied' >= applied
        BY <2>0, <3>2, <3>3 DEF Decide
    <3> QED
        BY <3>3, <3>4 DEF Decide, ApplyTransition
  <2>6. ASSUME NEW p \in Proc,
               \/ FailsBeforeClaim(p) \/ CourierBooks(p) \/ CourierRefuses(p) \/ AnswerLost(p)
               \/ WriteBackFails(p) \/ Crash(p) \/ PollReads(p) \/ PollAsks(p)
               \/ CancelReads(p) \/ CourierCancels(p) \/ CancelFails(p) \/ PrepareReads(p)
               \/ Attempt(p) \/ ClaimLost(p)
        PROVE  Forward
    <3>1. UNCHANGED <<status, applied>>
        BY <2>6 DEF row, FailsBeforeClaim, CourierBooks, CourierRefuses, AnswerLost, WriteBackFails,
                    Crash, PollReads, PollAsks, CancelReads, CourierCancels, CancelFails,
                    PrepareReads, Attempt, ClaimLost
    <3> QED
        BY <2>1, <3>1
  <2>7. ASSUME NEW b \in Parcel, CacheDropped(b) \/ \E w \in Vocabulary : CourierSays(b, w) PROVE Forward
    <3>1. UNCHANGED <<status, applied>>
        BY <2>7 DEF row, CacheDropped, CourierSays
    <3> QED
        BY <2>1, <3>1
  <2>8. CASE LeaseExpires \/ CancelOrder \/ UNCHANGED vars
    <3>1. UNCHANGED <<status, applied>>
        BY <2>8 DEF row, vars, LeaseExpires, CancelOrder
    <3> QED
        BY <2>1, <3>1
  <2>9. ASSUME NEW p \in Proc, PrepareRecords(p) PROVE Forward
      BY <2>9 DEF PrepareRecords
  <2> HIDE DEF Forward
  <2> QED
      BY <1>1, <2>2, <2>3, <2>4, <2>5, <2>6, <2>7, <2>8, <2>9 DEF Next, BookingStep
<1>2. ASSUME IInv, [Next]_vars
      PROVE  [\/ \E p \in Proc : WriteBack(p) \/ CancelRecords(p)
              \/ /\ awb # 0 /\ status' # status
                    => /\ status \notin Terminal
                       /\ status' \in Interruption \/ Rank(status') > Rank(status)
                 /\ applied' >= applied \/ \E p \in Proc : PrepareRecords(p)]_vars
    BY <1>1, <1>2
<1> QED
    BY Invariant, <1>2, PTL DEF Spec, ForwardOnly

=============================================================================
