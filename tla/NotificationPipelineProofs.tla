--------------------- MODULE NotificationPipelineProofs ---------------------
(***************************************************************************)
(* No event is lost, its notification is written once and decided as       *)
(* NotifyOnce says, and an undisturbed one is sent once, for any number of   *)
(* events, copies, handlers and senders.                                    *)
(***************************************************************************)
EXTENDS NotificationPipeline, TLAPS

(* The steps that leave the outbox's senders alone, and those that leave the *)
(* consumer alone.                                                          *)
ConsumerAction ==
    \/ \E m \in Msg, c \in Copy : \/ PublishedAgain(m, c)
                                  \/ RetryExpires(m, c)
                                  \/ RedriveDlq(m, c)
                                  \/ \E h \in Handler : Deliver(h, m, c)
    \/ \E h \in Handler : HandlerStep(h)
    \/ Resume
    \/ Start
    \/ ChannelCloses
    \/ ProcessDies

SenderAction ==
    \/ \E m \in Msg : \/ \E w \in Sender : Claim(w, m)
                      \/ LeaseExpires(m)
                      \/ BecomesDue(m)
                      \/ Resend(m)
    \/ \E w \in Sender : SenderStep(w) \/ SenderDies(w)

LEMMA TwoSides == Next => ConsumerAction \/ SenderAction
  BY Zenon DEF Next, ConsumerAction, SenderAction

LEMMA SenderFrame == SenderAction => UNCHANGED <<consumer, processed, written>>
<1> SUFFICES ASSUME SenderAction PROVE UNCHANGED <<consumer, processed, written>>
    OBVIOUS
<1>1. ASSUME NEW w \in Sender, SenderStep(w) PROVE UNCHANGED <<consumer, processed, written>>
    BY <1>1 DEF SenderStep, ProviderTakes, ProviderRefuses, ProviderFails, MarkSent, MarkSentFails, MarkFailed, ScheduleRetry
<1> QED
    BY <1>1 DEF SenderAction, Claim, LeaseExpires, BecomesDue, Resend, SenderDies

(* The consumer's only way to the outbox is to enqueue. *)
LEMMA ConsumerFrame ==
  ASSUME Deliveries, ConsumerAction
  PROVE  /\ UNCHANGED <<senders, customer>>
         /\ UNCHANGED <<processed, written, outbox>> \/ \E m \in Msg : Enqueue(m)
<1> DEFINE Frame == /\ UNCHANGED <<senders, customer>>
                    /\ UNCHANGED <<processed, written, outbox>> \/ \E m \in Msg : Enqueue(m)
<1>1. ASSUME NEW h \in Handler, Write(h) \/ InfraFails(h) PROVE Frame
  <2>1. doing[h] # "idle" /\ event[h] \in Msg
      BY <1>1 DEF Write, InfraFails, Deliveries
  <2>2. UNCHANGED <<senders, customer>> /\ (UNCHANGED <<processed, written, outbox>> \/ Enqueue(event[h]))
      BY <1>1 DEF Write, InfraFails
  <2> QED
      BY <2>1, <2>2
<1>2. ASSUME NEW h \in Handler, HandlerStep(h), ~Write(h), ~InfraFails(h) PROVE Frame
    BY <1>2 DEF HandlerStep, Look, Ack, ProcessFails, Nack, Bury, Buried, BuryFails, GhostFails
<1>3. ASSUME \E m \in Msg, c \in Copy : \/ PublishedAgain(m, c)
                                          \/ RetryExpires(m, c)
                                          \/ RedriveDlq(m, c)
                                          \/ \E h \in Handler : Deliver(h, m, c)
      PROVE  Frame
    BY <1>3 DEF PublishedAgain, RetryExpires, RedriveDlq, Deliver
<1>4. ASSUME Resume \/ Start \/ ChannelCloses \/ ProcessDies PROVE Frame
    BY <1>4 DEF Resume, Start, ChannelCloses, ProcessDies
<1> HIDE DEF Frame
<1>5. Frame
  <2>1. ASSUME NEW h \in Handler, HandlerStep(h) PROVE Frame
    <3>1. CASE Write(h) \/ InfraFails(h)
        BY <3>1, <1>1
    <3>2. CASE ~Write(h) /\ ~InfraFails(h)
        BY <2>1, <3>2, <1>2
    <3> QED
        BY <3>1, <3>2
  <2> QED
      BY <1>3, <1>4, <2>1, Zenon DEF ConsumerAction
<1> QED
    BY <1>5 DEF Frame

(* What a fenced write-back does, for the sender that owns the row it holds. *)
LEMMA FencedFate ==
  ASSUME Claims, NEW w \in Sender, row[w] \in Msg, pc[w] # "idle",
         NEW status \in {"PENDING", "SENT", "FAILED"}, NEW count, NEW next,
         FencedWriteBack(w, status, count, next), TypeOK
  PROVE  \/ UNCHANGED outbox
         \/ fate[row[w]] = "PENDING" /\ fate' = [fate EXCEPT ![row[w]] = status]
  BY ConstantsAssumption DEF FencedWriteBack, Owns, Claims

(* A sender moves the fate of one row, as NotifyOnce has it. *)
LEMMA SenderFate ==
  ASSUME TypeOK, Claims, SenderAction
  PROVE  \/ fate' = fate
         \/ \E m \in Msg : Once!Decide(m) \/ Once!Resend(m)
<1> DEFINE Goal == fate' = fate \/ \E m \in Msg : Once!Decide(m) \/ Once!Resend(m)
<1>0. UNCHANGED written
    BY SenderFrame
<1>1. ASSUME NEW w \in Sender, NEW status \in {"PENDING", "SENT", "FAILED"}, NEW count, NEW next,
             pc[w] # "idle", FencedWriteBack(w, status, count, next)
      PROVE  Goal
  <2>1. row[w] \in Msg
      BY <1>1 DEF Claims
  <2>2. UNCHANGED outbox \/ (fate[row[w]] = "PENDING" /\ fate' = [fate EXCEPT ![row[w]] = status])
      BY <1>1, <2>1, FencedFate
  <2>3. CASE UNCHANGED outbox
      BY <2>3 DEF outbox
  <2>4. CASE fate[row[w]] = "PENDING" /\ fate' = [fate EXCEPT ![row[w]] = status]
    <3>1. CASE status = "PENDING"
        BY <2>1, <2>4, <3>1 DEF TypeOK
    <3>2. CASE status # "PENDING"
        BY <2>1, <2>4, <3>2, <1>0 DEF Once!Decide, Once!Becomes
    <3> QED
        BY <3>1, <3>2
  <2> QED
      BY <2>2, <2>3, <2>4
<1>2. ASSUME NEW m \in Msg, Resend(m) PROVE Goal
    BY <1>2, <1>0 DEF Resend, Once!Resend, Once!Becomes
<1>3. ASSUME NEW w \in Sender, MarkSent(w) \/ MarkFailed(w) \/ ScheduleRetry(w) PROVE Goal
    BY <1>3, <1>1, ZenonT(30) DEF MarkSent, MarkFailed, ScheduleRetry
<1>4. ASSUME NEW w \in Sender,
             ProviderTakes(w) \/ ProviderRefuses(w) \/ ProviderFails(w) \/ MarkSentFails(w) \/ SenderDies(w)
      PROVE  Goal
    BY <1>4 DEF ProviderTakes, ProviderRefuses, ProviderFails, MarkSentFails, SenderDies, outbox
<1>5. ASSUME NEW m \in Msg, LeaseExpires(m) \/ BecomesDue(m) \/ \E w \in Sender : Claim(w, m) PROVE Goal
    BY <1>5 DEF LeaseExpires, BecomesDue, Claim
<1> HIDE DEF Goal
<1>6. Goal
    BY <1>2, <1>3, <1>4, <1>5 DEF SenderAction, SenderStep
<1> QED
    BY <1>6 DEF Goal

LEMMA InitIInv == Init => IInv
<1> SUFFICES ASSUME Init PROVE IInv
    OBVIOUS
<1>0. consuming \in BOOLEAN /\ paused \in BOOLEAN
    BY Zenon DEF Init
<1>1. place \in [Msg -> [Copy -> {"none", "main"}]] /\ \A m \in Msg : \E c \in Copy : place[m][c] = "main"
    BY DEF Init
<1>2. TypeOK
    BY <1>0, <1>1, ConstantsAssumption DEF Init, TypeOK
<1>3. Ledger /\ Claims /\ Deliveries
    BY ConstantsAssumption DEF Init, Ledger, Claims, Deliveries, Holds
<1>4. Kept
  <2> SUFFICES ASSUME NEW m \in Msg PROVE \E c \in Copy : place[m][c] # "none" /\ \A h \in Handler : ~Burying(h, m, c)
      BY DEF Kept
  <2>1. PICK c \in Copy : place[m][c] = "main"
      BY <1>1
  <2> QED
      BY <2>1 DEF Init, Burying
<1>5. Recorded
    BY DEF Init, Recorded, AtWork
<1> QED
    BY <1>2, <1>3, <1>4, <1>5 DEF IInv

LEMMA MovesTypes ==
  ASSUME TypeOK, NEW m \in Msg, NEW c \in Copy,
         NEW to \in {"none", "main", "held", "retry", "dlq"}, NEW count \in 0 .. MaxDeaths + 1, Moves(m, c, to, count),
         to = "retry" => count <= MaxDeaths
  PROVE  /\ place' \in [Msg -> [Copy -> {"none", "main", "held", "retry", "dlq"}]]
         /\ deaths' \in [Msg -> [Copy -> 0 .. MaxDeaths + 1]]
         /\ \A a \in Msg, b \in Copy : place'[a][b] = "retry" => deaths'[a][b] <= MaxDeaths
<1>1. [place[m] EXCEPT ![c] = to] \in [Copy -> {"none", "main", "held", "retry", "dlq"}]
    BY DEF TypeOK
<1>2. [deaths[m] EXCEPT ![c] = count] \in [Copy -> 0 .. MaxDeaths + 1]
    BY DEF TypeOK
<1>3. /\ place' = [place EXCEPT ![m] = [place[m] EXCEPT ![c] = to]]
      /\ deaths' = [deaths EXCEPT ![m] = [deaths[m] EXCEPT ![c] = count]]
    BY DEF Moves, TypeOK
<1>4. ASSUME NEW a \in Msg, NEW b \in Copy, place'[a][b] = "retry" PROVE deaths'[a][b] <= MaxDeaths
    BY <1>3, <1>4 DEF TypeOK
<1> QED
    BY <1>1, <1>2, <1>3, <1>4 DEF TypeOK

(* The broker, its channel and the handlers stay well typed. *)
BrokerTypes ==
    /\ place \in [Msg -> [Copy -> {"none", "main", "held", "retry", "dlq"}]]
    /\ deaths \in [Msg -> [Copy -> 0 .. MaxDeaths + 1]]
    /\ \A m \in Msg, c \in Copy : place[m][c] = "retry" => deaths[m][c] <= MaxDeaths
    /\ consuming \in BOOLEAN
    /\ paused \in BOOLEAN
    /\ timer \in {"none", "resume", "reinit"}
    /\ doing \in [Handler -> {"idle", "looking", "writing", "done", "failed", "buried"}]
    /\ event \in [Handler -> Msg \cup {Nobody}]
    /\ copy \in [Handler -> Copy \cup {Nobody}]

LEMMA ConsumerTypes ==
  ASSUME TypeOK, Deliveries, ConsumerAction
  PROVE  BrokerTypes'
<1> DEFINE AllZero == [m \in Msg |-> [c \in Copy |-> 0]]
<1>0. /\ 0 \in 0 .. MaxDeaths + 1
      /\ \A n \in 0 .. MaxDeaths + 1 : n <= MaxDeaths => n + 1 \in 0 .. MaxDeaths + 1
      /\ \A n \in 0 .. MaxDeaths + 1 : n < MaxDeaths => n + 1 \in 0 .. MaxDeaths + 1 /\ n + 1 <= MaxDeaths
      /\ \A m \in Msg, c \in Copy : place[m][c] = "retry" => deaths[m][c] <= MaxDeaths
      /\ \A m \in Msg, c \in Copy : deaths[m][c] \in 0 .. MaxDeaths + 1
    BY ConstantsAssumption DEF TypeOK
<1>1. ASSUME NEW m \in Msg, NEW c \in Copy,
             PublishedAgain(m, c) \/ RetryExpires(m, c) \/ RedriveDlq(m, c)
      PROVE  BrokerTypes'
  <2>1. PICK count \in 0 .. MaxDeaths + 1 : Moves(m, c, "main", count)
      BY <1>0, <1>1 DEF PublishedAgain, RetryExpires, RedriveDlq
  <2>2. UNCHANGED <<channel, handlers>>
      BY <1>1 DEF PublishedAgain, RetryExpires, RedriveDlq
  <2> QED
      BY <2>1, <2>2, MovesTypes DEF TypeOK, BrokerTypes, channel, handlers
<1>2. ASSUME NEW m \in Msg, NEW c \in Copy, NEW h \in Handler, Deliver(h, m, c) PROVE BrokerTypes'
  <2>1. PICK count \in 0 .. MaxDeaths + 1 : Moves(m, c, "held", count)
      BY <1>0, <1>2 DEF Deliver
  <2>2. UNCHANGED channel /\ handlers' = <<[doing EXCEPT ![h] = "looking"], [event EXCEPT ![h] = m], [copy EXCEPT ![h] = c]>>
      BY <1>2 DEF Deliver, handlers
  <2> QED
      BY <2>1, <2>2, MovesTypes DEF TypeOK, BrokerTypes, channel, handlers
<1>3. ASSUME NEW h \in Handler, Look(h) \/ Write(h) \/ ProcessFails(h) PROVE BrokerTypes'
    BY <1>3 DEF Look, Write, ProcessFails, Now, TypeOK, BrokerTypes, broker, channel
<1>4. ASSUME NEW h \in Handler, NEW to \in {"none", "main", "retry"}, NEW count \in 0 .. MaxDeaths + 1,
             to = "retry" => count <= MaxDeaths,
             doing[h] # "idle", Holds(h) => Moves(event[h], copy[h], to, count), ~Holds(h) => UNCHANGED broker,
             Ends(h), consuming' \in BOOLEAN, paused' \in BOOLEAN, timer' \in {"none", "resume", "reinit"}
      PROVE  BrokerTypes'
  <2>1. event[h] \in Msg /\ (Holds(h) => copy[h] \in Copy)
      BY <1>4 DEF Deliveries, Holds, TypeOK
  <2>2. /\ place' \in [Msg -> [Copy -> {"none", "main", "held", "retry", "dlq"}]]
        /\ deaths' \in [Msg -> [Copy -> 0 .. MaxDeaths + 1]]
        /\ \A a \in Msg, b \in Copy : place'[a][b] = "retry" => deaths'[a][b] <= MaxDeaths
      BY <1>4, <2>1, MovesTypes DEF TypeOK, broker
  <2> QED
      BY <1>4, <2>2 DEF Ends, TypeOK, BrokerTypes
<1>5. ASSUME NEW h \in Handler, Ack(h) \/ Buried(h) PROVE BrokerTypes'
  <2>1. consuming' \in BOOLEAN /\ paused' \in BOOLEAN /\ timer' \in {"none", "resume", "reinit"}
      BY <1>5 DEF Ack, Buried, channel, TypeOK
  <2> QED
      BY <1>0, <1>4, <1>5, <2>1 DEF Ack, Buried
<1>6. ASSUME NEW h \in Handler, InfraFails(h) PROVE BrokerTypes'
  <2>1. consuming' \in BOOLEAN /\ timer' \in {"none", "resume", "reinit"}
      BY <1>6 DEF InfraFails, channel, TypeOK
  <2>2. paused' \in BOOLEAN
      BY <1>6, Zenon DEF InfraFails, channel, TypeOK
  <2>3. doing[h] # "idle" /\ event[h] \in Msg /\ (Holds(h) => copy[h] \in Copy)
      BY <1>6 DEF InfraFails, Deliveries, Holds, TypeOK
  <2>4. CASE Holds(h)
    <3>1. deaths[event[h]][copy[h]] \in 0 .. MaxDeaths + 1
        BY <1>0, <2>3, <2>4
    <3> QED
        BY <1>4, <1>6, <2>1, <2>2, <2>3, <2>4, <3>1 DEF InfraFails
  <2>5. CASE ~Holds(h)
      BY <1>0, <1>4, <1>6, <2>1, <2>2, <2>3, <2>5 DEF InfraFails
  <2> QED
      BY <2>4, <2>5
<1>7. ASSUME NEW h \in Handler, Nack(h) PROVE BrokerTypes'
  <2>1. consuming' \in BOOLEAN /\ paused' \in BOOLEAN /\ timer' \in {"none", "resume", "reinit"}
      BY <1>7 DEF Nack, channel, TypeOK
  <2>2. doing[h] # "idle" /\ event[h] \in Msg /\ copy[h] \in Copy
      BY <1>7 DEF Nack, Deliveries, Holds, TypeOK
  <2>3. deaths[event[h]][copy[h]] + 1 \in 0 .. MaxDeaths + 1 /\ deaths[event[h]][copy[h]] + 1 <= MaxDeaths
      BY <1>0, <1>7, <2>2 DEF Nack
  <2> QED
      BY <1>4, <1>7, <2>1, <2>2, <2>3 DEF Nack
<1>8. ASSUME NEW h \in Handler, NEW c \in Copy, Bury(h, c) PROVE BrokerTypes'
  <2>1. event[h] \in Msg /\ copy[h] \in Copy
      BY <1>8 DEF Bury, Deliveries, Holds, TypeOK
  <2>2. /\ place' \in [Msg -> [Copy -> {"none", "main", "held", "retry", "dlq"}]]
        /\ deaths' \in [Msg -> [Copy -> 0 .. MaxDeaths + 1]]
        /\ \A a \in Msg, b \in Copy : place'[a][b] = "retry" => deaths'[a][b] <= MaxDeaths
      BY <1>0, <1>8, <2>1, MovesTypes DEF Bury
  <2> QED
      BY <1>8, <2>2 DEF Bury, Now, channel, TypeOK, BrokerTypes
<1>9. ASSUME NEW h \in Handler, BuryFails(h) \/ GhostFails(h) PROVE BrokerTypes'
    BY <1>9 DEF BuryFails, GhostFails, Ends, broker, channel, TypeOK, BrokerTypes
<1>10. ASSUME Resume \/ Start \/ ChannelCloses \/ ProcessDies PROVE BrokerTypes'
  <2>1. paused' \in BOOLEAN
      BY <1>10, Zenon DEF Resume, Start, ChannelCloses, ProcessDies, TypeOK
  <2>2. place' \in [Msg -> [Copy -> {"none", "main", "held", "retry", "dlq"}]] /\ deaths' = deaths
      BY <1>10 DEF Resume, Start, ChannelCloses, ProcessDies, TakenBack, broker, TypeOK
  <2>3. \A m \in Msg, c \in Copy : place'[m][c] = "retry" => place[m][c] = "retry"
      BY <1>10 DEF Resume, Start, ChannelCloses, ProcessDies, TakenBack, broker, TypeOK
  <2>4. \A m \in Msg, c \in Copy : place'[m][c] = "retry" => deaths'[m][c] <= MaxDeaths
      BY <1>0, <2>2, <2>3
  <2> QED
      BY <1>10, <2>1, <2>2, <2>4 DEF Resume, Start, ChannelCloses, ProcessDies, handlers, TypeOK, BrokerTypes
<1> QED
    BY <1>1, <1>2, <1>3, <1>5, <1>6, <1>7, <1>8, <1>9, <1>10 DEF ConsumerAction, HandlerStep

LEMMA EnqueueTypes ==
  ASSUME TypeOK, NEW m \in Msg, Enqueue(m)
  PROVE  /\ processed' \in SUBSET Msg
         /\ written' \in [Msg -> Nat]
         /\ fate' \in [Msg -> {"none", "PENDING", "SENT", "FAILED"}]
         /\ attempts' \in [Msg -> 0 .. MaxAttempts]
         /\ due' \in SUBSET Msg
         /\ owner' \in [Msg -> Sender \cup {Nobody}]
         /\ leased' \in SUBSET Msg
<1> DEFINE n == written[m] + 1
<1>1. n \in Nat
    BY DEF TypeOK
<1>2. CASE m \in processed
    BY <1>2 DEF TypeOK, Enqueue, outbox
<1>3. CASE m \notin processed
  <2>1. /\ processed' = processed \cup {m}
        /\ due' = due \cup {m}
        /\ written' = [written EXCEPT ![m] = n]
        /\ fate' = [fate EXCEPT ![m] = "PENDING"]
        /\ UNCHANGED <<attempts, owner, leased>>
      BY <1>3 DEF Enqueue
  <2> HIDE DEF n
  <2>2. written' \in [Msg -> Nat]
      BY <1>1, <2>1 DEF TypeOK
  <2>3. processed' \in SUBSET Msg /\ due' \in SUBSET Msg
      BY <2>1 DEF TypeOK
  <2> QED
      BY <2>1, <2>2, <2>3 DEF TypeOK
<1> QED
    BY <1>2, <1>3

LEMMA Updated ==
  ASSUME NEW D, NEW R, NEW f \in [D -> R], NEW d \in D, NEW r \in R
  PROVE  [f EXCEPT ![d] = r] \in [D -> R]
  OBVIOUS

(* The rows, the senders and the provider stay well typed. *)
OutboxTypes ==
    /\ fate \in [Msg -> {"none", "PENDING", "SENT", "FAILED"}]
    /\ attempts \in [Msg -> 0 .. MaxAttempts]
    /\ due \in SUBSET Msg
    /\ owner \in [Msg -> Sender \cup {Nobody}]
    /\ leased \in SUBSET Msg

SenderTypes ==
    /\ pc \in [Sender -> {"idle", "sending", "taken", "refused", "failed"}]
    /\ row \in [Sender -> Msg \cup {Nobody}]
    /\ tries \in [Sender -> 0 .. MaxAttempts]
    /\ sends \in [Msg -> 0 .. MaxSends]
    /\ slipped \in SUBSET Msg

LEMMA FencedTypes ==
  ASSUME TypeOK, NEW w \in Sender, row[w] \in Msg,
         NEW status \in {"PENDING", "SENT", "FAILED"}, NEW count \in 0 .. MaxAttempts, NEW next \in SUBSET Msg,
         FencedWriteBack(w, status, count, next)
  PROVE  OutboxTypes'
<1>1. CASE Owns(w)
  <2>1. due' \in SUBSET Msg /\ leased' \in SUBSET Msg
      BY <1>1 DEF TypeOK, FencedWriteBack
  <2>2. fate' \in [Msg -> {"none", "PENDING", "SENT", "FAILED"}]
      BY <1>1 DEF TypeOK, FencedWriteBack
  <2>3. attempts' = [attempts EXCEPT ![row[w]] = count] /\ attempts \in [Msg -> 0 .. MaxAttempts]
      BY <1>1 DEF TypeOK, FencedWriteBack
  <2>4. attempts' \in [Msg -> 0 .. MaxAttempts]
      BY <2>3, Updated, Zenon
  <2>5. owner' \in [Msg -> Sender \cup {Nobody}]
      BY <1>1 DEF TypeOK, FencedWriteBack
  <2> QED
      BY <2>1, <2>2, <2>4, <2>5 DEF OutboxTypes
<1>2. CASE ~Owns(w)
    BY <1>2 DEF TypeOK, OutboxTypes, FencedWriteBack, outbox
<1> QED
    BY <1>1, <1>2

LEMMA TakenTypes ==
  ASSUME TypeOK, NEW m \in Msg, Taken(m)
  PROVE  sends' \in [Msg -> 0 .. MaxSends]
<1>1. sends[m] + 1 \in 0 .. MaxSends
    BY ConstantsAssumption DEF TypeOK, Taken
<1> QED
    BY <1>1 DEF TypeOK, Taken

LEMMA SenderActionTypes ==
  ASSUME TypeOK, Claims, SenderAction
  PROVE  OutboxTypes' /\ SenderTypes'
<1> DEFINE Goal == OutboxTypes' /\ SenderTypes'
<1>0. /\ 0 \in 0 .. MaxAttempts
      /\ \A w \in Sender : pc[w] # "idle" => row[w] \in Msg /\ tries[w] + 1 \in 0 .. MaxAttempts
      /\ \A m \in Msg : attempts[m] \in 0 .. MaxAttempts
    BY ConstantsAssumption DEF TypeOK, Claims
<1>1. ASSUME NEW m \in Msg, NEW w \in Sender, Claim(w, m) PROVE Goal
    BY <1>0, <1>1 DEF Claim, customer, TypeOK, OutboxTypes, SenderTypes
<1>2. ASSUME NEW m \in Msg, LeaseExpires(m) \/ BecomesDue(m) \/ Resend(m) PROVE Goal
  <2>1. slipped' \in SUBSET Msg /\ UNCHANGED <<sends, pc, row, tries>>
      BY <1>2 DEF LeaseExpires, BecomesDue, Resend, customer, senders, TypeOK
  <2>2. due' \in SUBSET Msg /\ leased' \in SUBSET Msg
      BY <1>2 DEF LeaseExpires, BecomesDue, Resend, TypeOK
  <2>3. /\ fate' \in [Msg -> {"none", "PENDING", "SENT", "FAILED"}]
        /\ owner' \in [Msg -> Sender \cup {Nobody}]
        /\ attempts' = attempts \/ attempts' = [attempts EXCEPT ![m] = 0]
      BY <1>2 DEF LeaseExpires, BecomesDue, Resend, TypeOK
  <2>4. attempts \in [Msg -> 0 .. MaxAttempts]
      BY DEF TypeOK
  <2>5. attempts' \in [Msg -> 0 .. MaxAttempts]
      BY <1>0, <2>3, <2>4, Updated, Zenon
  <2> QED
      BY <2>1, <2>2, <2>3, <2>5 DEF TypeOK, OutboxTypes, SenderTypes
<1>3. ASSUME NEW w \in Sender, MarkSent(w) \/ MarkFailed(w) \/ ScheduleRetry(w) PROVE Goal
  <2>1. pc[w] # "idle"
      BY <1>3 DEF MarkSent, MarkFailed, ScheduleRetry
  <2>2. \E status \in {"PENDING", "SENT", "FAILED"}, count \in 0 .. MaxAttempts, next \in SUBSET Msg :
            FencedWriteBack(w, status, count, next)
    <3>1. due \in SUBSET Msg /\ due \ {row[w]} \in SUBSET Msg
        BY DEF TypeOK
    <3> QED
        BY <1>0, <1>3, <2>1, <3>1 DEF MarkSent, MarkFailed, ScheduleRetry
  <2>3. OutboxTypes'
      BY <1>0, <2>1, <2>2, FencedTypes
  <2>4. SenderIdle(w) /\ UNCHANGED customer
      BY <1>3 DEF MarkSent, MarkFailed, ScheduleRetry
  <2>5. SenderTypes'
      BY <1>0, <2>4 DEF SenderIdle, customer, TypeOK, SenderTypes
  <2> QED
      BY <2>3, <2>5
<1>4. ASSUME NEW w \in Sender,
             ProviderTakes(w) \/ ProviderRefuses(w) \/ ProviderFails(w) \/ MarkSentFails(w) \/ SenderDies(w)
      PROVE  Goal
  <2>1. pc[w] # "idle" /\ row[w] \in Msg
      BY <1>0, <1>4 DEF ProviderTakes, ProviderRefuses, ProviderFails, MarkSentFails, SenderDies
  <2>2. sends' \in [Msg -> 0 .. MaxSends]
      BY <1>4, <2>1, TakenTypes
         DEF ProviderTakes, ProviderRefuses, ProviderFails, MarkSentFails, SenderDies, customer, TypeOK
  <2>3. slipped' \in SUBSET Msg
      BY <1>4, <2>1 DEF ProviderTakes, ProviderRefuses, ProviderFails, MarkSentFails, SenderDies, customer, TypeOK
  <2>4. UNCHANGED outbox
      BY <1>4 DEF ProviderTakes, ProviderRefuses, ProviderFails, MarkSentFails, SenderDies
  <2>5. SenderAt(w, "taken") \/ SenderAt(w, "refused") \/ SenderAt(w, "failed") \/ SenderIdle(w)
      BY <1>4 DEF ProviderTakes, ProviderRefuses, ProviderFails, MarkSentFails, SenderDies
  <2>6. OutboxTypes'
      BY <2>4 DEF outbox, TypeOK, OutboxTypes
  <2>7. /\ pc' \in [Sender -> {"idle", "sending", "taken", "refused", "failed"}]
        /\ row' \in [Sender -> Msg \cup {Nobody}]
        /\ tries' = tries \/ tries' = [tries EXCEPT ![w] = 0]
      BY <2>5 DEF SenderAt, SenderIdle, TypeOK
  <2>8. tries \in [Sender -> 0 .. MaxAttempts]
      BY DEF TypeOK
  <2>9. tries' \in [Sender -> 0 .. MaxAttempts]
      BY <1>0, <2>7, <2>8, Updated, Zenon
  <2> QED
      BY <2>2, <2>3, <2>6, <2>7, <2>9 DEF SenderTypes
<1> HIDE DEF Goal
<1>5. Goal
    BY <1>1, <1>2, <1>3, <1>4 DEF SenderAction, SenderStep
<1> QED
    BY <1>5 DEF Goal

LEMMA TypeStep ==
  ASSUME IInv, [Next]_vars
  PROVE  TypeOK'
<1>1. CASE ConsumerAction
  <2>1. BrokerTypes'
      BY <1>1, ConsumerTypes DEF IInv
  <2>2. UNCHANGED <<senders, customer>>
      BY <1>1, ConsumerFrame DEF IInv
  <2>3. processed' \in SUBSET Msg /\ written' \in [Msg -> Nat] /\ OutboxTypes'
      BY <1>1, ConsumerFrame, EnqueueTypes DEF IInv, TypeOK, OutboxTypes, outbox
  <2> QED
      BY <2>1, <2>2, <2>3 DEF IInv, TypeOK, BrokerTypes, OutboxTypes, senders, customer
<1>2. CASE SenderAction
  <2>1. UNCHANGED <<consumer, processed, written>>
      BY <1>2, SenderFrame
  <2>2. OutboxTypes' /\ SenderTypes'
      BY <1>2, SenderActionTypes DEF IInv
  <2> QED
      BY <2>1, <2>2 DEF IInv, TypeOK, OutboxTypes, SenderTypes, consumer, broker, channel, handlers
<1>3. CASE UNCHANGED vars
    BY <1>3 DEF IInv, TypeOK, vars, consumer, broker, channel, handlers, outbox, senders, customer
<1> QED
    BY <1>1, <1>2, <1>3, TwoSides

LEMMA EnqueueLedger ==
  ASSUME TypeOK, Ledger, NEW m \in Msg, Enqueue(m)
  PROVE  Ledger'
<1>1. CASE m \in processed
    BY <1>1 DEF Enqueue, Ledger, outbox
<1>2. CASE m \notin processed
  <2> DEFINE n == written[m] + 1
  <2>1. n = 1
      BY <1>2 DEF Ledger
  <2>2. /\ processed' = processed \cup {m}
        /\ written' = [written EXCEPT ![m] = n]
        /\ fate' = [fate EXCEPT ![m] = "PENDING"]
      BY <1>2 DEF Enqueue
  <2> HIDE DEF n
  <2>3. ASSUME NEW q \in Msg
        PROVE  (fate'[q] = "none" <=> q \notin processed') /\ written'[q] = IF q \in processed' THEN 1 ELSE 0
    <3>1. CASE q = m
        BY <2>1, <2>2, <3>1 DEF TypeOK
    <3>2. CASE q # m
        BY <2>2, <3>2 DEF Ledger, TypeOK
    <3> QED
        BY <3>1, <3>2
  <2> QED
      BY <2>3 DEF Ledger
<1> QED
    BY <1>1, <1>2

LEMMA LedgerStep ==
  ASSUME IInv, [Next]_vars
  PROVE  Ledger'
<1>1. CASE ConsumerAction
    BY <1>1, ConsumerFrame, EnqueueLedger DEF IInv, Ledger, outbox
<1>2. CASE SenderAction
  <2>1. UNCHANGED <<processed, written>>
      BY <1>2, SenderFrame
  <2>2. fate' = fate \/ \E m \in Msg : Once!Decide(m) \/ Once!Resend(m)
      BY <1>2, SenderFate DEF IInv
  <2>3. \A m \in Msg : fate'[m] = "none" <=> fate[m] = "none"
    <3>1. ASSUME NEW n \in Msg, Once!Decide(n) \/ Once!Resend(n)
          PROVE  fate[n] # "none" /\ \E to \in {"PENDING", "SENT", "FAILED"} : fate' = [fate EXCEPT ![n] = to]
        BY <3>1 DEF Once!Decide, Once!Resend, Once!Becomes
    <3>2. fate \in [Msg -> {"none", "PENDING", "SENT", "FAILED"}]
        BY DEF IInv, TypeOK
    <3> QED
        BY <2>2, <3>1, <3>2
  <2> QED
      BY <2>1, <2>3 DEF IInv, Ledger
<1>3. CASE UNCHANGED vars
    BY <1>3 DEF IInv, Ledger, vars, outbox
<1> QED
    BY <1>1, <1>2, <1>3, TwoSides

LEMMA EnqueueClaims ==
  ASSUME TypeOK, Ledger, Claims, NEW m \in Msg, Enqueue(m), UNCHANGED senders
  PROVE  Claims'
<1>1. CASE m \in processed
    BY <1>1 DEF Enqueue, Claims, outbox, senders
<1>2. CASE m \notin processed
  <2>1. fate[m] = "none" /\ owner[m] = Nobody
      BY <1>2 DEF Ledger, Claims
  <2> QED
      BY <1>2, <2>1 DEF Enqueue, Claims, TypeOK, senders
<1> QED
    BY <1>1, <1>2

(* A fenced write-back gives the row up, and leaves other senders' rows alone. *)
LEMMA FencedClaims ==
  ASSUME TypeOK, Claims, NEW w \in Sender, pc[w] # "idle", SenderIdle(w),
         NEW status \in {"PENDING", "SENT", "FAILED"}, NEW count \in 0 .. MaxAttempts, NEW next,
         status = "PENDING" => count < MaxAttempts,
         FencedWriteBack(w, status, count, next)
  PROVE  Claims'
<1>1. row[w] \in Msg
    BY DEF Claims
<1>2. CASE Owns(w)
    BY <1>1, <1>2 DEF FencedWriteBack, SenderIdle, Claims, TypeOK
<1>3. CASE ~Owns(w)
    BY <1>3 DEF FencedWriteBack, SenderIdle, Claims, TypeOK, outbox
<1> QED
    BY <1>2, <1>3

LEMMA ClaimsStep ==
  ASSUME IInv, [Next]_vars
  PROVE  Claims'
<1> USE DEF IInv
<1>1. CASE ConsumerAction
    BY <1>1, ConsumerFrame, EnqueueClaims DEF Claims, outbox, senders
<1>2. ASSUME NEW m \in Msg, NEW w \in Sender, Claim(w, m) PROVE Claims'
  <2>1. fate[m] = "PENDING" /\ attempts[m] < MaxAttempts
      BY <1>2 DEF Claim, Claimable, Claims
  <2> QED
      BY <1>2, <2>1, ConstantsAssumption DEF Claim, Claims, TypeOK
<1>3. ASSUME NEW m \in Msg, LeaseExpires(m) \/ BecomesDue(m) PROVE Claims'
    BY <1>3 DEF LeaseExpires, BecomesDue, senders, Claims
<1>4. ASSUME NEW m \in Msg, Resend(m) PROVE Claims'
    BY <1>4, ConstantsAssumption DEF Resend, senders, Claims, TypeOK
<1>5. ASSUME NEW w \in Sender, MarkSent(w) PROVE Claims'
  <2>1. row[w] \in Msg /\ attempts[row[w]] \in 0 .. MaxAttempts
      BY <1>5 DEF MarkSent, Claims, TypeOK
  <2> QED
      BY <1>5, <2>1, FencedClaims DEF MarkSent
<1>6. ASSUME NEW w \in Sender, MarkFailed(w) \/ ScheduleRetry(w) PROVE Claims'
  <2>1. tries[w] + 1 \in 0 .. MaxAttempts
      BY <1>6, ConstantsAssumption DEF MarkFailed, ScheduleRetry, Claims, TypeOK
  <2>2. CASE tries[w] + 1 < MaxAttempts
      BY <1>6, <2>1, <2>2, FencedClaims DEF MarkFailed, ScheduleRetry
  <2>3. CASE ~(tries[w] + 1 < MaxAttempts)
    <3>1. tries[w] + 1 >= MaxAttempts
        BY <2>1, <2>3, ConstantsAssumption
    <3> QED
        BY <1>6, <2>1, <3>1, FencedClaims DEF MarkFailed, ScheduleRetry
  <2> QED
      BY <2>2, <2>3
<1>7. ASSUME NEW w \in Sender,
             ProviderTakes(w) \/ ProviderRefuses(w) \/ ProviderFails(w) \/ MarkSentFails(w) \/ SenderDies(w)
      PROVE  Claims'
  <2>1. UNCHANGED outbox /\ pc[w] # "idle"
      BY <1>7 DEF ProviderTakes, ProviderRefuses, ProviderFails, MarkSentFails, SenderDies
  <2>2. SenderAt(w, "taken") \/ SenderAt(w, "refused") \/ SenderAt(w, "failed") \/ SenderIdle(w)
      BY <1>7 DEF ProviderTakes, ProviderRefuses, ProviderFails, MarkSentFails, SenderDies
  <2> QED
      BY <2>1, <2>2 DEF SenderAt, SenderIdle, outbox, Claims, TypeOK
<1>8. CASE UNCHANGED vars
    BY <1>8 DEF vars, outbox, senders, Claims
<1> QED
  <2>1. ASSUME SenderAction PROVE Claims'
      BY <2>1, <1>2, <1>3, <1>4, <1>5, <1>6, <1>7 DEF SenderAction, SenderStep
  <2> QED
      BY <1>1, <1>8, <2>1, TwoSides

(* A move touches one copy of one event. *)
LEMMA Moved ==
  ASSUME TypeOK, NEW m \in Msg, NEW c \in Copy, NEW to, NEW count, Moves(m, c, to, count)
  PROVE  /\ place'[m][c] = to
         /\ \A n \in Msg, d \in Copy : n # m \/ d # c => place'[n][d] = place[n][d]
  BY DEF Moves, TypeOK

(* What the broker alone moves no handler holds. *)
LEMMA BrokerMoves ==
  ASSUME TypeOK, Deliveries, NEW m \in Msg, NEW c \in Copy, NEW to, NEW count, Moves(m, c, to, count),
         place[m][c] # "held"
  PROVE  \A h \in Handler : Holds(h) => place'[event[h]][copy[h]] = "held"
<1> SUFFICES ASSUME NEW h \in Handler, Holds(h) PROVE place'[event[h]][copy[h]] = "held"
    OBVIOUS
<1>1. event[h] \in Msg /\ copy[h] \in Copy /\ place[event[h]][copy[h]] = "held"
    BY DEF Deliveries, Holds, TypeOK
<1> QED
    BY <1>1, Moved

(* A handler that ends lets go of its copy and of no other's. *)
LEMMA EndsDeliveries ==
  ASSUME TypeOK, Deliveries, NEW h \in Handler, Ends(h), doing[h] # "idle",
         NEW to, NEW count, Holds(h) => Moves(event[h], copy[h], to, count), ~Holds(h) => UNCHANGED broker,
         processed \subseteq processed'
  PROVE  Deliveries'
<1>1. /\ doing'[h] = "idle" /\ event'[h] = Nobody /\ copy'[h] = Nobody
      /\ \A g \in Handler \ {h} : doing'[g] = doing[g] /\ event'[g] = event[g] /\ copy'[g] = copy[g]
    BY DEF Ends, TypeOK
<1>2. ASSUME NEW g \in Handler \ {h}, Holds(g) PROVE place'[event[g]][copy[g]] = "held"
  <2>1. event[g] \in Msg /\ copy[g] \in Copy /\ place[event[g]][copy[g]] = "held"
      BY <1>2 DEF Deliveries, Holds, TypeOK
  <2>2. CASE Holds(h)
    <3>1. event[h] \in Msg /\ copy[h] \in Copy
        BY <2>2 DEF Deliveries, Holds, TypeOK
    <3>2. event[g] # event[h] \/ copy[g] # copy[h]
        BY <1>2, <2>2 DEF Deliveries
    <3> QED
        BY <2>1, <2>2, <3>1, <3>2, Moved
  <2>3. CASE ~Holds(h)
      BY <2>1, <2>3 DEF broker
  <2> QED
      BY <2>2, <2>3
<1>3. ASSUME NEW g \in Handler
      PROVE  /\ doing'[g] # "idle" => event'[g] \in Msg
             /\ doing'[g] = "done" => event'[g] \in processed'
             /\ copy'[g] # Nobody => doing'[g] # "idle" /\ place'[event'[g]][copy'[g]] = "held"
    BY <1>1, <1>2 DEF Deliveries, Holds
<1>4. ASSUME NEW f \in Handler, NEW g \in Handler, copy'[f] # Nobody, event'[f] = event'[g], copy'[f] = copy'[g]
      PROVE  f = g
  <2>1. f # h /\ g # h
      BY <1>1, <1>4
  <2> QED
      BY <1>1, <1>4, <2>1 DEF Deliveries, Holds
<1> QED
    BY <1>3, <1>4 DEF Deliveries, Holds

LEMMA EnqueueProcesses ==
  ASSUME NEW m \in Msg, Enqueue(m)
  PROVE  m \in processed' /\ processed \subseteq processed' /\ processed' \subseteq processed \cup {m}
  BY DEF Enqueue

LEMMA DeliveriesStep ==
  ASSUME IInv, [Next]_vars
  PROVE  Deliveries'
<1> USE DEF IInv
<1>1. ASSUME NEW m \in Msg, NEW c \in Copy,
             PublishedAgain(m, c) \/ RetryExpires(m, c) \/ RedriveDlq(m, c)
      PROVE  Deliveries'
  <2>1. PICK count : Moves(m, c, "main", count)
      BY <1>1 DEF PublishedAgain, RetryExpires, RedriveDlq
  <2>2. place[m][c] # "held" /\ UNCHANGED <<handlers, processed>>
      BY <1>1 DEF PublishedAgain, RetryExpires, RedriveDlq
  <2>3. \A h \in Handler : Holds(h) => place'[event[h]][copy[h]] = "held"
      BY <2>1, <2>2, BrokerMoves
  <2> QED
      BY <2>2, <2>3 DEF Deliveries, Holds, handlers
<1>2. ASSUME NEW m \in Msg, NEW c \in Copy, NEW h \in Handler, Deliver(h, m, c) PROVE Deliveries'
  <2>1. Moves(m, c, "held", deaths[m][c]) /\ place[m][c] = "main" /\ doing[h] = "idle" /\ processed' = processed
      BY <1>2 DEF Deliver
  <2>2. /\ doing'[h] = "looking" /\ event'[h] = m /\ copy'[h] = c
        /\ \A g \in Handler \ {h} : doing'[g] = doing[g] /\ event'[g] = event[g] /\ copy'[g] = copy[g]
      BY <1>2 DEF Deliver, TypeOK
  <2>3. place'[m][c] = "held" /\ \A g \in Handler : Holds(g) => place'[event[g]][copy[g]] = "held"
      BY <2>1, Moved, BrokerMoves
  <2>4. \A g \in Handler : Holds(g) => ~(event[g] = m /\ copy[g] = c)
      BY <2>1 DEF Deliveries
  <2>5. ASSUME NEW g \in Handler
        PROVE  /\ doing'[g] # "idle" => event'[g] \in Msg
               /\ doing'[g] = "done" => event'[g] \in processed'
               /\ copy'[g] # Nobody => doing'[g] # "idle" /\ place'[event'[g]][copy'[g]] = "held"
      BY <2>1, <2>2, <2>3 DEF Deliveries, Holds
  <2>6. ASSUME NEW f \in Handler, NEW g \in Handler, copy'[f] # Nobody, event'[f] = event'[g], copy'[f] = copy'[g]
        PROVE  f = g
      BY <2>2, <2>4, <2>6 DEF Deliveries, Holds
  <2> QED
      BY <2>5, <2>6 DEF Deliveries, Holds
<1>3. ASSUME NEW h \in Handler, Look(h) \/ ProcessFails(h) PROVE Deliveries'
    BY <1>3 DEF Look, ProcessFails, Now, broker, Deliveries, Holds, TypeOK
<1>4. ASSUME NEW h \in Handler, Write(h) PROVE Deliveries'
  <2>1. event[h] \in Msg
      BY <1>4 DEF Write, Deliveries
  <2>2. event[h] \in processed' /\ processed \subseteq processed'
      BY <1>4, <2>1, EnqueueProcesses DEF Write
  <2> QED
      BY <1>4, <2>2 DEF Write, Now, broker, Deliveries, Holds, TypeOK
<1>5. ASSUME NEW h \in Handler, Ack(h) \/ Buried(h) \/ Nack(h) PROVE Deliveries'
  <2>1. PICK to, count : (Holds(h) => Moves(event[h], copy[h], to, count))
      BY <1>5 DEF Ack, Buried, Nack
  <2>2. /\ ~Holds(h) => UNCHANGED broker
        /\ Ends(h) /\ doing[h] # "idle" /\ processed' = processed
      BY <1>5 DEF Ack, Buried, Nack
  <2> QED
      BY <2>1, <2>2, EndsDeliveries
<1>6. ASSUME NEW h \in Handler, InfraFails(h) PROVE Deliveries'
  <2>1. PICK to, count : (Holds(h) => Moves(event[h], copy[h], to, count))
      BY <1>6 DEF InfraFails
  <2>2. /\ ~Holds(h) => UNCHANGED broker
        /\ Ends(h) /\ doing[h] # "idle"
      BY <1>6 DEF InfraFails
  <2>3. processed \subseteq processed'
      BY <1>6, <2>2, EnqueueProcesses DEF InfraFails, Deliveries
  <2> QED
      BY <2>1, <2>2, <2>3, EndsDeliveries
<1>7. ASSUME NEW h \in Handler, NEW c \in Copy, Bury(h, c) PROVE Deliveries'
  <2>1. event[h] \in Msg /\ place[event[h]][c] = "none" /\ processed' = processed
      BY <1>7 DEF Bury, Deliveries
  <2>2. PICK count : Moves(event[h], c, "dlq", count)
      BY <1>7 DEF Bury
  <2>3. \A g \in Handler : Holds(g) => place'[event[g]][copy[g]] = "held"
      BY <2>1, <2>2, BrokerMoves
  <2> QED
      BY <1>7, <2>1, <2>3 DEF Bury, Now, Deliveries, Holds, TypeOK
<1>8. ASSUME NEW h \in Handler, BuryFails(h) \/ GhostFails(h) PROVE Deliveries'
  <2>1. /\ Ends(h) /\ UNCHANGED <<broker, processed>>
      BY <1>8 DEF BuryFails, GhostFails
  <2>2. /\ doing'[h] = "idle" /\ event'[h] = Nobody /\ copy'[h] = Nobody
        /\ \A g \in Handler \ {h} : doing'[g] = doing[g] /\ event'[g] = event[g] /\ copy'[g] = copy[g]
      BY <2>1 DEF Ends, TypeOK
  <2>3. ASSUME NEW f \in Handler, NEW g \in Handler, copy'[f] # Nobody, event'[f] = event'[g], copy'[f] = copy'[g]
        PROVE  f = g
      BY <2>2, <2>3 DEF Deliveries, Holds
  <2> QED
      BY <2>1, <2>2, <2>3 DEF broker, Deliveries, Holds
<1>9. CASE ChannelCloses \/ ProcessDies
    BY <1>9 DEF ChannelCloses, ProcessDies, Deliveries, Holds
<1>10. CASE Resume \/ Start
    BY <1>10 DEF Resume, Start, broker, handlers, Deliveries, Holds
<1>11. CASE SenderAction
  <2>1. UNCHANGED <<consumer, processed>>
      BY <1>11, SenderFrame
  <2> QED
      BY <2>1 DEF consumer, broker, handlers, Deliveries, Holds
<1>12. CASE UNCHANGED vars
    BY <1>12 DEF vars, consumer, broker, handlers, Deliveries, Holds
<1> QED
  <2>1. ASSUME ConsumerAction PROVE Deliveries'
      BY <2>1, <1>1, <1>2, <1>3, <1>4, <1>5, <1>6, <1>7, <1>8, <1>9, <1>10 DEF ConsumerAction, HandlerStep
  <2> QED
      BY <1>11, <1>12, <2>1, TwoSides

LEMMA KeptStep ==
  ASSUME IInv, [Next]_vars
  PROVE  Kept'
<1> USE DEF IInv
<1> DEFINE Safe(m, c) == place[m][c] # "none" /\ \A h \in Handler : ~Burying(h, m, c)
<1> SUFFICES ASSUME NEW m \in Msg, m \notin processed'
             PROVE  \E c \in Copy : place'[m][c] # "none" /\ \A h \in Handler : ~Burying(h, m, c)'
    BY DEF Kept
<1> DEFINE Goal == \E c \in Copy : place'[m][c] # "none" /\ \A h \in Handler : ~Burying(h, m, c)'
<1>1. processed \subseteq processed'
  <2>1. ASSUME ConsumerAction PROVE processed \subseteq processed'
      BY <2>1, ConsumerFrame, EnqueueProcesses
  <2> QED
      BY <2>1, SenderFrame, TwoSides DEF vars
<1>2. PICK c \in Copy : place[m][c] # "none" /\ \A h \in Handler : ~Burying(h, m, c)
    BY <1>1 DEF Kept
<1>3. ASSUME place'[m][c] # "none", \A h \in Handler : Burying(h, m, c)' => Burying(h, m, c) PROVE Goal
    BY <1>2, <1>3
<1> HIDE DEF Goal
<1>4. ASSUME NEW n \in Msg, NEW d \in Copy,
             PublishedAgain(n, d) \/ RetryExpires(n, d) \/ RedriveDlq(n, d)
      PROVE  Goal
  <2>1. PICK count : Moves(n, d, "main", count)
      BY <1>4 DEF PublishedAgain, RetryExpires, RedriveDlq
  <2>2. UNCHANGED handlers
      BY <1>4 DEF PublishedAgain, RetryExpires, RedriveDlq
  <2> QED
      BY <1>2, <1>3, <2>1, <2>2, Moved DEF Burying, handlers
<1>5. ASSUME NEW n \in Msg, NEW d \in Copy, NEW h \in Handler, Deliver(h, n, d) PROVE Goal
  <2>1. place'[m][c] # "none"
      BY <1>2, <1>5, Moved DEF Deliver
  <2>2. \A g \in Handler : Burying(g, m, c)' => Burying(g, m, c)
      BY <1>5 DEF Deliver, Burying, TypeOK
  <2> QED
      BY <1>3, <2>1, <2>2
<1>6. ASSUME NEW h \in Handler, Look(h) \/ ProcessFails(h) \/ Write(h) PROVE Goal
    BY <1>2, <1>3, <1>6 DEF Look, ProcessFails, Write, Now, broker, Burying, TypeOK
<1>7. ASSUME NEW h \in Handler, Ends(h), doing[h] # "idle",
             NEW to, NEW count, Holds(h) => Moves(event[h], copy[h], to, count), ~Holds(h) => UNCHANGED broker,
             \/ to # "none"
             \/ event[h] \in processed
             \/ doing[h] = "buried"
      PROVE  Goal
  <2>1. \A g \in Handler : Burying(g, m, c)' => Burying(g, m, c)
      BY <1>7 DEF Ends, Burying, TypeOK
  <2>2. place'[m][c] # "none"
    <3>1. CASE Holds(h)
      <4>1. event[h] \in Msg /\ copy[h] \in Copy
          BY <3>1 DEF Deliveries, Holds, TypeOK
      <4>2. CASE event[h] # m \/ copy[h] # c
          BY <1>2, <1>7, <3>1, <4>1, <4>2, Moved
      <4>3. CASE event[h] = m /\ copy[h] = c
        <5>1. to # "none"
            BY <1>1, <1>2, <1>7, <4>3 DEF Burying
        <5> QED
            BY <1>7, <3>1, <4>1, <4>3, <5>1, Moved
      <4> QED
          BY <4>2, <4>3
    <3>2. CASE ~Holds(h)
        BY <1>2, <1>7, <3>2 DEF broker
    <3> QED
        BY <3>1, <3>2
  <2> QED
      BY <1>3, <2>1, <2>2
<1>8. ASSUME NEW h \in Handler, Ack(h) \/ Buried(h) PROVE Goal
  <2>1. Ends(h) /\ doing[h] \in {"done", "buried"} /\ (~Holds(h) => UNCHANGED broker)
      BY <1>8 DEF Ack, Buried
  <2>2. Holds(h) => Moves(event[h], copy[h], "none", 0)
      BY <1>8 DEF Ack, Buried
  <2>3. event[h] \in processed \/ doing[h] = "buried"
      BY <2>1 DEF Deliveries
  <2> QED
      BY <1>7, <2>1, <2>2, <2>3
<1>9. ASSUME NEW h \in Handler, Nack(h) PROVE Goal
  <2>1. /\ Ends(h) /\ doing[h] # "idle" /\ Holds(h)
        /\ Moves(event[h], copy[h], "retry", deaths[event[h]][copy[h]] + 1)
      BY <1>9 DEF Nack
  <2> QED
      BY <1>7, <2>1
<1>10. ASSUME NEW h \in Handler, InfraFails(h) PROVE Goal
  <2>1. /\ Ends(h) /\ doing[h] # "idle" /\ (~Holds(h) => UNCHANGED broker)
        /\ Holds(h) => Moves(event[h], copy[h], "main", deaths[event[h]][copy[h]])
      BY <1>10 DEF InfraFails
  <2>2. "main" # "none"
      OBVIOUS
  <2> QED
      BY <1>7, <2>1, <2>2, Zenon
<1>11. ASSUME NEW h \in Handler, NEW d \in Copy, Bury(h, d) PROVE Goal
  <2>1. /\ event[h] \in Msg /\ place[event[h]][d] = "none" /\ Holds(h)
        /\ Now(h, "buried")
        /\ Moves(event[h], d, "dlq", deaths[event[h]][copy[h]])
      BY <1>11 DEF Bury, Deliveries
  <2>2. \A g \in Handler : \A b \in Copy : Burying(g, m, b)' => Burying(g, m, b) \/ (g = h /\ event[h] = m /\ copy[h] = b)
      BY <2>1 DEF Now, Burying, TypeOK
  <2>3. CASE event[h] = m
    <3>1. \A g \in Handler : ~Burying(g, m, d)
      <4> SUFFICES ASSUME NEW g \in Handler, Burying(g, m, d) PROVE FALSE
          OBVIOUS
      <4>1. Holds(g) /\ event[g] = m /\ copy[g] = d
          BY ConstantsAssumption DEF Burying, Holds
      <4>2. place[event[g]][copy[g]] = "held"
          BY <4>1 DEF Deliveries
      <4> QED
          BY <2>1, <2>3, <4>1, <4>2
    <3>2. copy[h] # d
        BY <2>1 DEF Deliveries, Holds
    <3>3. place'[m][d] = "dlq"
        BY <2>1, <2>3, Moved
    <3> QED
        BY <2>2, <3>1, <3>2, <3>3 DEF Goal
  <2>4. CASE event[h] # m
      BY <1>2, <1>3, <2>1, <2>2, <2>4, Moved
  <2> QED
      BY <2>3, <2>4
<1>12. ASSUME NEW h \in Handler, BuryFails(h) \/ GhostFails(h) PROVE Goal
    BY <1>2, <1>3, <1>12 DEF BuryFails, GhostFails, Ends, broker, Burying, TypeOK
<1>13. ASSUME ChannelCloses \/ ProcessDies PROVE Goal
  <2>1. place'[m][c] # "none"
      BY <1>2, <1>13 DEF ChannelCloses, ProcessDies, TakenBack
  <2>2. \A h \in Handler : ~Burying(h, m, c)'
      BY <1>13, ConstantsAssumption DEF ChannelCloses, ProcessDies, Burying
  <2> QED
      BY <1>3, <2>1, <2>2
<1>14. ASSUME Resume \/ Start PROVE Goal
    BY <1>2, <1>3, <1>14 DEF Resume, Start, broker, handlers, Burying
<1>15. ASSUME SenderAction \/ UNCHANGED vars PROVE Goal
  <2>1. UNCHANGED consumer
      BY <1>15, SenderFrame DEF vars
  <2> QED
      BY <1>2, <1>3, <2>1 DEF consumer, broker, handlers, Burying
<1>16. Goal
  <2>1. ASSUME ConsumerAction PROVE Goal
      BY <2>1, <1>4, <1>5, <1>6, <1>8, <1>9, <1>10, <1>11, <1>12, <1>13, <1>14 DEF ConsumerAction, HandlerStep
  <2> QED
      BY <1>15, <2>1, TwoSides
<1> QED
    BY <1>16 DEF Goal

(* Recorded, for one event. *)
Working(w, m) == row[w] = m /\ pc[w] = "taken"

RecordedOf(m) ==
    /\ \A w \in Sender : AtWork(w, m) => owner[m] = w /\ m \in leased
    /\ sends[m] = 0 \/ (sends[m] = 1 /\ (fate[m] = "SENT" \/ \E w \in Sender : Working(w, m)))

LEMMA RecordedOfEach == Recorded <=> \A m \in Msg \ slipped : RecordedOf(m)
  BY Zenon DEF Recorded, RecordedOf, Working

(* A sender at work is the only one, on a PENDING row. *)
LEMMA OneAtWork ==
  ASSUME TypeOK, Claims, NEW m \in Msg, RecordedOf(m), NEW w \in Sender, owner[m] = w
  PROVE  /\ fate[m] = "PENDING"
         /\ \A v \in Sender : AtWork(v, m) => v = w
         /\ pc[w] # "taken" \/ row[w] # m => sends[m] = 0
<1>1. fate[m] = "PENDING"
    BY ConstantsAssumption DEF Claims
<1>2. \A v \in Sender : AtWork(v, m) => v = w
    BY DEF RecordedOf
<1>3. \A v \in Sender : Working(v, m) => AtWork(v, m)
    BY DEF Working, AtWork
<1> QED
    BY <1>1, <1>2, <1>3 DEF RecordedOf, Working

LEMMA NoneAtWork ==
  ASSUME TypeOK, Claims, NEW m \in Msg, RecordedOf(m), m \notin leased \/ fate[m] # "PENDING"
  PROVE  /\ \A w \in Sender : ~AtWork(w, m)
         /\ fate[m] # "SENT" => sends[m] = 0
<1>1. \A w \in Sender : ~AtWork(w, m)
    BY ConstantsAssumption DEF RecordedOf, Claims
<1>2. \A w \in Sender : ~Working(w, m)
    BY <1>1 DEF Working, AtWork
<1> QED
    BY <1>1, <1>2 DEF RecordedOf

LEMMA FencedElsewhere ==
  ASSUME TypeOK, NEW w \in Sender, NEW status, NEW count, NEW next, FencedWriteBack(w, status, count, next),
         NEW m \in Msg, row[w] # m \/ ~Owns(w)
  PROVE  fate'[m] = fate[m] /\ owner'[m] = owner[m] /\ (m \in leased => m \in leased')
  BY DEF FencedWriteBack, outbox, TypeOK

LEMMA IdleElsewhere ==
  ASSUME TypeOK, NEW w \in Sender, SenderIdle(w), NEW m \in Msg
  PROVE  /\ \A v \in Sender : AtWork(v, m)' => v # w /\ AtWork(v, m)
         /\ \A v \in Sender \ {w} : Working(v, m)' <=> Working(v, m)
  BY ConstantsAssumption DEF SenderIdle, AtWork, Working, TypeOK

LEMMA StaysRecorded ==
  ASSUME NEW m \in Msg, RecordedOf(m), sends'[m] = sends[m], fate'[m] = fate[m],
         \A v \in Sender : AtWork(v, m)' => AtWork(v, m) /\ owner'[m] = owner[m] /\ (m \in leased => m \in leased'),
         \A v \in Sender : Working(v, m) => Working(v, m)'
  PROVE  RecordedOf(m)'
  BY DEF RecordedOf

LEMMA EmptyRecorded ==
  ASSUME NEW m \in Msg, sends'[m] = 0 \/ (sends'[m] = 1 /\ fate'[m] = "SENT"), \A v \in Sender : ~AtWork(v, m)'
  PROVE  RecordedOf(m)'
  BY DEF RecordedOf

LEMMA RecordedStep ==
  ASSUME IInv, [Next]_vars
  PROVE  Recorded'
<1> USE DEF IInv
<1>1. slipped \subseteq slipped'
  <2>1. ASSUME SenderAction PROVE slipped \subseteq slipped'
    <3>1. ASSUME NEW w \in Sender, SenderStep(w) PROVE slipped \subseteq slipped'
        BY <3>1 DEF SenderStep, ProviderTakes, ProviderRefuses, ProviderFails, MarkSent, MarkSentFails,
                    MarkFailed, ScheduleRetry, customer
    <3> QED
        BY <2>1, <3>1 DEF SenderAction, Claim, LeaseExpires, BecomesDue, Resend, SenderDies, customer
  <2>2. ASSUME ConsumerAction PROVE slipped \subseteq slipped'
      BY <2>2, ConsumerFrame DEF customer
  <2> QED
      BY <2>1, <2>2, TwoSides DEF vars, customer
<1> SUFFICES ASSUME NEW m \in Msg, m \notin slipped' PROVE RecordedOf(m)'
    BY Zenon DEF Recorded, RecordedOf, Working
<1>2. RecordedOf(m)
    BY <1>1, RecordedOfEach
<1>3. CASE ConsumerAction
  <2>1. UNCHANGED <<senders, customer>>
      BY <1>3, ConsumerFrame
  <2>2. ASSUME NEW n \in Msg, Enqueue(n) PROVE RecordedOf(m)'
    <3>1. CASE n = m /\ n \notin processed
      <4>1. fate[m] = "none"
          BY <3>1 DEF Ledger
      <4>2. sends[m] = 0 /\ \A w \in Sender : ~AtWork(w, m)
          BY <1>2, <4>1, NoneAtWork
      <4> QED
          BY <2>1, <4>2, EmptyRecorded DEF AtWork, senders, customer
    <3>2. CASE n # m \/ n \in processed
        BY <1>2, <2>1, <2>2, <3>2, StaysRecorded DEF Enqueue, outbox, AtWork, Working, senders, customer, TypeOK
    <3> QED
        BY <3>1, <3>2
  <2>3. CASE UNCHANGED outbox
      BY <1>2, <2>1, <2>3, StaysRecorded DEF outbox, AtWork, Working, senders, customer
  <2> QED
      BY <1>3, <2>2, <2>3, ConsumerFrame
<1>4. ASSUME NEW n \in Msg, NEW w \in Sender, Claim(w, n) PROVE RecordedOf(m)'
  <2>1. /\ \A v \in Sender : v # w => (AtWork(v, m)' <=> AtWork(v, m)) /\ (Working(v, m)' <=> Working(v, m))
        /\ ~AtWork(w, m) /\ ~Working(w, m)
        /\ AtWork(w, m)' => n = m
      BY <1>4 DEF Claim, AtWork, Working, TypeOK
  <2>2. UNCHANGED <<fate, sends>>
      BY <1>4 DEF Claim, customer
  <2>3. CASE n = m
    <3>1. sends[m] = 0 /\ \A v \in Sender : ~AtWork(v, m)
        BY <1>2, <1>4, <2>3, NoneAtWork DEF Claim, Claimable
    <3>2. owner'[m] = w /\ m \in leased'
        BY <1>4, <2>3 DEF Claim, TypeOK
    <3> QED
        BY <2>1, <2>2, <3>1, <3>2 DEF RecordedOf
  <2>4. CASE n # m
    <3>1. owner'[m] = owner[m] /\ (m \in leased => m \in leased')
        BY <1>4, <2>4 DEF Claim, TypeOK
    <3> QED
        BY <1>2, <2>1, <2>2, <2>4, <3>1, StaysRecorded
  <2> QED
      BY <2>3, <2>4
<1>5. ASSUME NEW n \in Msg, LeaseExpires(n) PROVE RecordedOf(m)'
  <2>1. UNCHANGED <<fate, owner, senders, sends>>
      BY <1>5 DEF LeaseExpires
  <2>2. m \in leased /\ (\E v \in Sender : AtWork(v, m)) => m \in leased'
      BY <1>5 DEF LeaseExpires
  <2> QED
      BY <1>2, <2>1, <2>2, StaysRecorded DEF AtWork, Working, senders
<1>6. ASSUME NEW n \in Msg, BecomesDue(n) PROVE RecordedOf(m)'
    BY <1>2, <1>6, StaysRecorded DEF BecomesDue, AtWork, Working, senders, customer
<1>7. ASSUME NEW n \in Msg, Resend(n) PROVE RecordedOf(m)'
  <2>1. UNCHANGED <<senders, sends>>
      BY <1>7 DEF Resend, customer
  <2>2. CASE n = m
    <3>1. sends[m] = 0 /\ \A w \in Sender : ~AtWork(w, m)
        BY <1>2, <1>7, <2>2, NoneAtWork DEF Resend
    <3> QED
        BY <2>1, <3>1, EmptyRecorded DEF AtWork, senders
  <2>3. CASE n # m
      BY <1>2, <1>7, <2>1, <2>3, StaysRecorded DEF Resend, AtWork, Working, senders, TypeOK
  <2> QED
      BY <2>2, <2>3
<1>8. ASSUME NEW w \in Sender, ProviderTakes(w) PROVE RecordedOf(m)'
  <2>1. UNCHANGED outbox /\ row[w] \in Msg
      BY <1>8 DEF ProviderTakes, Claims
  <2>2. /\ \A v \in Sender : AtWork(v, m)' => AtWork(v, m)
        /\ \A v \in Sender : Working(v, m) => Working(v, m)'
        /\ row[w] = m => Working(w, m)'
      BY <1>8 DEF ProviderTakes, SenderAt, AtWork, Working, TypeOK
  <2>3. CASE row[w] = m
    <3>1. owner[m] = w
        BY <1>2, <1>8, <2>3 DEF ProviderTakes, RecordedOf, AtWork
    <3>2. sends[m] = 0
        BY <1>2, <1>8, <3>1, OneAtWork DEF ProviderTakes
    <3>3. sends'[m] = 1
        BY <1>8, <2>3, <3>2 DEF ProviderTakes, Taken, TypeOK
    <3> QED
        BY <1>2, <2>1, <2>2, <2>3, <3>3 DEF RecordedOf, outbox
  <2>4. CASE row[w] # m
    <3>1. sends'[m] = sends[m]
        BY <1>8, <2>1, <2>4 DEF ProviderTakes, Taken, TypeOK
    <3> QED
        BY <1>2, <2>1, <2>2, <3>1, StaysRecorded DEF outbox
  <2> QED
      BY <2>3, <2>4
<1>9. ASSUME NEW w \in Sender, ProviderRefuses(w) \/ ProviderFails(w) \/ MarkSentFails(w) PROVE RecordedOf(m)'
  <2>1. UNCHANGED outbox /\ row[w] \in Msg
      BY <1>9 DEF ProviderRefuses, ProviderFails, MarkSentFails, Claims
  <2>2. \A v \in Sender : AtWork(v, m)' => AtWork(v, m)
      BY <1>9 DEF ProviderRefuses, ProviderFails, MarkSentFails, SenderAt, AtWork, TypeOK
  <2>3. \A v \in Sender : Working(v, m) => Working(v, m)'
      BY <1>9 DEF ProviderRefuses, ProviderFails, MarkSentFails, SenderAt, Working, TypeOK
  <2>4. sends'[m] = sends[m]
      BY <1>9, <2>1 DEF ProviderRefuses, ProviderFails, MarkSentFails, Taken, customer, TypeOK
  <2> QED
      BY <1>2, <2>1, <2>2, <2>3, <2>4, StaysRecorded DEF outbox
<1>10. ASSUME NEW w \in Sender, SenderDies(w) PROVE RecordedOf(m)'
  <2>1. /\ \A v \in Sender : AtWork(v, m)' => AtWork(v, m)
        /\ \A v \in Sender \ {w} : Working(v, m) => Working(v, m)'
      BY <1>10, IdleElsewhere DEF SenderDies
  <2>2. ~Working(w, m) /\ UNCHANGED outbox /\ sends' = sends
      BY <1>10 DEF SenderDies, Working
  <2> QED
      BY <1>2, <2>1, <2>2, StaysRecorded DEF outbox
<1>11. ASSUME NEW w \in Sender, NEW status, NEW count, NEW next,
              FencedWriteBack(w, status, count, next), SenderIdle(w), UNCHANGED customer,
              pc[w] = "taken" => status = "SENT", pc[w] # "idle"
       PROVE  RecordedOf(m)'
  <2>1. /\ \A v \in Sender : AtWork(v, m)' => v # w /\ AtWork(v, m)
        /\ \A v \in Sender \ {w} : Working(v, m) => Working(v, m)'
      BY <1>11, IdleElsewhere
  <2>2. CASE row[w] = m /\ Owns(w)
    <3>1. owner[m] = w
        BY <2>2 DEF Owns
    <3>2. \A v \in Sender : ~AtWork(v, m)'
        BY <1>2, <2>1, <3>1, OneAtWork
    <3>3. sends[m] = 0 \/ pc[w] = "taken"
        BY <1>2, <3>1, OneAtWork
    <3>4. sends[m] \in {0, 1}
        BY <1>2 DEF RecordedOf
    <3>5. fate'[m] = status
        BY <1>11, <2>2 DEF FencedWriteBack, TypeOK
    <3> QED
        BY <1>11, <3>2, <3>3, <3>4, <3>5, EmptyRecorded DEF customer
  <2>3. CASE row[w] # m \/ ~Owns(w)
    <3>1. fate'[m] = fate[m] /\ owner'[m] = owner[m] /\ (m \in leased => m \in leased')
        BY <1>11, <2>3, FencedElsewhere
    <3>2. ~Working(w, m)
        BY <1>2, <2>3 DEF Working, AtWork, Owns, RecordedOf
    <3> QED
        BY <1>2, <1>11, <2>1, <3>1, <3>2, StaysRecorded DEF customer
  <2> QED
      BY <2>2, <2>3
<1>12. ASSUME NEW w \in Sender, MarkSent(w) \/ MarkFailed(w) \/ ScheduleRetry(w) PROVE RecordedOf(m)'
  <2>1. CASE MarkSent(w)
      BY <1>11, <2>1 DEF MarkSent
  <2>2. CASE MarkFailed(w)
    <3>1. pc[w] = "refused" /\ SenderIdle(w) /\ UNCHANGED customer
        BY <2>2 DEF MarkFailed
    <3> QED
        BY <1>11, <2>2, <3>1 DEF MarkFailed
  <2>3. CASE ScheduleRetry(w)
    <3>1. pc[w] = "failed" /\ SenderIdle(w) /\ UNCHANGED customer
        BY <2>3 DEF ScheduleRetry
    <3> QED
        BY <1>11, <2>3, <3>1 DEF ScheduleRetry
  <2> QED
      BY <1>12, <2>1, <2>2, <2>3
<1>13. CASE UNCHANGED vars
    BY <1>2, <1>13, StaysRecorded DEF vars, outbox, senders, customer, AtWork, Working
<1> QED
  <2>1. ASSUME SenderAction PROVE RecordedOf(m)'
      BY <2>1, <1>4, <1>5, <1>6, <1>7, <1>8, <1>9, <1>10, <1>12 DEF SenderAction, SenderStep
  <2> QED
      BY <1>3, <1>13, <2>1, TwoSides

-----------------------------------------------------------------------------
LEMMA Invariant == Spec => []IInv
<1>1. IInv /\ [Next]_vars => IInv'
    BY TypeStep, LedgerStep, ClaimsStep, DeliveriesStep, KeptStep, RecordedStep DEF IInv
<1> QED
    BY InitIInv, <1>1, PTL DEF Spec

(* The tables, the broker and the workers keep their shape; attempts never pass   *)
(* the maximum.                                                                  *)
THEOREM NotificationTypes == Spec => []TypeOK
  BY Invariant, PTL DEF IInv

(* An event is not lost between the broker and the outbox, whatever fails.        *)
THEOREM EventsNotLost == Spec => []NeverLost
<1>1. IInv => NeverLost
    BY DEF IInv, Kept, NeverLost
<1> QED
    BY Invariant, <1>1, PTL

(* While no record slipped, the provider takes an event's message at most once.   *)
THEOREM UnslippedSentOnce == Spec => []SentOnce
<1>1. ASSUME IInv PROVE SentOnce
  <2>1. ASSUME NEW m \in Msg, m \notin slipped PROVE sends[m] <= 1
    <3>1. RecordedOf(m)
        BY <1>1, <2>1, RecordedOfEach DEF IInv
    <3>2. sends[m] = 0 \/ sends[m] = 1
        BY <3>1 DEF RecordedOf
    <3> QED
        BY <3>2
  <2> QED
      BY <2>1 DEF SentOnce
<1> QED
    BY Invariant, <1>1, PTL

(* The pipeline implements NotifyOnce: a notification is written once, decided    *)
(* once, and reopened only after it was given up.                                *)
THEOREM PipelineImplementsOnce == Spec => ExactlyOnce
<1>1. Init => Once!Init
    BY DEF Init, Once!Init
<1>2. IInv /\ [Next]_vars => [Once!Next]_(Once!vars)
  <2> SUFFICES ASSUME IInv, [Next]_vars PROVE Once!Next \/ UNCHANGED Once!vars
      OBVIOUS
  <2> USE DEF IInv
  <2>1. CASE ConsumerAction
    <3>1. ASSUME NEW m \in Msg, Enqueue(m) PROVE Once!Next \/ UNCHANGED Once!vars
      <4>1. CASE m \in processed
          BY <3>1, <4>1 DEF Enqueue, outbox, Once!vars
      <4>2. CASE m \notin processed
        <5>1. fate[m] = "none" /\ fate' = [fate EXCEPT ![m] = "PENDING"]
            BY <3>1, <4>2 DEF Enqueue, Ledger
        <5> DEFINE n == written[m] + 1
        <5>2. n = 1 /\ written' = [written EXCEPT ![m] = n]
            BY <3>1, <4>2 DEF Enqueue, Ledger
        <5> HIDE DEF n
        <5>3. Once!Enqueue(m)
            BY <5>1, <5>2 DEF Once!Enqueue, Once!Becomes
        <5> QED
            BY <5>3 DEF Once!Next
      <4> QED
          BY <4>1, <4>2
    <3>2. CASE UNCHANGED <<processed, written, outbox>>
        BY <3>2 DEF outbox, Once!vars
    <3> QED
        BY <2>1, <3>1, <3>2, ConsumerFrame
  <2>2. CASE SenderAction
    <3>1. written' = written
        BY <2>2, SenderFrame
    <3>2. fate' = fate \/ \E m \in Msg : Once!Decide(m) \/ Once!Resend(m)
        BY <2>2, SenderFate
    <3> QED
        BY <3>1, <3>2 DEF Once!Next, Once!vars
  <2>3. CASE UNCHANGED vars
      BY <2>3 DEF vars, outbox, Once!vars
  <2> QED
      BY <2>1, <2>2, <2>3, TwoSides
<1> QED
    BY Invariant, <1>1, <1>2, PTL DEF Spec, ExactlyOnce, Once!Spec

=============================================================================
