------------------------ MODULE NotificationPipeline ------------------------
(***************************************************************************)
(* From an event on the broker to a message at the customer's: a consumer of  *)
(* RabbitMQ with its retry queue and dead-letter queue, the ProcessedEvent    *)
(* ledger, the NotificationOutbox and the workers that send it                *)
(* (backend/src/infrastructure/consumers, notifications, lifecycle).          *)
(*                                                                         *)
(* The broker holds copies of an event, delivers them to handlers, takes them *)
(* back when the channel closes and repeats what was not acknowledged.  A     *)
(* handler whose channel is gone goes on with its database work, beside the   *)
(* handler of the copy delivered anew.                                       *)
(***************************************************************************)
EXTENDS Integers

CONSTANTS
    Msg,            \* the events, by messageId
    Copy,           \* bound: copies of an event at the broker
    Handler,        \* deliveries in hand at once: the prefetch
    Sender,         \* sender workers
    Nobody,         \* no sender, copy or event
    MaxDeaths,      \* the consumer's maxAttempts
    MaxAttempts,    \* the sender's maxAttempts
    MaxSends        \* bound: messages the provider takes for an event

ASSUME ConstantsAssumption ==
    /\ Nobody \notin Sender
    /\ Nobody \notin Copy
    /\ Nobody \notin Msg
    /\ MaxDeaths \in Nat
    /\ MaxAttempts \in Nat \ {0}
    /\ MaxSends \in Nat

VARIABLES
    \* the broker
    place,      \* [Msg -> [Copy -> where it lies]]
    deaths,     \* [Msg -> [Copy -> countDeaths: the sum over its x-death header]]
    \* the consumer
    consuming,  \* its channel is open and subscribed
    paused,     \* the flag of pauseForInfra
    timer,      \* "resume" on this channel or "reinit", the timer that is set
    doing,      \* [Handler -> step]
    event,      \* [Handler -> the event it handles]
    copy,       \* [Handler -> its copy; Nobody once its channel is gone]
    \* the database
    processed,  \* ProcessedEvent
    written,    \* [Msg -> NotificationOutbox rows written]
    fate,       \* [Msg -> NotificationOutbox.status]
    attempts,   \* [Msg -> Nat]
    due,        \* nextAttemptAt <= now
    owner,      \* lockedBy: the sender that claimed it last
    leased,     \* lockedUntil is in the future
    \* the senders
    pc,
    row,        \* [Sender -> the event whose row it holds]
    tries,      \* [Sender -> attempts as loaded with the claim]
    \* the customer
    sends,      \* [Msg -> messages the provider took]
    slipped     \* history: the events whose record may be behind the provider

broker   == <<place, deaths>>
channel  == <<consuming, paused, timer>>
handlers == <<doing, event, copy>>
outbox   == <<fate, attempts, due, owner, leased>>
senders  == <<pc, row, tries>>
customer == <<sends, slipped>>
consumer == <<broker, channel, handlers>>
vars     == <<consumer, processed, written, outbox, senders, customer>>

TypeOK ==
    /\ place \in [Msg -> [Copy -> {"none", "main", "held", "retry", "dlq"}]]
    /\ deaths \in [Msg -> [Copy -> 0 .. MaxDeaths + 1]]
    /\ \A m \in Msg, c \in Copy : place[m][c] = "retry" => deaths[m][c] <= MaxDeaths
    /\ consuming \in BOOLEAN
    /\ paused \in BOOLEAN
    /\ timer \in {"none", "resume", "reinit"}
    /\ doing \in [Handler -> {"idle", "looking", "writing", "done", "failed", "buried"}]
    /\ event \in [Handler -> Msg \cup {Nobody}]
    /\ copy \in [Handler -> Copy \cup {Nobody}]
    /\ processed \in SUBSET Msg
    /\ written \in [Msg -> Nat]
    /\ fate \in [Msg -> {"none", "PENDING", "SENT", "FAILED"}]
    /\ attempts \in [Msg -> 0 .. MaxAttempts]
    /\ due \in SUBSET Msg
    /\ owner \in [Msg -> Sender \cup {Nobody}]
    /\ leased \in SUBSET Msg
    /\ pc \in [Sender -> {"idle", "sending", "taken", "refused", "failed"}]
    /\ row \in [Sender -> Msg \cup {Nobody}]
    /\ tries \in [Sender -> 0 .. MaxAttempts]
    /\ sends \in [Msg -> 0 .. MaxSends]
    /\ slipped \in SUBSET Msg

(* The events have just been published, one copy each. *)
Init ==
    /\ place \in [Msg -> {f \in [Copy -> {"none", "main"}] : \E c \in Copy : f[c] = "main"}]
    /\ deaths = [m \in Msg |-> [c \in Copy |-> 0]]
    /\ consuming = TRUE
    /\ paused = FALSE
    /\ timer = "none"
    /\ doing = [h \in Handler |-> "idle"]
    /\ event = [h \in Handler |-> Nobody]
    /\ copy = [h \in Handler |-> Nobody]
    /\ processed = {}
    /\ written = [m \in Msg |-> 0]
    /\ fate = [m \in Msg |-> "none"]
    /\ attempts = [m \in Msg |-> 0]
    /\ due = {}
    /\ owner = [m \in Msg |-> Nobody]
    /\ leased = {}
    /\ pc = [w \in Sender |-> "idle"]
    /\ row = [w \in Sender |-> Nobody]
    /\ tries = [w \in Sender |-> 0]
    /\ sends = [m \in Msg |-> 0]
    /\ slipped = {}

-----------------------------------------------------------------------------
(* The broker *)

Moves(m, c, to, count) ==
    /\ place' = [place EXCEPT ![m][c] = to]
    /\ deaths' = [deaths EXCEPT ![m][c] = count]

(* The relay publishes at least once: the same messageId may come again. *)
PublishedAgain(m, c) ==
    /\ place[m][c] = "none"
    /\ Moves(m, c, "main", 0)
    /\ UNCHANGED <<channel, handlers, processed, written, outbox, senders, customer>>

(* The retry queue's TTL dead-letters the message back to the main queue, which    *)
(* is a death too: a round trip counts twice.                                    *)
RetryExpires(m, c) ==
    /\ place[m][c] = "retry"
    /\ Moves(m, c, "main", deaths[m][c] + 1)
    /\ UNCHANGED <<channel, handlers, processed, written, outbox, senders, customer>>

(* redriveConsumerDlq; the headers travel with the message. *)
RedriveDlq(m, c) ==
    /\ place[m][c] = "dlq"
    /\ Moves(m, c, "main", deaths[m][c])
    /\ UNCHANGED <<channel, handlers, processed, written, outbox, senders, customer>>

-----------------------------------------------------------------------------
(* The consumer's deliveries *)

Holds(h) == copy[h] # Nobody

Now(h, step) == doing' = [doing EXCEPT ![h] = step] /\ UNCHANGED <<event, copy>>

Ends(h) ==
    /\ doing' = [doing EXCEPT ![h] = "idle"]
    /\ event' = [event EXCEPT ![h] = Nobody]
    /\ copy' = [copy EXCEPT ![h] = Nobody]

Deliver(h, m, c) ==
    /\ consuming
    /\ doing[h] = "idle"
    /\ place[m][c] = "main"
    /\ Moves(m, c, "held", deaths[m][c])
    /\ doing' = [doing EXCEPT ![h] = "looking"]
    /\ event' = [event EXCEPT ![h] = m]
    /\ copy' = [copy EXCEPT ![h] = c]
    /\ UNCHANGED <<channel, processed, written, outbox, senders, customer>>

(* process: findUnique on ProcessedEvent. *)
Look(h) ==
    /\ doing[h] = "looking"
    /\ Now(h, IF event[h] \in processed THEN "done" ELSE "writing")
    /\ UNCHANGED <<broker, channel, processed, written, outbox, senders, customer>>

(* Mutant: the lookup alone decides, the insert does not conflict. *)
EnqueueUnkeyed(m) ==
    /\ processed' = processed \cup {m}
    /\ written' = [written EXCEPT ![m] = @ + 1]
    /\ fate' = [fate EXCEPT ![m] = "PENDING"]
    /\ due' = due \cup {m}
    /\ UNCHANGED <<attempts, owner, leased>>

(* The transaction: the row and the ProcessedEvent whose key another delivery may *)
(* have taken, in which case neither is written.                                  *)
Enqueue(m) ==
    IF m \in processed
    THEN UNCHANGED <<processed, written, outbox>>
    ELSE /\ processed' = processed \cup {m}
         /\ written' = [written EXCEPT ![m] = @ + 1]
         /\ fate' = [fate EXCEPT ![m] = "PENDING"]
         /\ due' = due \cup {m}
         /\ UNCHANGED <<attempts, owner, leased>>

Write(h) ==
    /\ doing[h] = "writing"
    /\ Enqueue(event[h])
    /\ Now(h, "done")
    /\ UNCHANGED <<broker, channel, senders, customer>>

(* On a closed channel ack, nack and publish throw: the delivery is left alone. *)
Ack(h) ==
    /\ doing[h] = "done"
    /\ IF Holds(h)
       THEN Moves(event[h], copy[h], "none", 0)
       ELSE UNCHANGED broker
    /\ Ends(h)
    /\ UNCHANGED <<channel, processed, written, outbox, senders, customer>>

ProcessFails(h) ==
    /\ doing[h] \in {"looking", "writing"}
    /\ Now(h, "failed")
    /\ UNCHANGED <<broker, channel, processed, written, outbox, senders, customer>>

(* pauseForInfra, for an error of the database or the broker, among them the lost *)
(* answer to a commit: back to the main queue, and the consumer stops for a while. *)
InfraFails(h) ==
    /\ doing[h] \in {"looking", "writing"}
    /\ \/ UNCHANGED <<processed, written, outbox>>
       \/ doing[h] = "writing" /\ Enqueue(event[h])
    /\ IF Holds(h)
       THEN /\ Moves(event[h], copy[h], "main", deaths[event[h]][copy[h]])
            /\ paused' = TRUE
            /\ IF paused
               THEN UNCHANGED <<consuming, timer>>
               ELSE consuming' = FALSE /\ timer' = "resume"
       ELSE UNCHANGED <<broker, channel>>
    /\ Ends(h)
    /\ UNCHANGED <<senders, customer>>

(* nack without requeue: the main queue dead-letters to the retry queue. *)
Nack(h) ==
    /\ doing[h] = "failed" /\ Holds(h)
    /\ deaths[event[h]][copy[h]] < MaxDeaths
    /\ Moves(event[h], copy[h], "retry", deaths[event[h]][copy[h]] + 1)
    /\ Ends(h)
    /\ UNCHANGED <<channel, processed, written, outbox, senders, customer>>

(* deadLetter: a copy is published to the DLQ and confirmed, then the original is *)
(* acknowledged; c is the copy in the DLQ.                                       *)
Bury(h, c) ==
    LET m == event[h]
    IN  /\ doing[h] = "failed" /\ Holds(h)
        /\ deaths[m][copy[h]] >= MaxDeaths
        /\ place[m][c] = "none"
        /\ Moves(m, c, "dlq", deaths[m][copy[h]])
        /\ Now(h, "buried")
        /\ UNCHANGED <<channel, processed, written, outbox, senders, customer>>

Buried(h) ==
    /\ doing[h] = "buried"
    /\ IF Holds(h)
       THEN Moves(event[h], copy[h], "none", 0)
       ELSE UNCHANGED broker
    /\ Ends(h)
    /\ UNCHANGED <<channel, processed, written, outbox, senders, customer>>

(* Mutant: the original is acknowledged although the DLQ did not confirm. *)
BuryFailsAcked(h) ==
    /\ doing[h] = "failed" /\ Holds(h)
    /\ deaths[event[h]][copy[h]] >= MaxDeaths
    /\ Moves(event[h], copy[h], "none", 0)
    /\ Ends(h)
    /\ UNCHANGED <<channel, processed, written, outbox, senders, customer>>

(* The hand-off to the DLQ fails: left unacknowledged, the broker still holds it  *)
(* for this channel.                                                            *)
BuryFails(h) ==
    /\ doing[h] = "failed" /\ Holds(h)
    /\ deaths[event[h]][copy[h]] >= MaxDeaths
    /\ Ends(h)
    /\ UNCHANGED <<broker, channel, processed, written, outbox, senders, customer>>

GhostFails(h) ==
    /\ doing[h] = "failed" /\ ~Holds(h)
    /\ Ends(h)
    /\ UNCHANGED <<broker, channel, processed, written, outbox, senders, customer>>

-----------------------------------------------------------------------------
(* The consumer's channel *)

Resume ==
    /\ timer = "resume"
    /\ consuming' = TRUE
    /\ paused' = FALSE
    /\ timer' = "none"
    /\ UNCHANGED <<broker, handlers, processed, written, outbox, senders, customer>>

(* The broker takes back what was not acknowledged. *)
TakenBack ==
    /\ place' = [m \in Msg |-> [c \in Copy |-> IF place[m][c] = "held" THEN "main" ELSE place[m][c]]]
    /\ UNCHANGED deaths

(* Handlers go on, holding nothing; the resume timer of this channel is idle now. *)
ChannelCloses ==
    /\ timer # "reinit"
    /\ TakenBack
    /\ consuming' = FALSE
    /\ timer' = "reinit"
    /\ copy' = [h \in Handler |-> Nobody]
    /\ UNCHANGED <<paused, doing, event, processed, written, outbox, senders, customer>>

ProcessDies ==
    /\ TakenBack
    /\ consuming' = FALSE
    /\ paused' = FALSE
    /\ timer' = "reinit"
    /\ doing' = [h \in Handler |-> "idle"]
    /\ event' = [h \in Handler |-> Nobody]
    /\ copy' = [h \in Handler |-> Nobody]
    /\ UNCHANGED <<processed, written, outbox, senders, customer>>

Start ==
    /\ timer = "reinit"
    /\ consuming' = TRUE
    /\ timer' = "none"
    /\ UNCHANGED <<broker, paused, handlers, processed, written, outbox, senders, customer>>

-----------------------------------------------------------------------------
(* The senders *)

SenderAt(w, step) == pc' = [pc EXCEPT ![w] = step] /\ UNCHANGED <<row, tries>>

SenderIdle(w) ==
    /\ pc' = [pc EXCEPT ![w] = "idle"]
    /\ row' = [row EXCEPT ![w] = Nobody]
    /\ tries' = [tries EXCEPT ![w] = 0]

(* Mutant: a lease is never taken over. *)
ClaimableUnowned(m) == fate[m] = "PENDING" /\ m \in due /\ owner[m] = Nobody

(* Mutant: the claim does not look at the lease. *)
ClaimableLeased(m) == fate[m] = "PENDING" /\ m \in due

Claimable(m) == fate[m] = "PENDING" /\ m \in due /\ m \notin leased

(* A tick: claimBatch stamps and loads a row.  The breaker's pause only delays it. *)
Claim(w, m) ==
    /\ pc[w] = "idle"
    /\ Claimable(m)
    /\ owner' = [owner EXCEPT ![m] = w]
    /\ leased' = leased \cup {m}
    /\ pc' = [pc EXCEPT ![w] = "sending"]
    /\ row' = [row EXCEPT ![w] = m]
    /\ tries' = [tries EXCEPT ![w] = attempts[m]]
    /\ UNCHANGED <<consumer, processed, written, fate, attempts, due, customer>>

AtWork(w, m) == row[w] = m /\ pc[w] \in {"sending", "taken"}

LeaseExpires(m) ==
    /\ m \in leased
    /\ leased' = leased \ {m}
    /\ slipped' = IF \E w \in Sender : AtWork(w, m) THEN slipped \cup {m} ELSE slipped
    /\ UNCHANGED <<consumer, processed, written, fate, attempts, due, owner, senders, sends>>

BecomesDue(m) ==
    /\ fate[m] = "PENDING" /\ m \notin due
    /\ due' = due \cup {m}
    /\ UNCHANGED <<consumer, processed, written, fate, attempts, owner, leased, senders, customer>>

Taken(m) == sends[m] < MaxSends /\ sends' = [sends EXCEPT ![m] = @ + 1]

(* provider.send *)
ProviderTakes(w) ==
    /\ pc[w] = "sending"
    /\ Taken(row[w])
    /\ SenderAt(w, "taken")
    /\ UNCHANGED <<consumer, processed, written, outbox, slipped>>

(* No recipient, no template, the delivery gate or the provider refuses for good. *)
ProviderRefuses(w) ==
    /\ pc[w] = "sending"
    /\ SenderAt(w, "refused")
    /\ UNCHANGED <<consumer, processed, written, outbox, customer>>

(* A transient failure, or the answer of an accepted message is lost. *)
ProviderFails(w) ==
    /\ pc[w] = "sending"
    /\ \/ UNCHANGED customer
       \/ Taken(row[w]) /\ slipped' = slipped \cup {row[w]}
    /\ SenderAt(w, "failed")
    /\ UNCHANGED <<consumer, processed, written, outbox>>

(* fencedWriteBack: every claim has a token of its own. *)
Owns(w) == owner[row[w]] = w

FencedWriteBack(w, status, count, next) ==
    LET m == row[w]
    IN  IF Owns(w)
        THEN /\ fate' = [fate EXCEPT ![m] = status]
             /\ attempts' = [attempts EXCEPT ![m] = count]
             /\ due' = next
             /\ owner' = [owner EXCEPT ![m] = Nobody]
             /\ leased' = leased \ {m}
        ELSE UNCHANGED outbox

(* A sender that lost its lease records nothing of the message it has sent. *)
MarkSent(w) ==
    /\ pc[w] = "taken"
    /\ FencedWriteBack(w, "SENT", attempts[row[w]], due)
    /\ SenderIdle(w)
    /\ UNCHANGED <<consumer, processed, written, customer>>

(* The write-back itself fails: the message is scheduled again. *)
MarkSentFails(w) ==
    /\ pc[w] = "taken"
    /\ SenderAt(w, "failed")
    /\ slipped' = slipped \cup {row[w]}
    /\ UNCHANGED <<consumer, processed, written, outbox, sends>>

MarkFailed(w) ==
    /\ pc[w] = "refused"
    /\ FencedWriteBack(w, "FAILED", tries[w] + 1, due)
    /\ SenderIdle(w)
    /\ UNCHANGED <<consumer, processed, written, customer>>

(* Mutant: a message whose attempts are spent is scheduled once more. *)
ScheduleRetryOnce(w) ==
    /\ pc[w] = "failed"
    /\ FencedWriteBack(w, IF tries[w] + 1 > MaxAttempts THEN "FAILED" ELSE "PENDING", tries[w] + 1, due \ {row[w]})
    /\ SenderIdle(w)
    /\ UNCHANGED <<consumer, processed, written, customer>>

ScheduleRetry(w) ==
    /\ pc[w] = "failed"
    /\ IF tries[w] + 1 >= MaxAttempts
       THEN FencedWriteBack(w, "FAILED", tries[w] + 1, due)
       ELSE FencedWriteBack(w, "PENDING", tries[w] + 1, due \ {row[w]})
    /\ SenderIdle(w)
    /\ UNCHANGED <<consumer, processed, written, customer>>

(* The worker dies, or a write-back of a failure throws: the tick ends. *)
SenderDies(w) ==
    /\ pc[w] # "idle"
    /\ SenderIdle(w)
    /\ slipped' = IF pc[w] = "taken" THEN slipped \cup {row[w]} ELSE slipped
    /\ UNCHANGED <<consumer, processed, written, outbox, sends>>

(* redriveFailedNotifications, also by the Notification Center's resend. *)
Resend(m) ==
    /\ fate[m] = "FAILED"
    /\ fate' = [fate EXCEPT ![m] = "PENDING"]
    /\ attempts' = [attempts EXCEPT ![m] = 0]
    /\ due' = due \cup {m}
    /\ owner' = [owner EXCEPT ![m] = Nobody]
    /\ leased' = leased \ {m}
    /\ UNCHANGED <<consumer, processed, written, senders, customer>>

-----------------------------------------------------------------------------
HandlerStep(h) ==
    \/ Look(h)
    \/ Write(h)
    \/ Ack(h)
    \/ ProcessFails(h)
    \/ InfraFails(h)
    \/ Nack(h)
    \/ \E c \in Copy : Bury(h, c)
    \/ Buried(h)
    \/ BuryFails(h)
    \/ GhostFails(h)

SenderStep(w) ==
    \/ ProviderTakes(w)
    \/ ProviderRefuses(w)
    \/ ProviderFails(w)
    \/ MarkSent(w)
    \/ MarkSentFails(w)
    \/ MarkFailed(w)
    \/ ScheduleRetry(w)

Next ==
    \/ \E m \in Msg : \/ \E c \in Copy : \/ PublishedAgain(m, c)
                                         \/ RetryExpires(m, c)
                                         \/ RedriveDlq(m, c)
                                         \/ \E h \in Handler : Deliver(h, m, c)
                      \/ \E w \in Sender : Claim(w, m)
                      \/ LeaseExpires(m)
                      \/ BecomesDue(m)
                      \/ Resend(m)
    \/ \E h \in Handler : HandlerStep(h)
    \/ \E w \in Sender : SenderStep(w) \/ SenderDies(w)
    \/ Resume
    \/ Start
    \/ ChannelCloses
    \/ ProcessDies

Spec == Init /\ [][Next]_vars

(* What the platform gives: queues are served and TTLs run out, a handler and a   *)
(* sender that do not die go on, timers fire, leases and pauses end, and the      *)
(* broker closes a channel that keeps a message unacknowledged for too long.      *)
Orphaned == \E m \in Msg, c \in Copy :
                place[m][c] = "held" /\ \A h \in Handler : event[h] # m \/ copy[h] # c

Fairness ==
    /\ WF_vars(Resume)
    /\ WF_vars(Start)
    /\ WF_vars(Orphaned /\ ChannelCloses)
    /\ \A m \in Msg : /\ WF_vars(LeaseExpires(m))
                      /\ WF_vars(BecomesDue(m))
                      /\ WF_vars(\E w \in Sender : Claim(w, m))
                      /\ \A c \in Copy : /\ WF_vars(RetryExpires(m, c))
                                         /\ SF_vars(\E h \in Handler : Deliver(h, m, c))
    /\ \A h \in Handler : WF_vars(HandlerStep(h))
    /\ \A w \in Sender : WF_vars(SenderStep(w))

FairSpec == Spec /\ Fairness

-----------------------------------------------------------------------------
(* No event is lost: until its notification is written, some copy of it is in a   *)
(* queue or in a delivery the broker will take back.                             *)
NeverLost == \A m \in Msg : m \in processed \/ \E c \in Copy : place[m][c] # "none"

(* The ledger's promise ("exactly-once enqueue"), and what becomes of the row: a   *)
(* stale sender never moves a notification another one has decided.              *)
Once == INSTANCE NotifyOnce WITH written <- written, fate <- fate

ExactlyOnce == Once!Spec

(* The customer hears an event a second time only if the record of the first was  *)
(* lost: a lease that ran out, a failed write-back, a lost answer or a crash.      *)
SentOnce == \A m \in Msg : m \in slipped \/ sends[m] <= 1

(* Errors, deaths, closing channels, repeats and leases that run out on a sender  *)
(* that is still at work.                                                        *)
Disturbance ==
    \/ \E h \in Handler : ProcessFails(h) \/ InfraFails(h) \/ BuryFails(h)
    \/ ChannelCloses /\ ~Orphaned
    \/ ProcessDies
    \/ \E m \in Msg : \/ \E c \in Copy : PublishedAgain(m, c) \/ RedriveDlq(m, c)
                      \/ LeaseExpires(m) /\ \E w \in Sender : AtWork(w, m)
                      \/ Resend(m)
    \/ \E w \in Sender : SenderDies(w)

(* Once disturbances stop, every event's notification is decided, or the event     *)
(* waits in the dead-letter queue for an operator.                               *)
EventuallyTold ==
    <>[][~Disturbance]_vars =>
        \A m \in Msg : <>(fate[m] \in {"SENT", "FAILED"} \/ \E c \in Copy : place[m][c] = "dlq")

(* The inductive invariant behind the safety properties. *)

(* The ledger and the outbox were written together. *)
Ledger ==
    \A m \in Msg : /\ fate[m] = "none" <=> m \notin processed
                   /\ written[m] = IF m \in processed THEN 1 ELSE 0

(* A claimed row is PENDING with attempts left, a row in hand was PENDING. *)
Claims ==
    /\ \A m \in Msg : /\ fate[m] \in {"none", "PENDING"} => attempts[m] < MaxAttempts
                      /\ owner[m] # Nobody => fate[m] = "PENDING"
    /\ \A w \in Sender : pc[w] # "idle" => /\ row[w] \in Msg
                                           /\ fate[row[w]] # "none"
                                           /\ tries[w] < MaxAttempts

(* What a handler holds the broker keeps for it alone, and what it is done with   *)
(* has been processed.                                                           *)
Deliveries ==
    /\ \A h \in Handler : /\ doing[h] # "idle" => event[h] \in Msg
                          /\ doing[h] = "done" => event[h] \in processed
                          /\ Holds(h) => doing[h] # "idle" /\ place[event[h]][copy[h]] = "held"
    /\ \A g, h \in Handler : Holds(h) /\ event[g] = event[h] /\ copy[g] = copy[h] => g = h

Burying(h, m, c) == doing[h] = "buried" /\ event[h] = m /\ copy[h] = c

(* An event not yet processed has a copy beside those already handed to the DLQ. *)
Kept ==
    \A m \in Msg \ processed : \E c \in Copy :
        place[m][c] # "none" /\ \A h \in Handler : ~Burying(h, m, c)

(* While nothing slipped, the sender at work owns the row, and the one message    *)
(* taken is recorded or about to be.                                             *)
Recorded ==
    \A m \in Msg \ slipped :
        /\ \A w \in Sender : AtWork(w, m) => owner[m] = w /\ m \in leased
        /\ \/ sends[m] = 0
           \/ /\ sends[m] = 1
              /\ fate[m] = "SENT" \/ \E w \in Sender : row[w] = m /\ pc[w] = "taken"

IInv == TypeOK /\ Ledger /\ Claims /\ Deliveries /\ Kept /\ Recorded

=============================================================================
