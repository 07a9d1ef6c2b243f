---------------------------- MODULE OutboxRelay ----------------------------
(***************************************************************************)
(* The transactional outbox and the relay that drains it to RabbitMQ       *)
(* (backend/src/infrastructure/outbox/outbox-relay.worker.ts), with the     *)
(* redrive tool and the retention sweep that also write OutboxEvent         *)
(* (backend/src/infrastructure/lifecycle).                                  *)
(*                                                                         *)
(* A row is appended PENDING by a business transaction.  A relay stamps a   *)
(* batch with a fresh claim token and a lease, loads what it stamped, and   *)
(* for each row publishes with a broker confirm and then writes the outcome *)
(* back, fenced on the token.  Nothing is held across those steps, so a     *)
(* lease may run out, another relay may take the row over, the broker may   *)
(* accept a message and lose the confirm, a write-back may fail, and the    *)
(* process may die, at any point between them.                              *)
(*                                                                         *)
(* Time is abstracted to what the code's comparisons tell apart: whether a  *)
(* row's nextAttemptAt has come (due) and whether its lockedUntil is null,  *)
(* in the future or in the past (lease).                                    *)
(***************************************************************************)
EXTENDS Integers, Sequences, FiniteSets

CONSTANTS
    NumRows,        \* rows are 1..NumRows, numbered by createdAt
    Relay,          \* relay processes polling the same table
    Token,          \* claim tokens (workerId#uuid)
    NoToken,        \* lockedBy IS NULL
    BatchSize,      \* OUTBOX_BATCH_SIZE
    MaxAttempts     \* OutboxEvent.maxAttempts

ASSUME ConstantsAssumption ==
    /\ NumRows \in Nat
    /\ BatchSize \in Nat \ {0}
    /\ MaxAttempts \in Nat \ {0}
    /\ NoToken \notin Token

Row == 1 .. NumRows

VARIABLES
    status,     \* [Row -> ABSENT (not yet inserted) | PENDING | PUBLISHED | FAILED | DELETED]
    attempts,   \* [Row -> 0 .. MaxAttempts], OutboxEvent.attempts
    due,        \* [Row -> BOOLEAN], nextAttemptAt <= now
    lease,      \* [Row -> none | live | expired], lockedUntil against now
    lockedBy,   \* [Row -> Token \cup {NoToken}]
    accepted,   \* rows whose message the broker has taken at least once
    pc,         \* [Relay -> idle | stamped | publish | confirmed | errored]
    token,      \* [Relay -> Token \cup {NoToken}], the running tick's claimToken
    batch       \* [Relay -> SUBSET Snapshot], the loaded rows still to do

dbVars    == <<status, attempts, due, lease, lockedBy>>
relayVars == <<pc, token, batch>>
vars      == <<dbVars, accepted, relayVars>>

RowStatus == {"ABSENT", "PENDING", "PUBLISHED", "FAILED", "DELETED"}
Snapshot  == [row : Row, attempts : Nat]

TypeOK ==
    /\ status \in [Row -> RowStatus]
    /\ attempts \in [Row -> 0 .. MaxAttempts]
    /\ due \in [Row -> BOOLEAN]
    /\ lease \in [Row -> {"none", "live", "expired"}]
    /\ lockedBy \in [Row -> Token \cup {NoToken}]
    /\ accepted \in SUBSET Row
    /\ pc \in [Relay -> {"idle", "stamped", "publish", "confirmed", "errored"}]
    /\ token \in [Relay -> Token \cup {NoToken}]
    /\ batch \in [Relay -> SUBSET Snapshot]

Init ==
    /\ status = [r \in Row |-> "ABSENT"]
    /\ attempts = [r \in Row |-> 0]
    /\ due = [r \in Row |-> TRUE]
    /\ lease = [r \in Row |-> "none"]
    /\ lockedBy = [r \in Row |-> NoToken]
    /\ accepted = {}
    /\ pc = [w \in Relay |-> "idle"]
    /\ token = [w \in Relay |-> NoToken]
    /\ batch = [w \in Relay |-> {}]

-----------------------------------------------------------------------------
(* The tables and the passing of time *)

(* A business transaction commits its OutboxEvent; createdAt orders the rows. *)
InsertEvent(r) ==
    /\ status[r] = "ABSENT"
    /\ \A q \in Row : q < r => status[q] # "ABSENT"
    /\ status' = [status EXCEPT ![r] = "PENDING"]
    /\ UNCHANGED <<attempts, due, lease, lockedBy, accepted, relayVars>>

(* now passes lockedUntil *)
LeaseExpires(r) ==
    /\ lease[r] = "live"
    /\ lease' = [lease EXCEPT ![r] = "expired"]
    /\ UNCHANGED <<status, attempts, due, lockedBy, accepted, relayVars>>

(* now reaches nextAttemptAt *)
BecomesDue(r) ==
    /\ ~due[r]
    /\ due' = [due EXCEPT ![r] = TRUE]
    /\ UNCHANGED <<status, attempts, lease, lockedBy, accepted, relayVars>>

-----------------------------------------------------------------------------
(* Relay: claimBatch, then publishRow for each row, then the write-back *)

(* Mutant: a crashed relay's lease is never taken over. *)
ClaimableUnlocked(r) ==
    /\ status[r] = "PENDING"
    /\ due[r]
    /\ lease[r] = "none"

Claimable(r) ==
    /\ status[r] = "PENDING"
    /\ due[r]
    /\ lease[r] # "live"

(* The oldest BatchSize claimable rows that no one has locked right now. *)
Oldest(skipped) ==
    LET eligible == {r \in Row \ skipped : Claimable(r)}
    IN  {r \in eligible : Cardinality({q \in eligible : q < r}) < BatchSize}

(* A loaded row as the relay will use it, and the one to do now: the batch is *)
(* worked through in createdAt order.                                         *)
First(w) == {s \in batch[w] : \A t \in batch[w] : s.row <= t.row}

(* Rows that another relay may be writing back at this instant: SKIP LOCKED   *)
(* passes over them.                                                          *)
BeingWritten(w) == {s.row : s \in UNION {First(v) : v \in Relay \ {w}}}

TokensInUse == {lockedBy[r] : r \in Row} \cup {token[w] : w \in Relay}

(* The stamping UPDATE.  The uuid in the token is fresh: no row and no running *)
(* relay carries it.                                                          *)
ClaimBatch(w, skipped) ==
    LET chosen == Oldest(skipped)
        fresh  == CHOOSE t \in Token : t \notin TokensInUse
    IN  /\ pc[w] = "idle"
        /\ chosen # {}
        /\ Token \ TokensInUse # {}
        /\ token' = [token EXCEPT ![w] = fresh]
        /\ lockedBy' = [r \in Row |-> IF r \in chosen THEN fresh ELSE lockedBy[r]]
        /\ lease' = [r \in Row |-> IF r \in chosen THEN "live" ELSE lease[r]]
        /\ pc' = [pc EXCEPT ![w] = "stamped"]
        /\ UNCHANGED <<status, attempts, due, accepted, batch>>

(* The rows the findMany returns. *)
Stamped(w) ==
    {[row |-> r, attempts |-> attempts[r]] :
        r \in {r \in Row : lockedBy[r] = token[w] /\ status[r] = "PENDING"}}

(* The tick goes on with the rows left, or ends. *)
ContinueWith(w, rest) ==
    /\ batch' = [batch EXCEPT ![w] = rest]
    /\ pc' = [pc EXCEPT ![w] = IF rest = {} THEN "idle" ELSE "publish"]
    /\ token' = [token EXCEPT ![w] = IF rest = {} THEN NoToken ELSE @]

LoadBatch(w) ==
    /\ pc[w] = "stamped"
    /\ ContinueWith(w, Stamped(w))
    /\ UNCHANGED <<dbVars, accepted>>

(* Mutant: the publish is not awaited for its confirm. *)
PublishUnconfirmed(w, s) ==
    /\ pc[w] = "publish"
    /\ accepted' \in {accepted, accepted \cup {s.row}}
    /\ pc' = [pc EXCEPT ![w] = "confirmed"]
    /\ UNCHANGED <<dbVars, token, batch>>

(* The broker takes the message and its confirm arrives. *)
PublishConfirmed(w, s) ==
    /\ pc[w] = "publish"
    /\ accepted' = accepted \cup {s.row}
    /\ pc' = [pc EXCEPT ![w] = "confirmed"]
    /\ UNCHANGED <<dbVars, token, batch>>

(* publishWithConfirm throws: the broker never got the message, or took it and *)
(* the confirm was lost with the channel.                                      *)
PublishErrors(w, s) ==
    /\ pc[w] = "publish"
    /\ accepted' \in {accepted, accepted \cup {s.row}}
    /\ pc' = [pc EXCEPT ![w] = "errored"]
    /\ UNCHANGED <<dbVars, token, batch>>

(* Mutants: the write-back is keyed by id alone, or by id and status. *)
OwnsLeaseUnfenced(w, s) == TRUE
OwnsLeaseByStatus(w, s) == status[s.row] = "PENDING"

(* fencedWriteBack: a relay that has lost the row's lease changes nothing. *)
OwnsLease(w, s) == lockedBy[s.row] = token[w]

FencedWriteBack(w, s, newStatus, newAttempts, newDue) ==
    IF OwnsLease(w, s)
    THEN /\ status' = [status EXCEPT ![s.row] = newStatus]
         /\ attempts' = [attempts EXCEPT ![s.row] = newAttempts]
         /\ due' = [due EXCEPT ![s.row] = newDue]
         /\ lease' = [lease EXCEPT ![s.row] = "none"]
         /\ lockedBy' = [lockedBy EXCEPT ![s.row] = NoToken]
    ELSE UNCHANGED dbVars

MarkPublished(w, s) ==
    /\ pc[w] = "confirmed"
    /\ FencedWriteBack(w, s, "PUBLISHED", attempts[s.row], due[s.row])
    /\ ContinueWith(w, batch[w] \ {s})
    /\ UNCHANGED accepted

(* The write-back itself throws: publishRow's catch treats it as a failed publish. *)
MarkPublishedErrors(w) ==
    /\ pc[w] = "confirmed"
    /\ pc' = [pc EXCEPT ![w] = "errored"]
    /\ UNCHANGED <<dbVars, accepted, token, batch>>

(* Mutant: one attempt too many. *)
ScheduleRetryOffByOne(w, s) ==
    /\ pc[w] = "errored"
    /\ IF s.attempts + 1 > MaxAttempts
       THEN FencedWriteBack(w, s, "FAILED", s.attempts + 1, due[s.row])
       ELSE \E soon \in BOOLEAN :
                FencedWriteBack(w, s, status[s.row], s.attempts + 1, soon)
    /\ ContinueWith(w, batch[w] \ {s})
    /\ UNCHANGED accepted

(* attempts comes from the snapshot taken at load; full jitter makes any delay  *)
(* from 0 up possible, so the row may be due again at once.                     *)
ScheduleRetry(w, s) ==
    /\ pc[w] = "errored"
    /\ IF s.attempts + 1 >= MaxAttempts
       THEN FencedWriteBack(w, s, "FAILED", s.attempts + 1, due[s.row])
       ELSE \E soon \in BOOLEAN :
                FencedWriteBack(w, s, status[s.row], s.attempts + 1, soon)
    /\ ContinueWith(w, batch[w] \ {s})
    /\ UNCHANGED accepted

(* The load or scheduleRetry throws: the tick is abandoned, its rows stay leased. *)
TickFails(w) ==
    /\ pc[w] \in {"stamped", "errored"}
    /\ ContinueWith(w, {})
    /\ UNCHANGED <<dbVars, accepted>>

(* The process dies and is restarted: the tick is gone, the leases stay. *)
Crash(w) ==
    /\ pc[w] # "idle"
    /\ ContinueWith(w, {})
    /\ UNCHANGED <<dbVars, accepted>>

-----------------------------------------------------------------------------
(* Lifecycle: redrive and retention *)

RedriveFailed(r) ==
    /\ status[r] = "FAILED"
    /\ status' = [status EXCEPT ![r] = "PENDING"]
    /\ attempts' = [attempts EXCEPT ![r] = 0]
    /\ due' = [due EXCEPT ![r] = TRUE]
    /\ lease' = [lease EXCEPT ![r] = "none"]
    /\ lockedBy' = [lockedBy EXCEPT ![r] = NoToken]
    /\ UNCHANGED <<accepted, relayVars>>

RetentionDelete(r) ==
    /\ status[r] \in {"PUBLISHED", "FAILED"}
    /\ lease[r] = "none"
    /\ status' = [status EXCEPT ![r] = "DELETED"]
    /\ lockedBy' = [lockedBy EXCEPT ![r] = NoToken]
    /\ UNCHANGED <<attempts, due, lease, accepted, relayVars>>

-----------------------------------------------------------------------------
RelayStep(w) ==
    \/ \E skipped \in SUBSET BeingWritten(w) : ClaimBatch(w, skipped)
    \/ LoadBatch(w)
    \/ MarkPublishedErrors(w)
    \/ TickFails(w)
    \/ \E s \in First(w) : \/ PublishConfirmed(w, s)
                           \/ PublishErrors(w, s)
                           \/ MarkPublished(w, s)
                           \/ ScheduleRetry(w, s)

Next ==
    \/ \E r \in Row : \/ InsertEvent(r)
                      \/ LeaseExpires(r)
                      \/ BecomesDue(r)
                      \/ RedriveFailed(r)
                      \/ RetentionDelete(r)
    \/ \E w \in Relay : RelayStep(w) \/ Crash(w)

Spec == Init /\ [][Next]_vars

(* What the scheduling gives.  Time passes.  A live process keeps ticking        *)
(* (runTick always reschedules itself), a claim that meets no lock sees every    *)
(* claimable row, and the broker answers or errors.  A relay that keeps getting  *)
(* to a row does not lose the lease before every single write-back (leaseMs is   *)
(* 30 s against one publish).                                                    *)
Fairness ==
    /\ \A r \in Row : WF_vars(LeaseExpires(r)) /\ WF_vars(BecomesDue(r))
    /\ \A w \in Relay :
        /\ WF_vars(ClaimBatch(w, {}))
        /\ WF_vars(LoadBatch(w))
        /\ WF_vars(\E s \in First(w) : PublishConfirmed(w, s) \/ PublishErrors(w, s))
        /\ WF_vars(\E s \in First(w) : MarkPublished(w, s) \/ ScheduleRetry(w, s))
        /\ \A r \in Row :
            SF_vars(\E s \in First(w) :
                        /\ s.row = r /\ OwnsLease(w, s)
                        /\ (MarkPublished(w, s) \/ ScheduleRetry(w, s)))

FairSpec == Spec /\ Fairness

-----------------------------------------------------------------------------
(* At-least-once: "a crash at any point causes re-publish, never loss".  An     *)
(* event leaves PENDING without its message having reached the broker only      *)
(* when its MaxAttempts have all been spent.                                    *)
NeverLost ==
    \A r \in Row :
        (status[r] \in {"PUBLISHED", "FAILED", "DELETED"} /\ r \notin accepted)
            => attempts[r] >= MaxAttempts

(* The point of the fenced write-back: once a row is PUBLISHED only retention   *)
(* touches it; no relay that lost its lease can put it back or fail it.         *)
PublishedIsFinal ==
    [][\A r \in Row : status[r] = "PUBLISHED"
                          => status'[r] \in {"PUBLISHED", "DELETED"}]_vars

(* The retry budget is spent one attempt at a time although every relay writes  *)
(* back the count it loaded: no lost update, no rewind, and only a redrive of a *)
(* FAILED row resets it.                                                        *)
AttemptsExact ==
    [][\A r \in Row : \/ attempts'[r] = attempts[r]
                     \/ (status[r] = "PENDING" /\ attempts'[r] = attempts[r] + 1)
                     \/ (status[r] = "FAILED" /\ attempts'[r] = 0)]_vars

Log == INSTANCE EventLog

(* Relays, leases, tokens and batches are only machinery: what becomes of an event *)
(* is what EventLog allows, in which an event is published, retried, given up,    *)
(* redriven or deleted at once, and each attempt counts.                          *)
AtLeastOnce == Log!Spec

(* The inductive invariant behind the properties above. *)
Budget == \A r \in Row : status[r] \in {"ABSENT", "PENDING"} => attempts[r] < MaxAttempts

LockedIsPending == \A r \in Row : lockedBy[r] # NoToken => status[r] = "PENDING"

TickShape ==
    \A w \in Relay : /\ pc[w] = "idle" <=> token[w] = NoToken
                     /\ batch[w] # {} => pc[w] \in {"publish", "confirmed", "errored"}

TokensDistinct ==
    \A v, w \in Relay : v # w /\ token[v] = token[w] => token[v] = NoToken

(* While a relay owns a row's lease, what it loaded is what the table holds. *)
SnapshotFresh ==
    \A w \in Relay : \A s \in batch[w] :
        OwnsLease(w, s) => s.attempts = attempts[s.row]

ConfirmedAccepted ==
    \A w \in Relay : pc[w] = "confirmed" => \A s \in First(w) : s.row \in accepted

IInv ==
    /\ TypeOK
    /\ NeverLost
    /\ Budget
    /\ LockedIsPending
    /\ TickShape
    /\ TokensDistinct
    /\ SnapshotFresh
    /\ ConfirmedAccepted

(* A crash, a tick the database fails, or an operator's redrive. *)
Disturbance ==
    \/ \E w \in Relay : Crash(w) \/ TickFails(w)
    \/ \E r \in Row : RedriveFailed(r)

(* Once the disturbances stop, every committed event is published or given up   *)
(* on, whatever leases they left behind.                                        *)
EventuallySettled ==
    <>[][~Disturbance]_vars
        => \A r \in Row : status[r] = "PENDING" ~> status[r] # "PENDING"

=============================================================================
