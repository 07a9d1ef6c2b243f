------------------------- MODULE OutboxRelayProofs -------------------------
(***************************************************************************)
(* The outbox relay never loses an event, never takes back PUBLISHED and    *)
(* spends its retry budget exactly, for any number of rows, relays, tokens  *)
(* and attempts.                                                            *)
(***************************************************************************)
EXTENDS OutboxRelay, TLAPS

(* The initial state satisfies the inductive invariant. *)
LEMMA InitIInv == Init => IInv
  BY ConstantsAssumption
  DEF Init, IInv, TypeOK, RowStatus, NeverLost, Budget, LockedIsPending, TickShape,
      TokensDistinct, SnapshotFresh, ConfirmedAccepted

(* A claim's token is one nobody carries. *)
LEMMA FreshToken ==
  ASSUME Token \ TokensInUse # {}
  PROVE  \E fresh \in Token :
            /\ fresh = CHOOSE t \in Token : t \notin TokensInUse
            /\ \A r \in Row : lockedBy[r] # fresh
            /\ \A v \in Relay : token[v] # fresh
  BY DEF TokensInUse

(* A relay with rows still to do carries a token, and its rows are rows. *)
LEMMA Working ==
  ASSUME IInv, NEW v \in Relay, NEW s \in batch[v]
  PROVE  /\ token[v] # NoToken
         /\ s.row \in Row /\ s.attempts \in Nat
         /\ OwnsLease(v, s) => /\ status[s.row] = "PENDING"
                               /\ s.attempts = attempts[s.row]
                               /\ attempts[s.row] < MaxAttempts
  BY DEF IInv, TypeOK, Snapshot, TickShape, LockedIsPending, SnapshotFresh, OwnsLease, Budget

(* A claim preserves the invariant: stale snapshots of the rows it takes over *)
(* stop owning their lease.                                                   *)
LEMMA ClaimIInv ==
  ASSUME IInv, NEW w \in Relay, NEW skipped, ClaimBatch(w, skipped)
  PROVE  IInv'
<1> DEFINE chosen == Oldest(skipped)
<1>1. PICK fresh \in Token :
        /\ fresh = CHOOSE t \in Token : t \notin TokensInUse
        /\ \A r \in Row : lockedBy[r] # fresh
        /\ \A v \in Relay : token[v] # fresh
    BY FreshToken DEF ClaimBatch
<1>2. /\ pc[w] = "idle"
      /\ token' = [token EXCEPT ![w] = fresh]
      /\ lockedBy' = [r \in Row |-> IF r \in chosen THEN fresh ELSE lockedBy[r]]
      /\ lease' = [r \in Row |-> IF r \in chosen THEN "live" ELSE lease[r]]
      /\ pc' = [pc EXCEPT ![w] = "stamped"]
      /\ UNCHANGED <<status, attempts, due, accepted, batch>>
    BY <1>1 DEF ClaimBatch
<1>3. \A r \in chosen : status[r] = "PENDING"
    BY DEF Oldest, Claimable
<1>4. fresh # NoToken
    BY ConstantsAssumption
<1> HIDE DEF chosen
<1>5. TypeOK'
    BY <1>2 DEF IInv, TypeOK
<1>6. (NeverLost /\ Budget)'
    BY <1>2 DEF IInv, NeverLost, Budget
<1>7. LockedIsPending'
    BY <1>2, <1>3 DEF IInv, LockedIsPending
<1>8. TickShape'
    BY <1>2, <1>4 DEF IInv, TypeOK, TickShape
<1>9. TokensDistinct'
    <2> SUFFICES ASSUME NEW u \in Relay, NEW v \in Relay, u # v, token'[u] = token'[v]
                 PROVE  token'[u] = NoToken
        BY DEF TokensDistinct
    <2>1. \A x \in Relay : token'[x] = IF x = w THEN fresh ELSE token[x]
        BY <1>2 DEF IInv, TypeOK
    <2> QED
        BY <1>1, <2>1 DEF IInv, TokensDistinct
<1>10. SnapshotFresh'
    <2> SUFFICES ASSUME NEW v \in Relay, NEW s \in batch'[v], lockedBy'[s.row] = token'[v]
                 PROVE  s.attempts = attempts'[s.row]
        BY DEF SnapshotFresh, OwnsLease
    <2>1. s \in batch[v] /\ v # w
        BY <1>2 DEF IInv, TickShape
    <2>2. token'[v] = token[v] /\ s.row \in Row
        BY <2>1, <1>2, Working DEF IInv, TypeOK
    <2>3. lockedBy[s.row] = token[v]
        BY <1>1, <1>2, <2>2
    <2> QED
        BY <1>2, <2>1, <2>3 DEF IInv, SnapshotFresh, OwnsLease
<1>11. ConfirmedAccepted'
    BY <1>2 DEF IInv, TypeOK, ConfirmedAccepted, First
<1> QED
    BY <1>5, <1>6, <1>7, <1>8, <1>9, <1>10, <1>11 DEF IInv

(* A fenced write-back preserves the invariant when the outcome it writes is  *)
(* one the relay may report.                                                  *)
LEMMA WriteBackIInv ==
  ASSUME IInv, NEW w \in Relay, NEW s \in batch[w],
         NEW newStatus, NEW newAttempts, NEW newDue,
         FencedWriteBack(w, s, newStatus, newAttempts, newDue),
         ContinueWith(w, batch[w] \ {s}), accepted' = accepted,
         OwnsLease(w, s) =>
            /\ newDue \in BOOLEAN
            /\ newAttempts \in 0 .. MaxAttempts
            /\ \/ newStatus = "PENDING" /\ newAttempts < MaxAttempts
               \/ newStatus = "FAILED" /\ newAttempts >= MaxAttempts
               \/ newStatus = "PUBLISHED" /\ s.row \in accepted
  PROVE  IInv'
<1>1. s.row \in Row /\ token[w] # NoToken
    BY Working
<1>2. /\ batch' = [batch EXCEPT ![w] = batch[w] \ {s}]
      /\ pc' = [pc EXCEPT ![w] = IF batch[w] \ {s} = {} THEN "idle" ELSE "publish"]
      /\ token' = [token EXCEPT ![w] = IF batch[w] \ {s} = {} THEN NoToken ELSE token[w]]
    BY DEF ContinueWith, IInv, TypeOK
<1>3. TickShape' /\ TokensDistinct' /\ ConfirmedAccepted'
    <2>1. TickShape'
        BY <1>1, <1>2 DEF IInv, TypeOK, TickShape
    <2>2. TokensDistinct'
        BY <1>1, <1>2 DEF IInv, TypeOK, TokensDistinct
    <2>3. ConfirmedAccepted'
        BY <1>2 DEF IInv, TypeOK, ConfirmedAccepted, First
    <2> QED BY <2>1, <2>2, <2>3
<1>4. /\ pc' \in [Relay -> {"idle", "stamped", "publish", "confirmed", "errored"}]
      /\ token' \in [Relay -> Token \cup {NoToken}]
      /\ batch' \in [Relay -> SUBSET Snapshot]
      /\ accepted' \in SUBSET Row
    BY <1>2 DEF IInv, TypeOK
<1>5. \A v \in Relay : \A t \in batch'[v] : t \in batch[v] /\ token'[v] = token[v]
    BY <1>2 DEF IInv, TypeOK
<1>6. CASE ~OwnsLease(w, s)
    <2>1. UNCHANGED <<status, attempts, due, lease, lockedBy>>
        BY <1>6 DEF FencedWriteBack, dbVars
    <2>2. TypeOK' /\ NeverLost' /\ Budget' /\ LockedIsPending'
        BY <2>1, <1>4 DEF IInv, TypeOK, NeverLost, Budget, LockedIsPending
    <2>3. SnapshotFresh'
        BY <2>1, <1>5 DEF IInv, SnapshotFresh, OwnsLease
    <2> QED
        BY <1>3, <2>2, <2>3 DEF IInv
<1>7. CASE OwnsLease(w, s)
    <2>1. /\ status' = [status EXCEPT ![s.row] = newStatus]
          /\ attempts' = [attempts EXCEPT ![s.row] = newAttempts]
          /\ due' = [due EXCEPT ![s.row] = newDue]
          /\ lease' = [lease EXCEPT ![s.row] = "none"]
          /\ lockedBy' = [lockedBy EXCEPT ![s.row] = NoToken]
        BY <1>7 DEF FencedWriteBack
    <2>2. TypeOK'
        BY <1>1, <1>4, <1>7, <2>1 DEF IInv, TypeOK, RowStatus
    <2>3. NeverLost' /\ Budget'
        BY <1>1, <1>7, <2>1 DEF IInv, TypeOK, NeverLost, Budget
    <2>4. LockedIsPending'
        BY <1>1, <2>1 DEF IInv, TypeOK, LockedIsPending
    <2>5. SnapshotFresh'
        <3> SUFFICES ASSUME NEW v \in Relay, NEW t \in batch'[v],
                            lockedBy'[t.row] = token'[v]
                     PROVE  t.attempts = attempts'[t.row]
            BY DEF SnapshotFresh, OwnsLease
        <3>1. t \in batch[v] /\ token'[v] = token[v] /\ t.row \in Row /\ token[v] # NoToken
            BY <1>5, Working
        <3>2. t.row # s.row /\ lockedBy[t.row] = token[v] /\ attempts'[t.row] = attempts[t.row]
            BY <3>1, <2>1, <1>1 DEF IInv, TypeOK
        <3> QED
            BY <3>1, <3>2 DEF IInv, SnapshotFresh, OwnsLease
    <2> QED
        BY <1>3, <2>2, <2>3, <2>4, <2>5 DEF IInv
<1> QED
    BY <1>6, <1>7

(* Every step preserves the inductive invariant. *)
LEMMA NextIInv == IInv /\ [Next]_vars => IInv'
<1> SUFFICES ASSUME IInv, [Next]_vars PROVE IInv'
    OBVIOUS
<1> USE ConstantsAssumption
<1>a. \A v \in Relay : \A t \in batch[v] : token[v] # NoToken /\ t.row \in Row
    BY Working
<1>1. ASSUME NEW r \in Row, InsertEvent(r) PROVE IInv'
    BY <1>1 DEF InsertEvent, relayVars, IInv, TypeOK, RowStatus, NeverLost, Budget,
        LockedIsPending, TickShape, TokensDistinct, SnapshotFresh, OwnsLease,
        ConfirmedAccepted, First
<1>2. ASSUME NEW r \in Row, LeaseExpires(r) PROVE IInv'
    BY <1>2 DEF LeaseExpires, relayVars, IInv, TypeOK, NeverLost, Budget,
        LockedIsPending, TickShape, TokensDistinct, SnapshotFresh, OwnsLease,
        ConfirmedAccepted, First
<1>3. ASSUME NEW r \in Row, BecomesDue(r) PROVE IInv'
    BY <1>3 DEF BecomesDue, relayVars, IInv, TypeOK, NeverLost, Budget,
        LockedIsPending, TickShape, TokensDistinct, SnapshotFresh, OwnsLease,
        ConfirmedAccepted, First
<1>4. ASSUME NEW r \in Row, RedriveFailed(r) PROVE IInv'
    <2>1. TypeOK' /\ NeverLost' /\ Budget' /\ LockedIsPending'
        BY <1>4 DEF RedriveFailed, relayVars, IInv, TypeOK, RowStatus, NeverLost, Budget,
            LockedIsPending
    <2>2. TickShape' /\ TokensDistinct' /\ ConfirmedAccepted'
        BY <1>4 DEF RedriveFailed, relayVars, IInv, TickShape, TokensDistinct,
            ConfirmedAccepted, First
    <2>3. SnapshotFresh'
        BY <1>4, <1>a DEF RedriveFailed, relayVars, IInv, TypeOK, SnapshotFresh, OwnsLease
    <2> QED
        BY <2>1, <2>2, <2>3 DEF IInv
<1>5. ASSUME NEW r \in Row, RetentionDelete(r) PROVE IInv'
    <2>1. TypeOK' /\ NeverLost' /\ Budget' /\ LockedIsPending'
        BY <1>5 DEF RetentionDelete, relayVars, IInv, TypeOK, RowStatus, NeverLost, Budget,
            LockedIsPending
    <2>2. TickShape' /\ TokensDistinct' /\ ConfirmedAccepted'
        BY <1>5 DEF RetentionDelete, relayVars, IInv, TickShape, TokensDistinct,
            ConfirmedAccepted, First
    <2>3. SnapshotFresh'
        BY <1>5, <1>a DEF RetentionDelete, relayVars, IInv, TypeOK, SnapshotFresh, OwnsLease
    <2> QED
        BY <2>1, <2>2, <2>3 DEF IInv
<1>6. ASSUME NEW w \in Relay, NEW skipped, ClaimBatch(w, skipped) PROVE IInv'
    BY <1>6, ClaimIInv
<1>7. ASSUME NEW w \in Relay, LoadBatch(w) PROVE IInv'
    <2>1. TypeOK' /\ NeverLost' /\ Budget' /\ LockedIsPending'
        BY <1>7 DEF LoadBatch, ContinueWith, Stamped, dbVars, IInv, TypeOK, Snapshot,
            NeverLost, Budget, LockedIsPending
    <2>2. TickShape' /\ TokensDistinct' /\ ConfirmedAccepted'
        BY <1>7 DEF LoadBatch, ContinueWith, dbVars, IInv, TypeOK, TickShape,
            TokensDistinct, ConfirmedAccepted, First
    <2>3. SnapshotFresh'
        BY <1>7 DEF LoadBatch, ContinueWith, Stamped, dbVars, IInv, TypeOK, SnapshotFresh,
            OwnsLease
    <2> QED
        BY <2>1, <2>2, <2>3 DEF IInv
<1>8. ASSUME NEW w \in Relay, MarkPublishedErrors(w) PROVE IInv'
    BY <1>8 DEF MarkPublishedErrors, dbVars, IInv, TypeOK, NeverLost, Budget,
        LockedIsPending, TickShape, TokensDistinct, SnapshotFresh, OwnsLease,
        ConfirmedAccepted, First
<1>9. ASSUME NEW w \in Relay, TickFails(w) \/ Crash(w) PROVE IInv'
    BY <1>9 DEF TickFails, Crash, ContinueWith, dbVars, IInv, TypeOK, NeverLost, Budget,
        LockedIsPending, TickShape, TokensDistinct, SnapshotFresh, OwnsLease,
        ConfirmedAccepted, First
<1>10. ASSUME NEW w \in Relay, NEW s \in First(w),
              PublishConfirmed(w, s) \/ PublishErrors(w, s)
       PROVE  IInv'
    <2>1. s \in batch[w] /\ s.row \in Row /\ \A t \in First(w) : t.row = s.row
        BY Working DEF First, IInv, TypeOK, Snapshot, Row
    <2>2. TypeOK' /\ NeverLost' /\ Budget' /\ LockedIsPending'
        BY <1>10, <2>1 DEF PublishConfirmed, PublishErrors, dbVars, IInv, TypeOK, NeverLost,
            Budget, LockedIsPending
    <2>3. TickShape' /\ TokensDistinct' /\ SnapshotFresh'
        BY <1>10, <2>1 DEF PublishConfirmed, PublishErrors, dbVars, IInv, TypeOK, TickShape,
            TokensDistinct, SnapshotFresh, OwnsLease
    <2>4. ConfirmedAccepted'
        BY <1>10, <2>1 DEF PublishConfirmed, PublishErrors, IInv, TypeOK,
            ConfirmedAccepted, First
    <2> QED
        BY <2>2, <2>3, <2>4 DEF IInv
<1>11. ASSUME NEW w \in Relay, NEW s \in First(w), MarkPublished(w, s) PROVE IInv'
    <2>1. s \in batch[w] /\ s.row \in Row /\ s.row \in accepted
        BY <1>11, Working DEF First, MarkPublished, IInv, ConfirmedAccepted
    <2>2. attempts[s.row] \in 0 .. MaxAttempts /\ due[s.row] \in BOOLEAN
        BY <2>1 DEF IInv, TypeOK
    <2>3. /\ FencedWriteBack(w, s, "PUBLISHED", attempts[s.row], due[s.row])
          /\ ContinueWith(w, batch[w] \ {s}) /\ accepted' = accepted
        BY <1>11 DEF MarkPublished
    <2> QED
        BY <2>1, <2>2, <2>3, WriteBackIInv
<1>12. ASSUME NEW w \in Relay, NEW s \in First(w), ScheduleRetry(w, s) PROVE IInv'
    <2>1. s \in batch[w] /\ s.row \in Row /\ s.attempts + 1 \in Nat
        BY Working DEF First
    <2>2. ContinueWith(w, batch[w] \ {s}) /\ accepted' = accepted
        BY <1>12 DEF ScheduleRetry
    <2>3. CASE s.attempts + 1 >= MaxAttempts
        <3>1. FencedWriteBack(w, s, "FAILED", s.attempts + 1, due[s.row])
            BY <1>12, <2>3 DEF ScheduleRetry
        <3>2. due[s.row] \in BOOLEAN
            BY <2>1 DEF IInv, TypeOK
        <3>3. OwnsLease(w, s) => s.attempts + 1 \in 0 .. MaxAttempts
            BY <2>1, Working DEF IInv, TypeOK
        <3> QED
            BY <2>1, <2>2, <2>3, <3>1, <3>2, <3>3, WriteBackIInv
    <2>4. CASE ~(s.attempts + 1 >= MaxAttempts)
        <3>1. PICK soon \in BOOLEAN :
                FencedWriteBack(w, s, status[s.row], s.attempts + 1, soon)
            BY <1>12, <2>4 DEF ScheduleRetry
        <3>2. s.attempts + 1 < MaxAttempts /\ s.attempts + 1 \in 0 .. MaxAttempts
            BY <2>1, <2>4
        <3>3. OwnsLease(w, s) => status[s.row] = "PENDING"
            BY <2>1, Working
        <3> QED
            BY <2>1, <2>2, <3>1, <3>2, <3>3, WriteBackIInv
    <2> QED
        BY <2>3, <2>4
<1>13. CASE UNCHANGED vars
    BY <1>13 DEF vars, dbVars, relayVars, IInv, TypeOK, NeverLost, Budget,
        LockedIsPending, TickShape, TokensDistinct, SnapshotFresh, OwnsLease,
        ConfirmedAccepted, First
<1> QED
    BY <1>1, <1>2, <1>3, <1>4, <1>5, <1>6, <1>7, <1>8, <1>9, <1>10, <1>11, <1>12, <1>13
    DEF Next, RelayStep

(* The invariant holds throughout. *)
LEMMA InvariantHolds == Spec => []IInv
    BY InitIInv, NextIInv, PTL DEF Spec

(* Statuses, attempts, leases and batches keep their types: the attempts of a row   *)
(* never run past MAX_ATTEMPTS.                                                  *)
THEOREM OutboxTypes == Spec => []TypeOK
<1>1. IInv => TypeOK
    BY DEF IInv
<1> QED
    BY <1>1, InvariantHolds, PTL

(* No interleaving of relays, crashes, lost leases, lost confirms, redrives    *)
(* and retention loses an event: IInv is inductive and contains NeverLost.     *)
THEOREM OutboxNeverLoses == Spec => []NeverLost
<1>1. IInv => NeverLost
    BY DEF IInv
<1> QED
    BY <1>1, InvariantHolds, PTL

(* Under the invariant, a step leaves PUBLISHED rows alone (retention apart)   *)
(* and moves each retry count the way AttemptsExact says.                      *)
LEMMA StepEffects ==
  ASSUME IInv, [Next]_vars, NEW r \in Row
  PROVE  /\ status[r] = "PUBLISHED" => status'[r] \in {"PUBLISHED", "DELETED"}
         /\ \/ attempts'[r] = attempts[r]
            \/ (status[r] = "PENDING" /\ attempts'[r] = attempts[r] + 1)
            \/ (status[r] = "FAILED" /\ attempts'[r] = 0)
<1>1. ASSUME NEW q \in Row,
             InsertEvent(q) \/ LeaseExpires(q) \/ BecomesDue(q) \/ RedriveFailed(q)
                \/ RetentionDelete(q)
      PROVE  /\ status[r] = "PUBLISHED" => status'[r] \in {"PUBLISHED", "DELETED"}
             /\ \/ attempts'[r] = attempts[r]
                \/ (status[r] = "FAILED" /\ attempts'[r] = 0)
    BY <1>1 DEF InsertEvent, LeaseExpires, BecomesDue, RedriveFailed, RetentionDelete,
        IInv, TypeOK
<1>2. ASSUME NEW w \in Relay, NEW s \in First(w), MarkPublished(w, s) \/ ScheduleRetry(w, s)
      PROVE  /\ status[r] = "PUBLISHED" => status'[r] = "PUBLISHED"
             /\ \/ attempts'[r] = attempts[r]
                \/ (status[r] = "PENDING" /\ attempts'[r] = attempts[r] + 1)
    <2>1. /\ s.row \in Row
          /\ OwnsLease(w, s) => status[s.row] = "PENDING" /\ s.attempts = attempts[s.row]
        BY Working DEF First
    <2> QED
        BY <1>2, <2>1 DEF MarkPublished, ScheduleRetry, FencedWriteBack, dbVars, IInv, TypeOK
<1>3. CASE UNCHANGED <<status, attempts>>
    BY <1>3
<1> QED
    BY <1>1, <1>2, <1>3
    DEF Next, RelayStep, vars, dbVars, ClaimBatch, LoadBatch, PublishConfirmed, PublishErrors,
        MarkPublishedErrors, TickFails, Crash

(* The fence works: no relay, however stale, takes back PUBLISHED. *)
THEOREM PublishedStaysPublished == Spec => PublishedIsFinal
<1>1. IInv /\ [Next]_vars
        => [\A r \in Row : status[r] = "PUBLISHED"
                               => status'[r] \in {"PUBLISHED", "DELETED"}]_vars
    BY StepEffects
<1> QED
    BY <1>1, InitIInv, NextIInv, PTL DEF Spec, PublishedIsFinal

(* The retry budget is spent exactly, although each relay writes back a count  *)
(* it loaded earlier.                                                          *)
THEOREM AttemptsSpentExactly == Spec => AttemptsExact
<1>1. IInv /\ [Next]_vars
        => [\A r \in Row : \/ attempts'[r] = attempts[r]
                          \/ (status[r] = "PENDING" /\ attempts'[r] = attempts[r] + 1)
                          \/ (status[r] = "FAILED" /\ attempts'[r] = 0)]_vars
    BY StepEffects
<1> QED
    BY <1>1, InitIInv, NextIInv, PTL DEF Spec, AttemptsExact

-----------------------------------------------------------------------------
(* The refinement of EventLog.  Rows are loaded after they were inserted. *)
BatchesExist == \A w \in Relay : \A s \in batch[w] : status[s.row] # "ABSENT"

(* A step adds only PENDING rows to a batch and removes no row's insertion. *)
LEMMA BatchesStay ==
  ASSUME IInv, BatchesExist, [Next]_vars PROVE BatchesExist'
<1>1. \A r \in Row : status[r] # "ABSENT" => status'[r] # "ABSENT"
    <2>1. ASSUME NEW w \in Relay, NEW s \in First(w), MarkPublished(w, s) \/ ScheduleRetry(w, s)
          PROVE  \A r \in Row : status[r] # "ABSENT" => status'[r] # "ABSENT"
        <3>1. /\ s.row \in Row
              /\ OwnsLease(w, s) => status[s.row] = "PENDING"
            BY Working DEF First
        <3> QED
            BY <2>1, <3>1 DEF MarkPublished, ScheduleRetry, FencedWriteBack, dbVars, IInv, TypeOK
    <2>2. ASSUME NEW q \in Row, InsertEvent(q) \/ RedriveFailed(q) \/ RetentionDelete(q)
          PROVE  \A r \in Row : status[r] # "ABSENT" => status'[r] # "ABSENT"
        BY <2>2 DEF InsertEvent, RedriveFailed, RetentionDelete, IInv, TypeOK
    <2>3. CASE UNCHANGED status
        BY <2>3
    <2> QED
        BY <2>1, <2>2, <2>3
        DEF Next, RelayStep, vars, dbVars, LeaseExpires, BecomesDue, ClaimBatch, LoadBatch,
            PublishConfirmed, PublishErrors, MarkPublishedErrors, TickFails, Crash
<1>2. ASSUME NEW v \in Relay, NEW s \in batch'[v] PROVE s \in batch[v] \/ status[s.row] = "PENDING"
    <2>1. ASSUME NEW w \in Relay, LoadBatch(w)
          PROVE  s \in batch[v] \/ status[s.row] = "PENDING"
        BY <1>2, <2>1 DEF LoadBatch, ContinueWith, Stamped, IInv, TypeOK
    <2>2. ASSUME NEW w \in Relay, NEW rest \in SUBSET batch[w], ContinueWith(w, rest)
          PROVE  s \in batch[v]
        BY <1>2, <2>2 DEF ContinueWith, IInv, TypeOK
    <2>3. CASE UNCHANGED batch
        BY <1>2, <2>3
    <2> QED
        BY <2>1, <2>2, <2>3
        DEF Next, RelayStep, vars, relayVars, InsertEvent, LeaseExpires, BecomesDue, RedriveFailed,
            RetentionDelete, ClaimBatch, PublishConfirmed, PublishErrors, MarkPublishedErrors,
            MarkPublished, ScheduleRetry, TickFails, Crash
<1> QED
    <2>1. \A w \in Relay : \A s \in batch[w] : s.row \in Row
        BY Working
    <2>2. ASSUME NEW v \in Relay, NEW s \in batch'[v] PROVE s.row \in Row
        BY <2>2, NextIInv, <2>1 DEF IInv, TypeOK, Snapshot
    <2> QED
        BY <1>1, <1>2, <2>2 DEF BatchesExist

(* Both invariants hold throughout. *)
LEMMA LogInvariant == Spec => [](IInv /\ BatchesExist)
<1>1. Init => BatchesExist
    BY DEF Init, BatchesExist
<1>2. IInv /\ BatchesExist /\ [Next]_vars => BatchesExist'
    BY BatchesStay
<1> QED
    BY <1>1, <1>2, InitIInv, NextIInv, PTL DEF Spec

(* What the tables do by themselves is what EventLog does. *)
LEMMA TableRefines ==
  ASSUME IInv, NEW r \in Row,
         InsertEvent(r) \/ LeaseExpires(r) \/ BecomesDue(r) \/ RedriveFailed(r) \/ RetentionDelete(r)
  PROVE  Log!Insert(r) \/ Log!Redrive(r) \/ Log!Delete(r) \/ UNCHANGED Log!vars
  BY DEF InsertEvent, LeaseExpires, BecomesDue, RedriveFailed, RetentionDelete, Log!Insert,
     Log!Redrive, Log!Delete, Log!Becomes, Log!vars, Log!Row, Row

(* A publish reaches the broker or does not; the row exists, whatever has become *)
(* of it since it was loaded.                                                   *)
LEMMA PublishRefines ==
  ASSUME IInv, BatchesExist, NEW w \in Relay, NEW s \in First(w),
         PublishConfirmed(w, s) \/ PublishErrors(w, s)
  PROVE  Log!Reach(s.row) \/ UNCHANGED Log!vars
<1>1. s \in batch[w]
    BY DEF First
<1>2. status[s.row] # "ABSENT"
    BY <1>1 DEF BatchesExist
<1> QED
    BY <1>2 DEF PublishConfirmed, PublishErrors, dbVars, Log!Reach, Log!vars

(* The owner of a lease publishes what the broker has, or spends the attempt that   *)
(* it read is the next; anyone else changes nothing.                             *)
LEMMA WriteBackRefines ==
  ASSUME IInv, NEW w \in Relay, NEW s \in First(w), MarkPublished(w, s) \/ ScheduleRetry(w, s)
  PROVE  Log!Publish(s.row) \/ Log!Spend(s.row) \/ UNCHANGED Log!vars
<1>1. /\ s \in batch[w] /\ s.row \in Row
      /\ OwnsLease(w, s) => /\ status[s.row] = "PENDING"
                            /\ s.attempts = attempts[s.row]
                            /\ attempts[s.row] < MaxAttempts
    BY Working DEF First
<1>2. accepted' = accepted
    BY DEF MarkPublished, ScheduleRetry
<1>3. CASE ~OwnsLease(w, s)
    BY <1>2, <1>3 DEF MarkPublished, ScheduleRetry, FencedWriteBack, dbVars, Log!vars
<1>4. CASE OwnsLease(w, s) /\ MarkPublished(w, s)
    <2>1. s.row \in accepted
        BY <1>4 DEF MarkPublished, IInv, ConfirmedAccepted
    <2>2. attempts' = attempts
        BY <1>1, <1>4 DEF MarkPublished, FencedWriteBack, IInv, TypeOK
    <2> QED
        BY <1>1, <1>2, <1>4, <2>1, <2>2 DEF MarkPublished, FencedWriteBack, Log!Publish, Log!Becomes
<1>5. CASE OwnsLease(w, s) /\ ScheduleRetry(w, s)
    <2>1. s.attempts = attempts[s.row] /\ attempts[s.row] \in Nat /\ MaxAttempts \in Nat
        BY <1>1, <1>5, ConstantsAssumption DEF IInv, TypeOK
    <2>2. /\ attempts' = [attempts EXCEPT ![s.row] = attempts[s.row] + 1]
          /\ status' = [status EXCEPT ![s.row] =
                            IF attempts[s.row] + 1 < MaxAttempts THEN "PENDING" ELSE "FAILED"]
        BY <1>1, <1>5, <2>1 DEF ScheduleRetry, FencedWriteBack
    <2> QED
        BY <1>1, <1>2, <1>5, <2>2 DEF Log!Spend, Log!Becomes
<1> QED
    BY <1>3, <1>4, <1>5

(* For any number of rows, relays, tokens and attempts: the interleaved relays      *)
(* implement EventLog, in which an event is published only after the broker has     *)
(* it, fails only with its attempts spent one by one, and stays published.        *)
THEOREM RelayKeepsTheLog == Spec => AtLeastOnce
<1>1. Init => Log!Init
    BY DEF Init, Log!Init, Log!Row, Row
<1>2. ASSUME IInv, BatchesExist, [Next]_vars PROVE [Log!Next]_(Log!vars)
    <2>1. ASSUME NEW r \in Row,
                 InsertEvent(r) \/ LeaseExpires(r) \/ BecomesDue(r) \/ RedriveFailed(r)
                     \/ RetentionDelete(r)
          PROVE  [Log!Next]_(Log!vars)
        BY <1>2, <2>1, TableRefines DEF Log!Next, Log!Row, Row
    <2>2. ASSUME NEW w \in Relay, NEW s \in First(w),
                 PublishConfirmed(w, s) \/ PublishErrors(w, s) \/ MarkPublished(w, s) \/ ScheduleRetry(w, s)
          PROVE  [Log!Next]_(Log!vars)
        <3>1. s.row \in Log!Row
            BY <1>2, Working DEF First, Log!Row, Row
        <3> QED
            BY <1>2, <2>2, <3>1, PublishRefines, WriteBackRefines DEF Log!Next
    <2>3. CASE UNCHANGED <<status, attempts, accepted>>
        BY <2>3 DEF Log!vars
    <2> QED
        BY <1>2, <2>1, <2>2, <2>3
        DEF Next, RelayStep, vars, dbVars, ClaimBatch, LoadBatch, MarkPublishedErrors, TickFails, Crash
<1>3. IInv /\ BatchesExist /\ [Next]_vars => [Log!Next]_(Log!vars)
    BY <1>2
<1> QED
    BY <1>1, <1>3, LogInvariant, PTL DEF Spec, AtLeastOnce, Log!Spec

=============================================================================
