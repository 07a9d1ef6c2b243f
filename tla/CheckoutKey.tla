---------------------------- MODULE CheckoutKey ----------------------------
(***************************************************************************)
(* Checkout under an Idempotency-Key: the requests that carry one key of one *)
(* customer, and the row that reserves it                                   *)
(* (backend/src/infrastructure/idempotency/idempotency.service.ts and       *)
(* OrdersService.checkout).                                                 *)
(*                                                                         *)
(* A request reads the row, reserves it (create) or takes over one that is   *)
(* FAILED or stuck in PROCESSING (claim, which bumps fenceToken), does the    *)
(* checkout, and completes the row inside the transaction that creates the   *)
(* order, fenced on the token.  Requests overlap at will: an owner may stall *)
(* past reclaimMs and still be running, a commit may succeed and be reported *)
(* as an error, a process may die anywhere.                                 *)
(*                                                                         *)
(* The time the code compares is one fact about the row: whether its         *)
(* ownership is older than reclaimMs (stale).  Its retention (48 hours) is    *)
(* taken to outlive every request (seconds): see RetentionDelete.            *)
(***************************************************************************)
EXTENDS Naturals

CONSTANTS
    Request,        \* HTTP attempts that carry the key
    Fingerprint,    \* hashes of canonical request bodies
    FP,             \* [Request -> Fingerprint]
    None            \* no request, no order

ASSUME ConstantsAssumption ==
    /\ FP \in [Request -> Fingerprint]
    /\ None \notin Request

(* An order and a row are named by the request that created them. *)
Maybe == Request \cup {None}

VARIABLES
    row,        \* the IdempotencyKey row, ABSENT when there is none
    rowLock,    \* the request whose open transaction has updated the row
    placed,     \* [Request -> Maybe]: the row under which this request's order was committed
    pc,         \* [Request -> where it is]
    looks,      \* [Request -> 0 .. 2], findUnique calls made by begin
    mine,       \* [Request -> [id, token, status]], the record begin works on or returned
    answer,     \* [Request -> what the client was told]
    shown       \* [Request -> Maybe], the order it was shown

vars == <<row, rowLock, placed, pc, looks, mine, answer, shown>>

Row == [id : Maybe, fp : Fingerprint \cup {None}, status : {"ABSENT", "PROCESSING", "COMPLETED", "FAILED"},
        token : Nat, owner : Maybe, stale : BOOLEAN, order : Maybe]

NoRow == [id |-> None, fp |-> None, status |-> "ABSENT", token |-> 0, owner |-> None,
          stale |-> FALSE, order |-> None]

Copy == [id |-> row.id, token |-> row.token, status |-> row.status]

Pending  == {"begin", "create", "claim", "reread", "work", "finalized", "failing", "superseded"}
Outcomes == {"created", "replayed", "processing", "mismatch", "error", "lost"}

TypeOK ==
    /\ row \in Row
    /\ rowLock \in Maybe
    /\ placed \in [Request -> Maybe]
    /\ pc \in [Request -> Pending \cup {"new", "done"}]
    /\ looks \in [Request -> 0 .. 2]
    /\ mine \in [Request -> [id : Maybe, token : Nat,
                          status : {"ABSENT", "PROCESSING", "COMPLETED", "FAILED"}]]
    /\ answer \in [Request -> Outcomes \cup {"none"}]
    /\ shown \in [Request -> Maybe]

Init ==
    /\ row = NoRow
    /\ rowLock = None
    /\ placed = [r \in Request |-> None]
    /\ pc = [r \in Request |-> "new"]
    /\ looks = [r \in Request |-> 0]
    /\ mine = [r \in Request |-> Copy]
    /\ answer = [r \in Request |-> "none"]
    /\ shown = [r \in Request |-> None]

-----------------------------------------------------------------------------
(* Pieces *)

Goto(r, at) == pc' = [pc EXCEPT ![r] = at] /\ UNCHANGED <<answer, shown>>

Answer(r, what, order) ==
    /\ pc' = [pc EXCEPT ![r] = "done"]
    /\ answer' = [answer EXCEPT ![r] = what]
    /\ shown' = [shown EXCEPT ![r] = order]

(* A statement that updates the row waits for the transaction that has. *)
RowFree == rowLock = None

(* A transaction that ends lets go of the row. *)
Released(r) == IF rowLock = r THEN None ELSE rowLock

(* Mutant: the key is compared and the request is not. *)
FitsAnything(r) == r \in Request

(* handleExisting's first comparison: the key was used for this very request. *)
Fits(r) == row.fp = FP[r]

(* Mutant: a WHERE on the id alone. *)
OwnsById(r) == row.id = mine[r].id

(* The WHERE of finalize and markFailed. *)
Owns(r) ==
    /\ row.status = "PROCESSING"
    /\ row.id = mine[r].id
    /\ row.token = mine[r].token

(* Mutant: one look too many. *)
LostAgain(r) == IF looks[r] <= 2 THEN Goto(r, "begin") ELSE Answer(r, "processing", None)

(* begin's second look, or "processing" when there has been one. *)
Lost(r) == IF looks[r] < 2 THEN Goto(r, "begin") ELSE Answer(r, "processing", None)

-----------------------------------------------------------------------------
(* begin *)

Arrive(r) ==
    /\ pc[r] = "new"
    /\ Goto(r, "begin")
    /\ UNCHANGED <<row, rowLock, placed, looks, mine>>

(* A reservation that another request may take over. *)
Retryable == row.status = "FAILED" \/ (row.status = "PROCESSING" /\ row.stale)

(* findUnique and handleExisting on what it returned. *)
Look(r) ==
    /\ pc[r] = "begin"
    /\ looks' = [looks EXCEPT ![r] = @ + 1]
    /\ mine' = [mine EXCEPT ![r] = Copy]
    /\ \/ row.status = "ABSENT" /\ looks[r] = 0 /\ Goto(r, "create")
       \/ row.status = "ABSENT" /\ looks[r] > 0 /\ Answer(r, "processing", None)
       \/ row.status # "ABSENT" /\ ~Fits(r) /\ Answer(r, "mismatch", None)
       \/ row.status = "COMPLETED" /\ Fits(r) /\ Answer(r, "replayed", row.order)
       \/ Retryable /\ Fits(r) /\ Goto(r, "claim")
       \/ /\ row.status = "PROCESSING" /\ ~row.stale /\ Fits(r)
          /\ Answer(r, "processing", None)
    /\ UNCHANGED <<row, rowLock, placed>>

(* The unique index admits one row per key. *)
Create(r) ==
    /\ pc[r] = "create"
    /\ IF row.status = "ABSENT"
       THEN /\ row' = [id |-> r, fp |-> FP[r], status |-> "PROCESSING", token |-> 1,
                       owner |-> r, stale |-> FALSE, order |-> None]
            /\ mine' = [mine EXCEPT ![r] = [id |-> r, token |-> 1, status |-> "PROCESSING"]]
            /\ Goto(r, "work")
       ELSE Lost(r) /\ UNCHANGED <<row, mine>>
    /\ UNCHANGED <<rowLock, placed, looks>>

(* Mutant: the claim compares the token and not the status. *)
ClaimableByToken(r) == row.id = mine[r].id /\ row.token = mine[r].token

(* The WHERE of claim: FAILED, or PROCESSING for too long, as it was when read. *)
Claimable(r) ==
    /\ row.id = mine[r].id
    /\ row.token = mine[r].token
    /\ row.status = mine[r].status
    /\ Retryable

Claim(r) ==
    /\ pc[r] = "claim"
    /\ RowFree
    /\ IF Claimable(r)
       THEN /\ row' = [row EXCEPT !.status = "PROCESSING", !.token = @ + 1, !.owner = r,
                                  !.stale = FALSE, !.fp = FP[r], !.order = None]
            /\ Goto(r, "reread")
       ELSE Lost(r) /\ UNCHANGED row
    /\ UNCHANGED <<rowLock, placed, looks, mine>>

(* claim returns the row as it is now: another request may have claimed it since. *)
Reread(r) ==
    /\ pc[r] = "reread"
    /\ mine' = [mine EXCEPT ![r] = Copy]
    /\ Goto(r, "work")
    /\ UNCHANGED <<row, rowLock, placed, looks>>

-----------------------------------------------------------------------------
(* runCheckout and its transaction *)

(* The transaction has created the order and reserved the stock; finalize. *)
Finalize(r) ==
    /\ pc[r] = "work"
    /\ RowFree
    /\ IF Owns(r)
       THEN rowLock' = r /\ Goto(r, "finalized")
       ELSE Goto(r, "superseded") /\ UNCHANGED rowLock
    /\ UNCHANGED <<row, placed, looks, mine>>

Completed(r) == [row EXCEPT !.status = "COMPLETED", !.order = r]

(* Order, stock, voucher, order.created and the COMPLETED row commit together.  *)
(* The client of the transaction may see an error all the same.                 *)
Commit(r) ==
    /\ pc[r] = "finalized"
    /\ row' = Completed(r)
    /\ placed' = [placed EXCEPT ![r] = row.id]
    /\ rowLock' = None
    /\ \/ Answer(r, "created", r)
       \/ Goto(r, "failing")
    /\ UNCHANGED <<looks, mine>>

(* Pricing, stock or voucher refuses, the database fails: nothing is written. *)
Fail(r) ==
    /\ pc[r] \in {"work", "finalized"}
    /\ rowLock' = Released(r)
    /\ Goto(r, "failing")
    /\ UNCHANGED <<row, placed, looks, mine>>

(* Mutant: markFailed is not fenced. *)
MarkFailedById(r) ==
    /\ pc[r] = "failing"
    /\ RowFree
    /\ row' = IF row.id = mine[r].id THEN [row EXCEPT !.status = "FAILED"] ELSE row
    /\ Answer(r, "error", None)
    /\ UNCHANGED <<rowLock, placed, looks, mine>>

(* Best effort: its own failure is swallowed. *)
MarkFailed(r) ==
    /\ pc[r] = "failing"
    /\ RowFree
    /\ \/ row' = IF Owns(r) THEN [row EXCEPT !.status = "FAILED"] ELSE row
       \/ UNCHANGED row
    /\ Answer(r, "error", None)
    /\ UNCHANGED <<rowLock, placed, looks, mine>>

(* The order has rolled back: show the winner's, or say it is under way. *)
ResolveAfterSupersession(r) ==
    /\ pc[r] = "superseded"
    /\ IF row.status = "COMPLETED"
       THEN Answer(r, "replayed", row.order)
       ELSE Answer(r, "processing", None)
    /\ UNCHANGED <<row, rowLock, placed, looks, mine>>

(* The process dies, or begin itself fails: an open transaction is rolled back. *)
Crash(r) ==
    /\ pc[r] \in Pending
    /\ rowLock' = Released(r)
    /\ Answer(r, "lost", None)
    /\ UNCHANGED <<row, placed, looks, mine>>

-----------------------------------------------------------------------------
(* Time *)

(* reclaimMs passes: while the owner is working, or long after it died. *)
OwnershipAges ==
    /\ row.status = "PROCESSING" /\ ~row.stale
    /\ row' = [row EXCEPT !.stale = TRUE]
    /\ UNCHANGED <<rowLock, placed, pc, looks, mine, answer, shown>>

(* expiresAt passes and the retention sweep deletes the row, whatever its status. *)
RetentionDelete ==
    /\ row.status # "ABSENT"
    /\ \A r \in Request : pc[r] \in {"new", "done"}
    /\ row' = NoRow
    /\ UNCHANGED <<rowLock, placed, pc, looks, mine, answer, shown>>

-----------------------------------------------------------------------------
Handle(r) ==
    \/ Look(r)
    \/ Create(r)
    \/ Claim(r)
    \/ Reread(r)
    \/ Finalize(r)
    \/ Commit(r)
    \/ Fail(r)
    \/ MarkFailed(r)
    \/ ResolveAfterSupersession(r)

Next ==
    \/ \E r \in Request : Arrive(r) \/ Handle(r) \/ Crash(r)
    \/ OwnershipAges
    \/ RetentionDelete

Spec == Init /\ [][Next]_vars

-----------------------------------------------------------------------------
(* However the attempts overlap, fail, stall and are taken over, they place at  *)
(* most one order while the key is kept.                                       *)
AtMostOneOrder ==
    \A r, s \in Request : placed[r] # None /\ placed[r] = placed[s] => r = s

(* The key says COMPLETED exactly when its order exists: no order without its    *)
(* replayable answer, no answer without its order.                              *)
CompletedIffPlaced ==
    /\ row.status = "COMPLETED" => row.order \in Request /\ placed[row.order] = row.id
    /\ row.status \in {"PROCESSING", "FAILED"} => \A r \in Request : placed[r] # row.id

(* Nobody is shown an order that was rolled back, or one that answers another    *)
(* request than their own.                                                      *)
ShownOrdersAreReal ==
    \A r \in Request :
        shown[r] # None => placed[shown[r]] # None /\ FP[shown[r]] = FP[r]

(* A completed key is never reopened by a straggler: not by a late markFailed of *)
(* a commit that was reported as an error, nor by a reclaim.                     *)
CompletedIsFinal ==
    [][row.status = "COMPLETED" => \/ row' = row
                                   \/ row' = NoRow]_vars

(* A request between its arrival and its answer, and the order a key stands for. *)
Active == {r \in Request : pc[r] \in Pending}
Kept   == IF row.status = "COMPLETED" THEN row.order ELSE None
Orders == {r \in Request : placed[r] # None}

Once == INSTANCE CheckoutOnce WITH active <- Active, kept <- Kept, orders <- Orders

(* To its clients the protocol is one atomic step: somebody's commit places the   *)
(* order the key stands for from then on, everybody else is shown that order if   *)
(* their cart is the same, or placed nothing (CheckoutOnce).                     *)
Idempotent == Once!Spec

=============================================================================
