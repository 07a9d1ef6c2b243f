-------------------------- MODULE CheckoutKeyProofs --------------------------
(* Proofs about CheckoutKey, for any number of attempts and any fingerprints. *)
EXTENDS CheckoutKey, TLAPS

(* Where a request has read or created the row and may still act on it. *)
Holding == {"claim", "reread", "work", "finalized", "failing", "superseded"}

(* The row lock is that of the one transaction past finalize. *)
LockHeld == \A r \in Request : rowLock = r <=> pc[r] = "finalized"

(* What finalize checked still holds when the transaction commits. *)
FinalizedOwns == \A r \in Request : pc[r] = "finalized" => Owns(r)

(* The row outlives the requests that work on it, and answers their fingerprint. *)
MineIsRow ==
    \A r \in Request :
        pc[r] \in Holding => row.status # "ABSENT" /\ mine[r].id = row.id /\ row.fp = FP[r]

RowKeyed ==
    /\ row.status # "ABSENT" => row.id \in Request
    /\ row.status = "COMPLETED" => row.fp = FP[row.order]

(* A request that may yet create a row has not created one. *)
IdsUsedOnce ==
    \A r \in Request :
        pc[r] \in {"new", "begin", "create", "claim", "reread"} =>
            row.id # r /\ \A s \in Request : placed[s] # r

(* A request that is about to look has a look left. *)
LooksLeft == \A r \in Request : pc[r] \in {"new", "begin"} => looks[r] < 2

IInv ==
    /\ TypeOK
    /\ LooksLeft
    /\ LockHeld
    /\ FinalizedOwns
    /\ MineIsRow
    /\ RowKeyed
    /\ IdsUsedOnce
    /\ AtMostOneOrder
    /\ CompletedIffPlaced
    /\ ShownOrdersAreReal

USE DEF Maybe, Pending, Outcomes

-----------------------------------------------------------------------------
(* The initial state satisfies the invariant. *)
LEMMA InitInv == Init => IInv
BY ConstantsAssumption
   DEF Init, Copy, NoRow, IInv, TypeOK, Row, LooksLeft, LockHeld, FinalizedOwns, MineIsRow, Holding, RowKeyed,
       IdsUsedOnce, AtMostOneOrder, CompletedIffPlaced, ShownOrdersAreReal

(* Where a request goes, and what it is told, keep their types. *)
LEMMA GotoTyped ==
    ASSUME TypeOK, NEW r \in Request, NEW at \in Pending, Goto(r, at)
    PROVE  /\ pc' \in [Request -> Pending \cup {"new", "done"}]
           /\ answer' \in [Request -> Outcomes \cup {"none"}]
           /\ shown' \in [Request -> Maybe]
BY DEF TypeOK, Goto

(* The same of an answer. *)
LEMMA AnswerTyped ==
    ASSUME TypeOK, NEW r \in Request, NEW what \in Outcomes, NEW order \in Maybe,
           Answer(r, what, order)
    PROVE  /\ pc' \in [Request -> Pending \cup {"new", "done"}]
           /\ answer' \in [Request -> Outcomes \cup {"none"}]
           /\ shown' \in [Request -> Maybe]
BY DEF TypeOK, Answer

(* A request comes in. *)
LEMMA ArriveKeeps ==
    ASSUME NEW r \in Request, IInv, Arrive(r) PROVE IInv'
<1>0. TypeOK /\ LooksLeft /\ LockHeld /\ FinalizedOwns /\ MineIsRow /\ RowKeyed
      /\ IdsUsedOnce /\ AtMostOneOrder /\ CompletedIffPlaced /\ ShownOrdersAreReal
  BY DEF IInv
<1>. USE ConstantsAssumption DEF Arrive, Goto, TypeOK, Row
<1>1. TypeOK'
  BY <1>0, Arrive(r)
<1>2. LooksLeft'
  BY <1>0, Arrive(r) DEF LooksLeft
<1>3. LockHeld'
  BY <1>0, Arrive(r) DEF LockHeld
<1>4. FinalizedOwns'
  BY <1>0, Arrive(r) DEF FinalizedOwns, Owns
<1>5. MineIsRow'
  BY <1>0, Arrive(r) DEF MineIsRow, Holding
<1>6. RowKeyed'
  BY <1>0, Arrive(r) DEF RowKeyed
<1>7. IdsUsedOnce'
  BY <1>0, Arrive(r) DEF IdsUsedOnce
<1>8. AtMostOneOrder'
  BY <1>0, Arrive(r) DEF AtMostOneOrder
<1>9. CompletedIffPlaced'
  BY <1>0, Arrive(r) DEF CompletedIffPlaced
<1>10. ShownOrdersAreReal'
  BY <1>0, Arrive(r) DEF ShownOrdersAreReal
<1>. QED
  BY <1>1, <1>2, <1>3, <1>4, <1>5, <1>6, <1>7, <1>8, <1>9, <1>10 DEF IInv

(* A look reads the row; what it replays is a placed order of the same fingerprint. *)
LEMMA LookKeeps ==
    ASSUME NEW r \in Request, IInv, Look(r) PROVE IInv'
<1>0. TypeOK /\ LooksLeft /\ LockHeld /\ FinalizedOwns /\ MineIsRow /\ RowKeyed
      /\ IdsUsedOnce /\ AtMostOneOrder /\ CompletedIffPlaced /\ ShownOrdersAreReal
  BY DEF IInv
<1>. USE ConstantsAssumption DEF Look, Goto, Answer, Copy, Fits, Retryable, TypeOK, Row
<1>1. TypeOK'
  <2>1. row.order \in Maybe /\ looks[r] \in 0 .. 1
    BY <1>0, Look(r) DEF LooksLeft
  <2>2. /\ looks' \in [Request -> 0 .. 2]
        /\ mine' \in [Request -> [id : Maybe, token : Nat,
                          status : {"ABSENT", "PROCESSING", "COMPLETED", "FAILED"}]]
    BY <1>0, <2>1, Look(r)
  <2>3. \/ \E at \in Pending : Goto(r, at)
        \/ \E what \in Outcomes, order \in Maybe : Answer(r, what, order)
    <3>. USE DEF Goto, Answer
    <3>. QED BY <2>1, Look(r)
  <2>4. /\ pc' \in [Request -> Pending \cup {"new", "done"}]
        /\ answer' \in [Request -> Outcomes \cup {"none"}]
        /\ shown' \in [Request -> Maybe]
    BY <1>0, <2>3, GotoTyped, AnswerTyped
  <2>. QED
    BY <1>0, <2>2, <2>4, Look(r)
<1>2. LooksLeft'
  BY <1>0, Look(r) DEF LooksLeft
<1>3. LockHeld'
  BY <1>0, Look(r) DEF LockHeld
<1>4. FinalizedOwns'
  BY <1>0, Look(r) DEF FinalizedOwns, Owns
<1>5. MineIsRow'
  BY <1>0, Look(r) DEF MineIsRow, Holding
<1>6. RowKeyed'
  BY <1>0, Look(r) DEF RowKeyed
<1>7. IdsUsedOnce'
  BY <1>0, Look(r) DEF IdsUsedOnce
<1>8. AtMostOneOrder'
  BY <1>0, Look(r) DEF AtMostOneOrder
<1>9. CompletedIffPlaced'
  BY <1>0, Look(r) DEF CompletedIffPlaced
<1>10. ShownOrdersAreReal'
  <2>1. CASE shown' = shown
    BY <1>0, <2>1, Look(r) DEF ShownOrdersAreReal
  <2>2. CASE \E order \in Maybe : /\ shown' = [shown EXCEPT ![r] = order]
                                  /\ order # None => row.status = "COMPLETED" /\ Fits(r)
                                                     /\ order = row.order
    <3>1. PICK order \in Maybe : /\ shown' = [shown EXCEPT ![r] = order]
                                 /\ order # None => row.status = "COMPLETED" /\ Fits(r)
                                                    /\ order = row.order
      BY <2>2
    <3>2. order # None => placed[order] # None /\ FP[order] = FP[r]
      BY <1>0, <3>1 DEF CompletedIffPlaced, RowKeyed
    <3>. QED
      BY <1>0, <3>1, <3>2, Look(r) DEF ShownOrdersAreReal
  <2>3. row.order \in Maybe
    BY <1>0
  <2>. QED
    BY <2>1, <2>2, <2>3, Look(r)
<1>. QED
  BY <1>1, <1>2, <1>3, <1>4, <1>5, <1>6, <1>7, <1>8, <1>9, <1>10 DEF IInv

(* A new row carries the name of a request that no order was placed under. *)
LEMMA CreateKeeps ==
    ASSUME NEW r \in Request, IInv, Create(r) PROVE IInv'
<1>0. TypeOK /\ LooksLeft /\ LockHeld /\ FinalizedOwns /\ MineIsRow /\ RowKeyed
      /\ IdsUsedOnce /\ AtMostOneOrder /\ CompletedIffPlaced /\ ShownOrdersAreReal
  BY DEF IInv
<1>. USE ConstantsAssumption DEF Create, Goto, Answer, Lost, TypeOK, Row
<1>1. TypeOK'
  <2>1. CASE row.status = "ABSENT"
    <3>1. row' \in Row
      <4>1. FP[r] \in Fingerprint
        BY ConstantsAssumption
      <4>2. row' = [id |-> r, fp |-> FP[r], status |-> "PROCESSING", token |-> 1,
                    owner |-> r, stale |-> FALSE, order |-> None]
        BY <2>1, Create(r)
      <4>. HIDE DEF Create
      <4>. QED BY <4>1, <4>2
    <3>2. mine' = [mine EXCEPT ![r] = [id |-> r, token |-> 1, status |-> "PROCESSING"]]
      BY <2>1, Create(r)
    <3>3. mine' \in [Request -> [id : Maybe, token : Nat,
                          status : {"ABSENT", "PROCESSING", "COMPLETED", "FAILED"}]]
      BY <1>0, <3>2
    <3>4. /\ pc' \in [Request -> Pending \cup {"new", "done"}]
          /\ answer' \in [Request -> Outcomes \cup {"none"}]
          /\ shown' \in [Request -> Maybe]
      <4>1. Goto(r, "work")
        BY <2>1, Create(r)
      <4>. QED BY <1>0, <4>1, GotoTyped
    <3>. QED
      BY <1>0, <3>1, <3>3, <3>4, <2>1, Create(r)
  <2>2. CASE row.status # "ABSENT"
    <3>1. \/ Goto(r, "begin")
          \/ Answer(r, "processing", None)
      <4>. USE DEF Goto, Answer
      <4>. QED BY <2>2, Create(r)
    <3>2. /\ pc' \in [Request -> Pending \cup {"new", "done"}]
          /\ answer' \in [Request -> Outcomes \cup {"none"}]
          /\ shown' \in [Request -> Maybe]
      BY <1>0, <3>1, GotoTyped, AnswerTyped
    <3>. QED
      BY <1>0, <2>2, <3>2, Create(r)
  <2>. QED
    BY <2>1, <2>2
<1>2. LooksLeft'
  BY <1>0, Create(r) DEF LooksLeft
<1>3. LockHeld'
  BY <1>0, Create(r) DEF LockHeld
<1>4. FinalizedOwns'
  BY <1>0, Create(r) DEF FinalizedOwns, Owns
<1>5. MineIsRow'
  BY <1>0, Create(r) DEF MineIsRow, Holding
<1>6. RowKeyed'
  BY <1>0, Create(r) DEF RowKeyed
<1>7. IdsUsedOnce'
  BY <1>0, Create(r) DEF IdsUsedOnce
<1>8. AtMostOneOrder'
  BY <1>0, Create(r) DEF AtMostOneOrder
<1>9. CompletedIffPlaced'
  <2>1. CASE row.status = "ABSENT"
    <3>1. row'.id = r /\ row'.status = "PROCESSING" /\ placed' = placed
      BY <2>1, Create(r)
    <3>2. \A s \in Request : placed[s] # r
      BY <1>0, Create(r) DEF IdsUsedOnce
    <3>. QED
      BY <3>1, <3>2 DEF CompletedIffPlaced
  <2>2. CASE row.status # "ABSENT"
    <3>1. row' = row /\ placed' = placed
      BY <2>2, Create(r)
    <3>. QED
      BY <1>0, <3>1 DEF CompletedIffPlaced
  <2>. QED
    BY <2>1, <2>2
<1>10. ShownOrdersAreReal'
  BY <1>0, Create(r) DEF ShownOrdersAreReal
<1>. QED
  BY <1>1, <1>2, <1>3, <1>4, <1>5, <1>6, <1>7, <1>8, <1>9, <1>10 DEF IInv

(* A claim keeps the row and its fingerprint; no transaction is past finalize. *)
LEMMA ClaimKeeps ==
    ASSUME NEW r \in Request, IInv, Claim(r) PROVE IInv'
<1>0. TypeOK /\ LooksLeft /\ LockHeld /\ FinalizedOwns /\ MineIsRow /\ RowKeyed
      /\ IdsUsedOnce /\ AtMostOneOrder /\ CompletedIffPlaced /\ ShownOrdersAreReal
  BY DEF IInv
<1>a. ASSUME ~Claimable(r)
      PROVE  /\ row' = row
             /\ (looks[r] < 2 /\ Goto(r, "begin")) \/ Answer(r, "processing", None)
             /\ UNCHANGED <<rowLock, placed, looks, mine>>
  BY <1>a, Claim(r) DEF Claim, Lost
<1>b. ASSUME Claimable(r)
      PROVE  /\ row' = [row EXCEPT !.status = "PROCESSING", !.token = @ + 1, !.owner = r,
                                   !.stale = FALSE, !.fp = FP[r], !.order = None]
             /\ Goto(r, "reread")
             /\ UNCHANGED <<rowLock, placed, looks, mine>>
  BY <1>b, Claim(r) DEF Claim
<1>. USE ConstantsAssumption DEF Claim, Goto, Answer, Lost, Claimable, Retryable, RowFree, TypeOK, Row
<1>c. /\ row.status # "ABSENT" /\ mine[r].id = row.id /\ row.fp = FP[r]
      /\ \A s \in Request : pc[s] # "finalized"
      /\ row.token + 1 \in Nat
      /\ FP[r] \in Fingerprint
  BY <1>0, Claim(r) DEF MineIsRow, Holding, LockHeld
<1>d. ASSUME Claimable(r)
      PROVE  /\ row' \in Row
             /\ row'.id = row.id /\ row'.status = "PROCESSING" /\ row'.fp = row.fp
  <2>1. row \in Row
    BY <1>0
  <2>. QED BY <1>b, <1>c, <1>d, <2>1
<1>e. \A s \in Request : s # r => pc'[s] = pc[s]
  BY <1>0, Claim(r)
<1>f. pc'[r] \in {"reread", "begin", "done"}
  BY <1>0, Claim(r)
<1>1. TypeOK'
  <2>1. CASE Claimable(r)
    BY <1>0, <1>b, <1>d, <2>1, GotoTyped
  <2>2. CASE ~Claimable(r)
    BY <1>0, <1>a, <2>2, GotoTyped, AnswerTyped
  <2>. QED
    BY <2>1, <2>2
<1>2. LooksLeft'
  <2>1. CASE Claimable(r)
    BY <1>0, <1>b, <1>c, <1>e, <1>f, <1>d, <2>1 DEF LooksLeft
  <2>2. CASE ~Claimable(r)
    BY <1>0, <1>a, <1>c, <1>e, <1>f, <2>2 DEF LooksLeft
  <2>. QED
    BY <2>1, <2>2
<1>3. LockHeld'
  <2>1. CASE Claimable(r)
    BY <1>0, <1>b, <1>c, <1>e, <1>f, <1>d, <2>1 DEF LockHeld
  <2>2. CASE ~Claimable(r)
    BY <1>0, <1>a, <1>c, <1>e, <1>f, <2>2 DEF LockHeld
  <2>. QED
    BY <2>1, <2>2
<1>4. FinalizedOwns'
  <2>1. CASE Claimable(r)
    BY <1>0, <1>b, <1>c, <1>e, <1>f, <1>d, <2>1 DEF FinalizedOwns, Owns
  <2>2. CASE ~Claimable(r)
    BY <1>0, <1>a, <1>c, <1>e, <1>f, <2>2 DEF FinalizedOwns, Owns
  <2>. QED
    BY <2>1, <2>2
<1>5. MineIsRow'
  <2>1. CASE Claimable(r)
    BY <1>0, <1>b, <1>c, <1>e, <1>f, <1>d, <2>1 DEF MineIsRow, Holding
  <2>2. CASE ~Claimable(r)
    BY <1>0, <1>a, <1>c, <1>e, <1>f, <2>2 DEF MineIsRow, Holding
  <2>. QED
    BY <2>1, <2>2
<1>6. RowKeyed'
  <2>1. CASE Claimable(r)
    BY <1>0, <1>b, <1>c, <1>e, <1>f, <1>d, <2>1 DEF RowKeyed
  <2>2. CASE ~Claimable(r)
    BY <1>0, <1>a, <1>c, <1>e, <1>f, <2>2 DEF RowKeyed
  <2>. QED
    BY <2>1, <2>2
<1>7. IdsUsedOnce'
  <2>1. CASE Claimable(r)
    BY <1>0, <1>b, <1>c, <1>e, <1>f, <1>d, <2>1 DEF IdsUsedOnce
  <2>2. CASE ~Claimable(r)
    BY <1>0, <1>a, <1>c, <1>e, <1>f, <2>2 DEF IdsUsedOnce
  <2>. QED
    BY <2>1, <2>2
<1>8. AtMostOneOrder'
  <2>1. CASE Claimable(r)
    BY <1>0, <1>b, <1>c, <1>e, <1>f, <1>d, <2>1 DEF AtMostOneOrder
  <2>2. CASE ~Claimable(r)
    BY <1>0, <1>a, <1>c, <1>e, <1>f, <2>2 DEF AtMostOneOrder
  <2>. QED
    BY <2>1, <2>2
<1>9. CompletedIffPlaced'
  <2>1. CASE Claimable(r)
    BY <1>0, <1>b, <1>c, <1>e, <1>f, <1>d, <2>1 DEF CompletedIffPlaced
  <2>2. CASE ~Claimable(r)
    BY <1>0, <1>a, <1>c, <1>e, <1>f, <2>2 DEF CompletedIffPlaced
  <2>. QED
    BY <2>1, <2>2
<1>10. ShownOrdersAreReal'
  <2>1. CASE Claimable(r)
    BY <1>0, <1>b, <1>c, <1>e, <1>f, <1>d, <2>1 DEF ShownOrdersAreReal
  <2>2. CASE ~Claimable(r)
    BY <1>0, <1>a, <1>c, <1>e, <1>f, <2>2 DEF ShownOrdersAreReal
  <2>. QED
    BY <2>1, <2>2
<1>. QED
  BY <1>1, <1>2, <1>3, <1>4, <1>5, <1>6, <1>7, <1>8, <1>9, <1>10 DEF IInv

(* Whatever token it reads, the row is the same row. *)
LEMMA RereadKeeps ==
    ASSUME NEW r \in Request, IInv, Reread(r) PROVE IInv'
<1>0. TypeOK /\ LooksLeft /\ LockHeld /\ FinalizedOwns /\ MineIsRow /\ RowKeyed
      /\ IdsUsedOnce /\ AtMostOneOrder /\ CompletedIffPlaced /\ ShownOrdersAreReal
  BY DEF IInv
<1>. USE ConstantsAssumption DEF Reread, Goto, Copy, TypeOK, Row
<1>1. TypeOK'
  BY <1>0, Reread(r)
<1>2. LooksLeft'
  BY <1>0, Reread(r) DEF LooksLeft
<1>3. LockHeld'
  BY <1>0, Reread(r) DEF LockHeld
<1>4. FinalizedOwns'
  BY <1>0, Reread(r) DEF FinalizedOwns, Owns
<1>5. MineIsRow'
  BY <1>0, Reread(r) DEF MineIsRow, Holding
<1>6. RowKeyed'
  BY <1>0, Reread(r) DEF RowKeyed
<1>7. IdsUsedOnce'
  BY <1>0, Reread(r) DEF IdsUsedOnce
<1>8. AtMostOneOrder'
  BY <1>0, Reread(r) DEF AtMostOneOrder
<1>9. CompletedIffPlaced'
  BY <1>0, Reread(r) DEF CompletedIffPlaced
<1>10. ShownOrdersAreReal'
  BY <1>0, Reread(r) DEF ShownOrdersAreReal
<1>. QED
  BY <1>1, <1>2, <1>3, <1>4, <1>5, <1>6, <1>7, <1>8, <1>9, <1>10 DEF IInv

(* finalize takes the row lock and checks the fence. *)
LEMMA FinalizeKeeps ==
    ASSUME NEW r \in Request, IInv, Finalize(r) PROVE IInv'
<1>0. TypeOK /\ LooksLeft /\ LockHeld /\ FinalizedOwns /\ MineIsRow /\ RowKeyed
      /\ IdsUsedOnce /\ AtMostOneOrder /\ CompletedIffPlaced /\ ShownOrdersAreReal
  BY DEF IInv
<1>. USE ConstantsAssumption DEF Finalize, Goto, Owns, RowFree, TypeOK, Row
<1>1. TypeOK'
  BY <1>0, Finalize(r)
<1>2. LooksLeft'
  BY <1>0, Finalize(r) DEF LooksLeft
<1>3. LockHeld'
  BY <1>0, Finalize(r) DEF LockHeld
<1>4. FinalizedOwns'
  BY <1>0, Finalize(r) DEF FinalizedOwns
<1>5. MineIsRow'
  BY <1>0, Finalize(r) DEF MineIsRow, Holding
<1>6. RowKeyed'
  BY <1>0, Finalize(r) DEF RowKeyed
<1>7. IdsUsedOnce'
  BY <1>0, Finalize(r) DEF IdsUsedOnce
<1>8. AtMostOneOrder'
  BY <1>0, Finalize(r) DEF AtMostOneOrder
<1>9. CompletedIffPlaced'
  BY <1>0, Finalize(r) DEF CompletedIffPlaced
<1>10. ShownOrdersAreReal'
  BY <1>0, Finalize(r) DEF ShownOrdersAreReal
<1>. QED
  BY <1>1, <1>2, <1>3, <1>4, <1>5, <1>6, <1>7, <1>8, <1>9, <1>10 DEF IInv

(* The row that completes was PROCESSING, so no order had been placed under it. *)
LEMMA CommitKeeps ==
    ASSUME NEW r \in Request, IInv, Commit(r) PROVE IInv'
<1>0. TypeOK /\ LooksLeft /\ LockHeld /\ FinalizedOwns /\ MineIsRow /\ RowKeyed
      /\ IdsUsedOnce /\ AtMostOneOrder /\ CompletedIffPlaced /\ ShownOrdersAreReal
  BY DEF IInv
<1>. USE ConstantsAssumption DEF Commit, Completed, Goto, Answer, TypeOK, Row
<1>a. /\ row.status = "PROCESSING" /\ row.id \in Request /\ row.fp = FP[r]
      /\ mine[r].id = row.id
      /\ \A s \in Request : s # r => pc[s] # "finalized"
      /\ \A s \in Request : placed[s] # row.id
  BY <1>0, Commit(r) DEF FinalizedOwns, Owns, RowKeyed, MineIsRow, Holding, LockHeld, CompletedIffPlaced
<1>b. /\ row' \in Row
      /\ row'.status = "COMPLETED" /\ row'.order = r /\ row'.id = row.id /\ row'.fp = row.fp
  BY <1>0, Commit(r)
<1>c. placed' = [placed EXCEPT ![r] = row.id]
  BY Commit(r)
<1>d. /\ \A s \in Request : s # r => pc'[s] = pc[s]
      /\ pc'[r] \in {"failing", "done"}
      /\ shown' = shown \/ shown' = [shown EXCEPT ![r] = r]
  BY <1>0, Commit(r)
<1>1. TypeOK'
  <2>1. Goto(r, "failing") \/ Answer(r, "created", r)
    <3>. USE DEF Goto, Answer
    <3>. QED BY Commit(r)
  <2>2. /\ pc' \in [Request -> Pending \cup {"new", "done"}]
        /\ answer' \in [Request -> Outcomes \cup {"none"}]
        /\ shown' \in [Request -> Maybe]
    BY <1>0, <2>1, GotoTyped, AnswerTyped
  <2>. QED
    BY <1>0, <1>a, <1>b, <2>2, Commit(r)
<1>2. LooksLeft'
  BY <1>0, <1>a, <1>b, <1>c, <1>d, Commit(r) DEF LooksLeft
<1>3. LockHeld'
  BY <1>0, <1>a, <1>b, <1>c, <1>d, Commit(r) DEF LockHeld
<1>4. FinalizedOwns'
  BY <1>0, <1>a, <1>b, <1>c, <1>d, Commit(r) DEF FinalizedOwns, Owns
<1>5. MineIsRow'
  BY <1>0, <1>a, <1>b, <1>c, <1>d, Commit(r) DEF MineIsRow, Holding
<1>6. RowKeyed'
  BY <1>0, <1>a, <1>b, <1>c, <1>d, Commit(r) DEF RowKeyed
<1>7. IdsUsedOnce'
  BY <1>0, <1>a, <1>b, <1>c, <1>d, Commit(r) DEF IdsUsedOnce
<1>8. AtMostOneOrder'
  BY <1>0, <1>a, <1>b, <1>c, <1>d, Commit(r) DEF AtMostOneOrder
<1>9. CompletedIffPlaced'
  BY <1>0, <1>a, <1>b, <1>c, <1>d, Commit(r) DEF CompletedIffPlaced
<1>10. ShownOrdersAreReal'
  BY <1>0, <1>a, <1>b, <1>c, <1>d, Commit(r) DEF ShownOrdersAreReal
<1>. QED
  BY <1>1, <1>2, <1>3, <1>4, <1>5, <1>6, <1>7, <1>8, <1>9, <1>10 DEF IInv

(* A roll-back changes neither row nor orders. *)
LEMMA FailKeeps ==
    ASSUME NEW r \in Request, IInv, Fail(r) PROVE IInv'
<1>0. TypeOK /\ LooksLeft /\ LockHeld /\ FinalizedOwns /\ MineIsRow /\ RowKeyed
      /\ IdsUsedOnce /\ AtMostOneOrder /\ CompletedIffPlaced /\ ShownOrdersAreReal
  BY DEF IInv
<1>. USE ConstantsAssumption DEF Fail, Released, Goto, TypeOK, Row
<1>1. TypeOK'
  BY <1>0, Fail(r)
<1>2. LooksLeft'
  BY <1>0, Fail(r) DEF LooksLeft
<1>3. LockHeld'
  BY <1>0, Fail(r) DEF LockHeld
<1>4. FinalizedOwns'
  BY <1>0, Fail(r) DEF FinalizedOwns, Owns
<1>5. MineIsRow'
  BY <1>0, Fail(r) DEF MineIsRow, Holding
<1>6. RowKeyed'
  BY <1>0, Fail(r) DEF RowKeyed
<1>7. IdsUsedOnce'
  BY <1>0, Fail(r) DEF IdsUsedOnce
<1>8. AtMostOneOrder'
  BY <1>0, Fail(r) DEF AtMostOneOrder
<1>9. CompletedIffPlaced'
  BY <1>0, Fail(r) DEF CompletedIffPlaced
<1>10. ShownOrdersAreReal'
  BY <1>0, Fail(r) DEF ShownOrdersAreReal
<1>. QED
  BY <1>1, <1>2, <1>3, <1>4, <1>5, <1>6, <1>7, <1>8, <1>9, <1>10 DEF IInv

(* markFailed finds no transaction past finalize. *)
LEMMA MarkFailedKeeps ==
    ASSUME NEW r \in Request, IInv, MarkFailed(r) PROVE IInv'
<1>0. TypeOK /\ LooksLeft /\ LockHeld /\ FinalizedOwns /\ MineIsRow /\ RowKeyed
      /\ IdsUsedOnce /\ AtMostOneOrder /\ CompletedIffPlaced /\ ShownOrdersAreReal
  BY DEF IInv
<1>. USE ConstantsAssumption DEF MarkFailed, Answer, RowFree, Owns, TypeOK, Row
<1>1. TypeOK'
  BY <1>0, MarkFailed(r)
<1>2. LooksLeft'
  BY <1>0, MarkFailed(r) DEF LooksLeft
<1>3. LockHeld'
  BY <1>0, MarkFailed(r) DEF LockHeld
<1>4. FinalizedOwns'
  <2>1. \A s \in Request : pc[s] # "finalized"
    BY <1>0, MarkFailed(r) DEF LockHeld
  <2>2. \A s \in Request : pc'[s] # "finalized"
    BY <1>0, <2>1, MarkFailed(r)
  <2>. QED
    BY <2>2 DEF FinalizedOwns
<1>5. MineIsRow'
  BY <1>0, MarkFailed(r) DEF MineIsRow, Holding
<1>6. RowKeyed'
  BY <1>0, MarkFailed(r) DEF RowKeyed
<1>7. IdsUsedOnce'
  BY <1>0, MarkFailed(r) DEF IdsUsedOnce
<1>8. AtMostOneOrder'
  BY <1>0, MarkFailed(r) DEF AtMostOneOrder
<1>9. CompletedIffPlaced'
  BY <1>0, MarkFailed(r) DEF CompletedIffPlaced
<1>10. ShownOrdersAreReal'
  BY <1>0, MarkFailed(r) DEF ShownOrdersAreReal
<1>. QED
  BY <1>1, <1>2, <1>3, <1>4, <1>5, <1>6, <1>7, <1>8, <1>9, <1>10 DEF IInv

(* The winner it shows has the fingerprint of the row, which is its own. *)
LEMMA ResolveAfterSupersessionKeeps ==
    ASSUME NEW r \in Request, IInv, ResolveAfterSupersession(r) PROVE IInv'
<1>0. TypeOK /\ LooksLeft /\ LockHeld /\ FinalizedOwns /\ MineIsRow /\ RowKeyed
      /\ IdsUsedOnce /\ AtMostOneOrder /\ CompletedIffPlaced /\ ShownOrdersAreReal
  BY DEF IInv
<1>. USE ConstantsAssumption DEF ResolveAfterSupersession, Answer, TypeOK, Row
<1>1. TypeOK'
  BY <1>0, ResolveAfterSupersession(r)
<1>2. LooksLeft'
  BY <1>0, ResolveAfterSupersession(r) DEF LooksLeft
<1>3. LockHeld'
  BY <1>0, ResolveAfterSupersession(r) DEF LockHeld
<1>4. FinalizedOwns'
  BY <1>0, ResolveAfterSupersession(r) DEF FinalizedOwns, Owns
<1>5. MineIsRow'
  BY <1>0, ResolveAfterSupersession(r) DEF MineIsRow, Holding
<1>6. RowKeyed'
  BY <1>0, ResolveAfterSupersession(r) DEF RowKeyed
<1>7. IdsUsedOnce'
  BY <1>0, ResolveAfterSupersession(r) DEF IdsUsedOnce
<1>8. AtMostOneOrder'
  BY <1>0, ResolveAfterSupersession(r) DEF AtMostOneOrder
<1>9. CompletedIffPlaced'
  BY <1>0, ResolveAfterSupersession(r) DEF CompletedIffPlaced
<1>10. ShownOrdersAreReal'
  <2>1. row.status = "COMPLETED" => /\ row.order \in Request /\ placed[row.order] # None
                                    /\ FP[row.order] = FP[r]
    BY <1>0, ResolveAfterSupersession(r)
       DEF MineIsRow, Holding, RowKeyed, CompletedIffPlaced
  <2>2. \E order \in Maybe : /\ shown' = [shown EXCEPT ![r] = order]
                             /\ order # None => placed[order] # None /\ FP[order] = FP[r]
    BY <1>0, <2>1, ResolveAfterSupersession(r)
  <2>. QED
    BY <1>0, <2>2, ResolveAfterSupersession(r) DEF ShownOrdersAreReal
<1>. QED
  BY <1>1, <1>2, <1>3, <1>4, <1>5, <1>6, <1>7, <1>8, <1>9, <1>10 DEF IInv

(* A death rolls back the transaction and touches no row. *)
LEMMA CrashKeeps ==
    ASSUME NEW r \in Request, IInv, Crash(r) PROVE IInv'
<1>0. TypeOK /\ LooksLeft /\ LockHeld /\ FinalizedOwns /\ MineIsRow /\ RowKeyed
      /\ IdsUsedOnce /\ AtMostOneOrder /\ CompletedIffPlaced /\ ShownOrdersAreReal
  BY DEF IInv
<1>. USE ConstantsAssumption DEF Crash, Released, Answer, TypeOK, Row
<1>1. TypeOK'
  BY <1>0, Crash(r)
<1>2. LooksLeft'
  BY <1>0, Crash(r) DEF LooksLeft
<1>3. LockHeld'
  BY <1>0, Crash(r) DEF LockHeld
<1>4. FinalizedOwns'
  BY <1>0, Crash(r) DEF FinalizedOwns, Owns
<1>5. MineIsRow'
  BY <1>0, Crash(r) DEF MineIsRow, Holding
<1>6. RowKeyed'
  BY <1>0, Crash(r) DEF RowKeyed
<1>7. IdsUsedOnce'
  BY <1>0, Crash(r) DEF IdsUsedOnce
<1>8. AtMostOneOrder'
  BY <1>0, Crash(r) DEF AtMostOneOrder
<1>9. CompletedIffPlaced'
  BY <1>0, Crash(r) DEF CompletedIffPlaced
<1>10. ShownOrdersAreReal'
  BY <1>0, Crash(r) DEF ShownOrdersAreReal
<1>. QED
  BY <1>1, <1>2, <1>3, <1>4, <1>5, <1>6, <1>7, <1>8, <1>9, <1>10 DEF IInv

(* Ownership only ages. *)
LEMMA OwnershipAgesKeeps ==
    ASSUME IInv, OwnershipAges PROVE IInv'
<1>0. TypeOK /\ LooksLeft /\ LockHeld /\ FinalizedOwns /\ MineIsRow /\ RowKeyed
      /\ IdsUsedOnce /\ AtMostOneOrder /\ CompletedIffPlaced /\ ShownOrdersAreReal
  BY DEF IInv
<1>1. /\ row' \in Row
      /\ row'.id = row.id /\ row'.status = row.status /\ row'.token = row.token
      /\ row'.fp = row.fp /\ row'.order = row.order
      /\ UNCHANGED <<rowLock, placed, pc, looks, mine, answer, shown>>
  BY <1>0 DEF OwnershipAges, TypeOK, Row
<1>2. TypeOK' /\ LooksLeft' /\ LockHeld' /\ FinalizedOwns'
  BY <1>0, <1>1 DEF TypeOK, LooksLeft, LockHeld, FinalizedOwns, Owns
<1>3. MineIsRow' /\ RowKeyed' /\ IdsUsedOnce'
  BY <1>0, <1>1 DEF MineIsRow, RowKeyed, IdsUsedOnce
<1>4. AtMostOneOrder' /\ CompletedIffPlaced' /\ ShownOrdersAreReal'
  BY <1>0, <1>1 DEF AtMostOneOrder, CompletedIffPlaced, ShownOrdersAreReal
<1>. QED
  BY <1>2, <1>3, <1>4 DEF IInv

(* The sweep takes a row that no request is working on. *)
LEMMA RetentionDeleteKeeps ==
    ASSUME IInv, RetentionDelete PROVE IInv'
<1>0. TypeOK /\ LooksLeft /\ LockHeld /\ FinalizedOwns /\ MineIsRow /\ RowKeyed
      /\ IdsUsedOnce /\ AtMostOneOrder /\ CompletedIffPlaced /\ ShownOrdersAreReal
  BY DEF IInv
<1>1. /\ row' = NoRow
      /\ \A r \in Request : pc[r] \in {"new", "done"}
      /\ UNCHANGED <<rowLock, placed, pc, looks, mine, answer, shown>>
  BY DEF RetentionDelete
<1>2. TypeOK' /\ LooksLeft' /\ LockHeld' /\ FinalizedOwns'
  BY <1>0, <1>1 DEF TypeOK, Row, NoRow, LooksLeft, LockHeld, FinalizedOwns
<1>3. MineIsRow' /\ RowKeyed' /\ IdsUsedOnce'
  BY <1>0, <1>1, ConstantsAssumption DEF MineIsRow, Holding, RowKeyed, NoRow, IdsUsedOnce
<1>4. AtMostOneOrder' /\ CompletedIffPlaced' /\ ShownOrdersAreReal'
  BY <1>0, <1>1 DEF AtMostOneOrder, CompletedIffPlaced, ShownOrdersAreReal, NoRow
<1>. QED
  BY <1>2, <1>3, <1>4 DEF IInv

-----------------------------------------------------------------------------
(* Every step keeps the invariant. *)
LEMMA NextInv == IInv /\ [Next]_vars => IInv'
<1>. SUFFICES ASSUME IInv, [Next]_vars PROVE IInv'
  OBVIOUS
<1>1. ASSUME NEW r \in Request, Arrive(r) \/ Handle(r) \/ Crash(r) PROVE IInv'
  BY <1>1, ArriveKeeps, LookKeeps, CreateKeeps, ClaimKeeps, RereadKeeps, FinalizeKeeps,
     CommitKeeps, FailKeeps, MarkFailedKeeps, ResolveAfterSupersessionKeeps, CrashKeeps
     DEF Handle
<1>2. CASE OwnershipAges
  BY <1>2, OwnershipAgesKeeps
<1>3. CASE RetentionDelete
  BY <1>3, RetentionDeleteKeeps
<1>4. CASE UNCHANGED vars
  <2>1. TypeOK' /\ LooksLeft' /\ LockHeld' /\ FinalizedOwns'
    BY <1>4 DEF vars, IInv, TypeOK, Row, LooksLeft, LockHeld, FinalizedOwns, Owns
  <2>2. MineIsRow' /\ RowKeyed' /\ IdsUsedOnce'
    BY <1>4 DEF vars, IInv, MineIsRow, RowKeyed, IdsUsedOnce
  <2>3. AtMostOneOrder' /\ CompletedIffPlaced' /\ ShownOrdersAreReal'
    BY <1>4 DEF vars, IInv, AtMostOneOrder, CompletedIffPlaced, ShownOrdersAreReal
  <2>. QED
    BY <2>1, <2>2, <2>3 DEF IInv
<1>. QED
  BY <1>1, <1>2, <1>3, <1>4 DEF Next

(* The invariant holds of every reachable state. *)
LEMMA InvHolds == Spec => []IInv
BY InitInv, NextInv, PTL DEF Spec

(* The key's row, its lock and what each request holds in hand keep their types:   *)
(* a request looks twice at most (begin and the look after a lost create).         *)
THEOREM CheckoutTypes == Spec => []TypeOK
<1>1. IInv => TypeOK
  BY DEF IInv
<1>. QED
  BY <1>1, InvHolds, PTL

(* However many attempts carry a key, and however they overlap, stall, fail and   *)
(* die: one order at most is placed per reservation of it (begin, claim, finalize, *)
(* markFailed and resolveAfterSupersession together).                            *)
THEOREM OneOrderPerKey == Spec => []AtMostOneOrder
<1>1. IInv => AtMostOneOrder
  BY DEF IInv
<1>. QED
  BY <1>1, InvHolds, PTL

(* The key says COMPLETED exactly when its order exists: finalize commits with the *)
(* order, and markFailed of a commit reported as an error changes nothing.        *)
THEOREM CompletedMeansPlaced == Spec => []CompletedIffPlaced
<1>1. IInv => CompletedIffPlaced
  BY DEF IInv
<1>. QED
  BY <1>1, InvHolds, PTL

(* Nobody is answered with an order that does not exist or is not of their cart    *)
(* (handleExisting compares the fingerprint).                                    *)
THEOREM AnswersAreReal == Spec => []ShownOrdersAreReal
<1>1. IInv => ShownOrdersAreReal
  BY DEF IInv
<1>. QED
  BY <1>1, InvHolds, PTL

(* No straggler reopens a completed key: claim and markFailed are fenced, and    *)
(* whatever transaction is past finalize still owns a PROCESSING row.            *)
THEOREM CompletedStaysCompleted == Spec => CompletedIsFinal
<1>1. ASSUME IInv, [Next]_vars, row.status = "COMPLETED"
      PROVE  row' = row \/ row' = NoRow
  <2>1. ASSUME NEW r \in Request, Arrive(r) \/ Handle(r) \/ Crash(r)
        PROVE  row' = row
    <3>1. ~Owns(r) /\ ~Claimable(r) /\ pc[r] # "finalized"
      BY <1>1 DEF IInv, FinalizedOwns, Owns, Claimable, Retryable
    <3>. QED
      BY <1>1, <2>1, <3>1 DEF Handle, Arrive, Look, Create, Claim, Reread, Finalize, Commit,
         Fail, MarkFailed, ResolveAfterSupersession, Crash
  <2>. QED
    BY <1>1, <2>1 DEF Next, OwnershipAges, RetentionDelete, vars
<1>2. IInv /\ [Next]_vars =>
        [(row.status = "COMPLETED") => \/ row' = row
                                       \/ row' = NoRow]_vars
  BY <1>1
<1>. QED
  BY <1>2, InvHolds, PTL DEF Spec, CompletedIsFinal

-----------------------------------------------------------------------------
(* The refinement: what the requests have been told, and the row's fingerprint.  *)

AnsweredAtEnd == \A r \in Request : answer[r] = "none" <=> pc[r] # "done"

(* A request whose order was placed is answered, or about to be told of an error. *)
PlacedAtEnd == \A r \in Request : placed[r] # None => pc[r] \in {"failing", "done"}

(* A row answers the fingerprint of the request that created it. *)
RowPrinted == row.status # "ABSENT" => row.id \in Request /\ row.fp = FP[row.id]

OnceInv == AnsweredAtEnd /\ PlacedAtEnd /\ RowPrinted

(* A step of a request that keeps it at work, and one that ends it. *)
LEMMA GotoEnds ==
    ASSUME NEW r \in Request, NEW at \in Pending, TypeOK, AnsweredAtEnd, pc[r] # "done", Goto(r, at)
    PROVE  AnsweredAtEnd'
BY DEF AnsweredAtEnd, Goto, TypeOK

(* The same of an answer. *)
LEMMA AnswerEnds ==
    ASSUME NEW r \in Request, NEW what \in Outcomes, NEW order, TypeOK, AnsweredAtEnd,
           Answer(r, what, order)
    PROVE  AnsweredAtEnd'
BY DEF AnsweredAtEnd, Answer, TypeOK

(* Every action sends its request on or answers it, once. *)
LEMMA StepTells ==
    ASSUME NEW r \in Request, IInv, Arrive(r) \/ Handle(r) \/ Crash(r)
    PROVE  /\ pc[r] # "done"
           /\ \/ \E at \in Pending : Goto(r, at)
              \/ \E what \in Outcomes, order \in Maybe : Answer(r, what, order)
<1>. DEFINE Told == \/ \E at \in Pending : Goto(r, at)
                    \/ \E what \in Outcomes, order \in Maybe : Answer(r, what, order)
<1>0. row.order \in Maybe /\ None \in Maybe /\ r \in Maybe
  BY DEF IInv, TypeOK, Row
<1>1. CASE Arrive(r)
  BY <1>1 DEF Arrive
<1>2. CASE Look(r)
  BY <1>0, <1>2 DEF Look
<1>3. CASE Create(r)
  BY <1>0, <1>3 DEF Create, Lost
<1>4. CASE Claim(r)
  BY <1>0, <1>4 DEF Claim, Lost
<1>5. CASE Reread(r)
  BY <1>5 DEF Reread
<1>6. CASE Finalize(r)
  BY <1>6 DEF Finalize
<1>7. CASE Commit(r)
  BY <1>0, <1>7 DEF Commit
<1>8. CASE Fail(r)
  BY <1>8 DEF Fail
<1>9. CASE MarkFailed(r)
  BY <1>0, <1>9 DEF MarkFailed
<1>10. CASE ResolveAfterSupersession(r)
  BY <1>0, <1>10 DEF ResolveAfterSupersession
<1>11. CASE Crash(r)
  BY <1>0, <1>11 DEF Crash
<1>. QED
  BY <1>1, <1>2, <1>3, <1>4, <1>5, <1>6, <1>7, <1>8, <1>9, <1>10, <1>11 DEF Handle

(* Initially nobody is answered and nothing is placed. *)
LEMMA InitOnce == Init => OnceInv
BY DEF Init, NoRow, OnceInv, AnsweredAtEnd, PlacedAtEnd, RowPrinted

(* A request's step keeps it: only a commit places, only a create or a claim     *)
(* writes the fingerprint, which is then the request's own.                      *)
LEMMA StepOnce ==
    ASSUME NEW r \in Request, IInv, OnceInv, Arrive(r) \/ Handle(r) \/ Crash(r)
    PROVE  OnceInv'
<1>0. TypeOK /\ MineIsRow /\ FinalizedOwns /\ AnsweredAtEnd /\ PlacedAtEnd /\ RowPrinted
  BY DEF IInv, OnceInv
<1>1. AnsweredAtEnd'
  BY <1>0, StepTells, GotoEnds, AnswerEnds
<1>2. PlacedAtEnd'
  <2>1. \A s \in Request \ {r} : pc'[s] = pc[s]
    BY <1>0, StepTells DEF TypeOK, Goto, Answer
  <2>2. CASE Commit(r)
    <3>1. pc'[r] \in {"failing", "done"}
      BY <1>0, <2>2 DEF Commit, Goto, Answer, TypeOK
    <3>2. \A s \in Request \ {r} : placed'[s] = placed[s]
      BY <1>0, <2>2 DEF Commit, TypeOK
    <3>. QED
      BY <1>0, <2>1, <3>1, <3>2 DEF PlacedAtEnd
  <2>3. CASE ~Commit(r)
    <3>1. placed' = placed
      BY <2>3 DEF Handle, Arrive, Look, Create, Claim, Reread, Finalize, Fail, MarkFailed,
         ResolveAfterSupersession, Crash
    <3>2. pc[r] = "failing" => pc'[r] = "done"
      BY <1>0, <2>3 DEF Handle, Arrive, Look, Create, Claim, Reread, Finalize, Fail, MarkFailed,
         ResolveAfterSupersession, Crash, Answer, TypeOK
    <3>3. pc[r] # "done"
      BY StepTells
    <3>. QED
      BY <1>0, <2>1, <3>1, <3>2, <3>3 DEF PlacedAtEnd
  <2>. QED
    BY <2>2, <2>3
<1>3. RowPrinted'
  <2>1. row \in Row
    BY <1>0 DEF TypeOK
  <2>2. CASE Create(r)
    BY <1>0, <2>2 DEF Create, RowPrinted
  <2>3. CASE Claim(r)
    <3>1. row.status # "ABSENT" /\ row.fp = FP[r]
      BY <1>0, <2>3 DEF MineIsRow, Holding, Claim
    <3>2. row' = row \/ (row'.status = "PROCESSING" /\ row'.id = row.id /\ row'.fp = FP[r])
      BY <2>1, <2>3 DEF Claim, Row
    <3>. QED
      BY <1>0, <3>1, <3>2 DEF RowPrinted
  <2>4. CASE Commit(r)
    <3>1. row.status # "ABSENT"
      BY <1>0, <2>4 DEF Commit, FinalizedOwns, Owns
    <3>2. row'.id = row.id /\ row'.fp = row.fp
      BY <2>1, <2>4 DEF Commit, Completed, Row
    <3>. QED
      BY <1>0, <3>1, <3>2 DEF RowPrinted
  <2>5. CASE MarkFailed(r)
    <3>1. row' = row \/ (row.status # "ABSENT" /\ row'.id = row.id /\ row'.fp = row.fp)
      BY <2>1, <2>5 DEF MarkFailed, Owns, Row
    <3>. QED
      BY <1>0, <3>1 DEF RowPrinted
  <2>6. CASE ~(Create(r) \/ Claim(r) \/ Commit(r) \/ MarkFailed(r))
    <3>1. row' = row
      BY <2>6 DEF Handle, Arrive, Look, Reread, Finalize, Fail, ResolveAfterSupersession, Crash
    <3>. QED
      BY <1>0, <3>1 DEF RowPrinted
  <2>. QED
    BY <2>2, <2>3, <2>4, <2>5, <2>6
<1>. QED
  BY <1>1, <1>2, <1>3 DEF OnceInv

(* Ageing keeps the fingerprint, retention removes it with the row. *)
LEMMA NextOnce == IInv /\ OnceInv /\ [Next]_vars => OnceInv'
<1>. SUFFICES ASSUME IInv, OnceInv, [Next]_vars PROVE OnceInv'
  OBVIOUS
<1>1. ASSUME NEW r \in Request, Arrive(r) \/ Handle(r) \/ Crash(r) PROVE OnceInv'
  BY <1>1, StepOnce
<1>2. CASE OwnershipAges
  <2>1. row'.status = row.status /\ row'.id = row.id /\ row'.fp = row.fp
    BY <1>2 DEF OwnershipAges, IInv, TypeOK, Row
  <2>. QED
    BY <1>2, <2>1 DEF OwnershipAges, OnceInv, AnsweredAtEnd, PlacedAtEnd, RowPrinted
<1>3. CASE RetentionDelete
  BY <1>3 DEF RetentionDelete, NoRow, OnceInv, AnsweredAtEnd, PlacedAtEnd, RowPrinted
<1>4. CASE UNCHANGED vars
  BY <1>4 DEF vars, OnceInv, AnsweredAtEnd, PlacedAtEnd, RowPrinted
<1>. QED
  BY <1>1, <1>2, <1>3, <1>4 DEF Next

(* The strengthened invariant holds of every reachable state. *)
LEMMA OnceInvHolds == Spec => [](IInv /\ OnceInv)
BY InitInv, NextInv, InitOnce, NextOnce, PTL DEF Spec

-----------------------------------------------------------------------------
(* Every step of the protocol is a step of CheckoutOnce, or changes nothing of it. *)

(* No key, no order, nobody at work: CheckoutOnce starts the same. *)
LEMMA InitRefines == Init => Once!Init
BY DEF Init, NoRow, Once!Init, Active, Kept, Orders, Pending

(* A request that goes on stays active and has told nothing. *)
LEMMA GotoStutters ==
    ASSUME NEW r \in Request, NEW at \in Pending, TypeOK, pc[r] \in Pending, Goto(r, at)
    PROVE  UNCHANGED <<Active, answer, shown>>
BY DEF TypeOK, Goto, Active

(* An answer is the end of a request, and its first. *)
LEMMA AnswerTells ==
    ASSUME NEW r \in Request, NEW what \in Outcomes, NEW order \in Maybe,
           TypeOK, AnsweredAtEnd, pc[r] \in Pending, Answer(r, what, order)
    PROVE  Once!Tell(r, what, order)
<1>1. r \in Active /\ Active' = Active \ {r}
  BY DEF TypeOK, Answer, Active
<1>. QED
  BY <1>1 DEF Answer, Once!Tell

(* Orders change with placed, and what the key keeps with the row. *)
LEMMA RowStutters ==
    ASSUME UNCHANGED placed, row' = row \/ (row.status # "COMPLETED" /\ row'.status # "COMPLETED")
    PROVE  UNCHANGED <<Kept, Orders>>
BY DEF Kept, Orders

(* A completed row's order was placed; whoever fits the row asked for the same. *)
LEMMA KeptFits ==
    ASSUME NEW r \in Request, IInv, row.status = "COMPLETED", row.fp = FP[r]
    PROVE  Kept = row.order /\ Kept \in Orders /\ FP[Kept] = FP[r]
BY ConstantsAssumption DEF IInv, CompletedIffPlaced, RowKeyed, Kept, Orders

(* A request that is not past its commit has placed nothing. *)
LEMMA Unplaced ==
    ASSUME NEW r \in Request, OnceInv, pc[r] \notin {"failing", "done"}
    PROVE  r \notin Orders
BY DEF OnceInv, PlacedAtEnd, Orders

(* A lost race for the row sends a request back, or defers it. *)
LEMMA LostRefines ==
    ASSUME NEW r \in Request, IInv, OnceInv, pc[r] \in {"create", "claim"}, Lost(r),
           UNCHANGED <<Kept, Orders>>
    PROVE  Once!Defer(r) \/ UNCHANGED Once!vars
<1>0. TypeOK /\ AnsweredAtEnd /\ r \notin Orders
  BY Unplaced DEF IInv, OnceInv
<1>1. CASE Goto(r, "begin")
  BY <1>0, <1>1, GotoStutters DEF Once!vars
<1>2. CASE Answer(r, "processing", None)
  BY <1>0, <1>2, AnswerTells DEF Once!Defer
<1>. QED
  BY <1>1, <1>2 DEF Lost

(* A request comes in. *)
LEMMA ArriveRefines ==
    ASSUME NEW r \in Request, IInv, OnceInv, Arrive(r) PROVE Once!Arrive(r)
<1>1. r \notin Active /\ answer[r] = "none"
  BY DEF Arrive, Active, OnceInv, AnsweredAtEnd
<1>2. Active' = Active \cup {r}
  BY DEF Arrive, Goto, Active, IInv, TypeOK
<1>3. UNCHANGED <<Kept, Orders, answer, shown>>
  BY DEF Arrive, Goto, Kept, Orders
<1>. QED
  BY <1>1, <1>2, <1>3 DEF Once!Arrive

(* What a look answers is a replay, a deferral, or a mismatch with the cart of    *)
(* the request that created the row.                                             *)
LEMMA LookRefines ==
    ASSUME NEW r \in Request, IInv, OnceInv, Look(r)
    PROVE  Once!Replay(r) \/ Once!Defer(r) \/ Once!Mismatch(r) \/ UNCHANGED Once!vars
<1>0. /\ TypeOK /\ AnsweredAtEnd /\ RowPrinted /\ pc[r] \in Pending /\ r \notin Orders
      /\ UNCHANGED <<Kept, Orders>>
  BY Unplaced, RowStutters DEF IInv, OnceInv, Look
<1>1. CASE Goto(r, "create") \/ Goto(r, "claim")
  BY <1>0, <1>1, GotoStutters DEF Once!vars
<1>2. CASE Answer(r, "processing", None)
  BY <1>0, <1>2, AnswerTells DEF Once!Defer
<1>3. CASE row.status # "ABSENT" /\ ~Fits(r) /\ Answer(r, "mismatch", None)
  BY <1>0, <1>3, AnswerTells DEF Once!Mismatch, Fits, RowPrinted
<1>4. CASE row.status = "COMPLETED" /\ Fits(r) /\ Answer(r, "replayed", row.order)
  <2>1. Kept = row.order /\ Kept \in Orders /\ FP[Kept] = FP[r]
    BY <1>4, KeptFits DEF Fits
  <2>2. row.order \in Maybe
    BY <1>0 DEF TypeOK, Row
  <2>3. Once!Tell(r, "replayed", Kept)
    BY <1>0, <1>4, <2>1, <2>2, AnswerTells
  <2>. QED
    BY <1>0, <2>1, <2>3 DEF Once!Replay
<1>. QED
  BY <1>1, <1>2, <1>3, <1>4 DEF Look

(* A new row stands for no order yet. *)
LEMMA CreateRefines ==
    ASSUME NEW r \in Request, IInv, OnceInv, Create(r)
    PROVE  Once!Defer(r) \/ UNCHANGED Once!vars
<1>1. UNCHANGED <<Kept, Orders>>
  BY RowStutters DEF Create
<1>2. CASE Goto(r, "work")
  BY <1>1, <1>2, GotoStutters DEF Create, IInv, Once!vars
<1>3. CASE Lost(r)
  BY <1>1, <1>3, LostRefines DEF Create
<1>. QED
  BY <1>2, <1>3 DEF Create

(* A completed row cannot be claimed. *)
LEMMA ClaimRefines ==
    ASSUME NEW r \in Request, IInv, OnceInv, Claim(r)
    PROVE  Once!Defer(r) \/ UNCHANGED Once!vars
<1>1. UNCHANGED <<Kept, Orders>>
  <2>1. CASE Claimable(r)
    <3>1. row.status # "COMPLETED" /\ row'.status = "PROCESSING" /\ UNCHANGED placed
      BY <2>1 DEF Claim, Claimable, Retryable, IInv, TypeOK, Row
    <3>. QED
      BY <3>1, RowStutters
  <2>2. CASE ~Claimable(r)
    BY <2>2, RowStutters DEF Claim
  <2>. QED
    BY <2>1, <2>2
<1>2. CASE Goto(r, "reread")
  BY <1>1, <1>2, GotoStutters DEF Claim, IInv, Once!vars
<1>3. CASE Lost(r)
  BY <1>1, <1>3, LostRefines DEF Claim
<1>. QED
  BY <1>2, <1>3 DEF Claim

(* The re-read, finalize and a failure are nobody else's business. *)
LEMMA InnerStutters ==
    ASSUME NEW r \in Request, IInv, Reread(r) \/ Finalize(r) \/ Fail(r)
    PROVE  UNCHANGED Once!vars
<1>1. UNCHANGED <<Kept, Orders>>
  BY RowStutters DEF Reread, Finalize, Fail
<1>2. pc[r] \in Pending /\ \E at \in Pending : Goto(r, at)
  BY DEF Reread, Finalize, Fail
<1>. QED
  BY <1>1, <1>2, GotoStutters DEF IInv, Once!vars

(* The commit places the order: the row it completes was PROCESSING, so the key    *)
(* stood for no order.                                                          *)
LEMMA CommitRefines ==
    ASSUME NEW r \in Request, IInv, OnceInv, Commit(r) PROVE Once!Place(r)
<1>0. TypeOK /\ AnsweredAtEnd /\ pc[r] = "finalized" /\ r \notin Orders
  BY Unplaced DEF IInv, OnceInv, Commit
<1>1. row.status = "PROCESSING" /\ row.id \in Request
  BY <1>0 DEF IInv, FinalizedOwns, Owns, RowKeyed
<1>2. r \in Active /\ Kept = None
  BY <1>0, <1>1 DEF Active, Kept
<1>3. row'.status = "COMPLETED" /\ row'.order = r /\ placed' = [placed EXCEPT ![r] = row.id]
  BY <1>0 DEF Commit, Completed, TypeOK, Row
<1>4. Kept' = r
  BY <1>3 DEF Kept
<1>5. Orders' = Orders \cup {r}
  BY <1>0, <1>1, <1>3, ConstantsAssumption DEF Orders, TypeOK
<1>6. CASE Answer(r, "created", r)
  <2>1. Once!Tell(r, "created", r)
    BY <1>0, <1>6, AnswerTells
  <2>. QED
    BY <1>0, <1>2, <1>4, <1>5, <2>1 DEF Once!Place
<1>7. CASE Goto(r, "failing")
  <2>1. UNCHANGED <<Active, answer, shown>>
    BY <1>0, <1>7, GotoStutters
  <2>. QED
    BY <1>0, <1>2, <1>4, <1>5, <2>1 DEF Once!Place
<1>. QED
  BY <1>6, <1>7 DEF Commit

(* markFailed owns a PROCESSING row or changes nothing; then the error is told. *)
LEMMA MarkFailedRefines ==
    ASSUME NEW r \in Request, IInv, OnceInv, MarkFailed(r) PROVE Once!Break(r)
<1>1. UNCHANGED <<Kept, Orders>>
  <2>1. row' = row \/ (row.status = "PROCESSING" /\ row'.status = "FAILED")
    BY DEF MarkFailed, Owns, IInv, TypeOK, Row
  <2>. QED
    BY <2>1, RowStutters DEF MarkFailed
<1>2. Once!Tell(r, "error", None)
  BY AnswerTells DEF MarkFailed, IInv, OnceInv
<1>. QED
  BY <1>1, <1>2 DEF Once!Break

(* A superseded request is shown the winner's order, or told to wait. *)
LEMMA ResolveRefines ==
    ASSUME NEW r \in Request, IInv, OnceInv, ResolveAfterSupersession(r)
    PROVE  Once!Replay(r) \/ Once!Defer(r)
<1>0. /\ TypeOK /\ AnsweredAtEnd /\ pc[r] \in Pending /\ r \notin Orders /\ row.fp = FP[r]
      /\ UNCHANGED <<Kept, Orders>>
  BY Unplaced, RowStutters DEF IInv, OnceInv, ResolveAfterSupersession, MineIsRow, Holding
<1>1. CASE row.status = "COMPLETED" /\ Answer(r, "replayed", row.order)
  <2>1. Kept = row.order /\ Kept \in Orders /\ FP[Kept] = FP[r]
    BY <1>0, <1>1, KeptFits
  <2>2. row.order \in Maybe
    BY <1>0 DEF TypeOK, Row
  <2>3. Once!Tell(r, "replayed", Kept)
    BY <1>0, <1>1, <2>1, <2>2, AnswerTells
  <2>. QED
    BY <1>0, <2>1, <2>3 DEF Once!Replay
<1>2. CASE Answer(r, "processing", None)
  BY <1>0, <1>2, AnswerTells DEF Once!Defer
<1>. QED
  BY <1>1, <1>2 DEF ResolveAfterSupersession

(* A death is an answer that never came. *)
LEMMA CrashRefines ==
    ASSUME NEW r \in Request, IInv, OnceInv, Crash(r) PROVE Once!Break(r)
<1>1. UNCHANGED <<Kept, Orders>>
  BY RowStutters DEF Crash
<1>2. Once!Tell(r, "lost", None)
  BY AnswerTells DEF Crash, IInv, OnceInv
<1>. QED
  BY <1>1, <1>2 DEF Once!Break

(* Ageing is invisible; retention finds nobody at work, and the key is forgotten. *)
LEMMA TimeRefines ==
    ASSUME IInv, OwnershipAges \/ RetentionDelete
    PROVE  Once!Forget \/ UNCHANGED Once!vars
<1>1. CASE OwnershipAges
  <2>1. row.status = "PROCESSING" /\ row'.status = "PROCESSING"
    BY <1>1 DEF OwnershipAges, IInv, TypeOK, Row
  <2>2. UNCHANGED <<Kept, Orders>>
    BY <1>1, <2>1, RowStutters DEF OwnershipAges
  <2>. QED
    BY <1>1, <2>2 DEF OwnershipAges, Active, Once!vars
<1>2. CASE RetentionDelete
  BY <1>2 DEF RetentionDelete, NoRow, Active, Kept, Orders, Once!Forget
<1>. QED
  BY <1>1, <1>2

(* The interleaved protocol of begin, claim, finalize and markFailed looks to its   *)
(* clients like one atomic step per key: for any number of attempts, whatever       *)
(* stalls, deaths, lost acknowledgements and take-overs come between.               *)
THEOREM KeyIsIdempotent == Spec => Idempotent
<1>1. ASSUME IInv, OnceInv, [Next]_vars PROVE [Once!Next]_(Once!vars)
  <2>1. ASSUME NEW r \in Request, Arrive(r) \/ Handle(r) \/ Crash(r)
        PROVE  [Once!Next]_(Once!vars)
    BY <1>1, <2>1, ArriveRefines, LookRefines, CreateRefines, ClaimRefines, InnerStutters, CommitRefines,
       MarkFailedRefines, ResolveRefines, CrashRefines DEF Handle, Once!Next
  <2>2. CASE OwnershipAges \/ RetentionDelete
    BY <1>1, <2>2, TimeRefines DEF Once!Next
  <2>3. CASE UNCHANGED vars
    BY <2>3 DEF vars, Once!vars, Active, Kept, Orders
  <2>. QED
    BY <1>1, <2>1, <2>2, <2>3 DEF Next
<1>2. IInv /\ OnceInv /\ [Next]_vars => [Once!Next]_(Once!vars)
  BY <1>1
<1>. QED
  BY <1>2, InitRefines, OnceInvHolds, PTL DEF Spec, Idempotent, Once!Spec

=============================================================================
