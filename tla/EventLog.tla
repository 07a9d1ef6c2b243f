------------------------------ MODULE EventLog ------------------------------
(***************************************************************************)
(* What the outbox promises of the events written to it (OutboxRelayWorker,    *)
(* class comment): each reaches the broker at least once, or its attempts are   *)
(* all spent; who publishes, under which lease, and what is lost or repeated on   *)
(* the way does not show.                                                      *)
(***************************************************************************)
EXTENDS Naturals

CONSTANTS NumRows, MaxAttempts

Row == 1 .. NumRows

VARIABLES status, attempts, accepted

vars == <<status, attempts, accepted>>

Init ==
    /\ status = [r \in Row |-> "ABSENT"]
    /\ attempts = [r \in Row |-> 0]
    /\ accepted = {}

Becomes(r, from, to) == status[r] = from /\ status' = [status EXCEPT ![r] = to]

(* Events are numbered as they are written. *)
Insert(r) ==
    /\ \A q \in Row : q < r => status[q] # "ABSENT"
    /\ Becomes(r, "ABSENT", "PENDING")
    /\ UNCHANGED <<attempts, accepted>>

(* The broker takes the message; it may take it again at any later time. *)
Reach(r) ==
    /\ status[r] # "ABSENT"
    /\ accepted' = accepted \cup {r}
    /\ UNCHANGED <<status, attempts>>

Publish(r) ==
    /\ r \in accepted
    /\ Becomes(r, "PENDING", "PUBLISHED")
    /\ UNCHANGED <<attempts, accepted>>

Spend(r) ==
    /\ attempts' = [attempts EXCEPT ![r] = @ + 1]
    /\ Becomes(r, "PENDING", IF attempts[r] + 1 < MaxAttempts THEN "PENDING" ELSE "FAILED")
    /\ UNCHANGED accepted

Redrive(r) ==
    /\ Becomes(r, "FAILED", "PENDING")
    /\ attempts' = [attempts EXCEPT ![r] = 0]
    /\ UNCHANGED accepted

Delete(r) ==
    /\ Becomes(r, "PUBLISHED", "DELETED") \/ Becomes(r, "FAILED", "DELETED")
    /\ UNCHANGED <<attempts, accepted>>

Next ==
    \E r \in Row : Insert(r) \/ Reach(r) \/ Publish(r) \/ Spend(r) \/ Redrive(r) \/ Delete(r)

Spec == Init /\ [][Next]_vars

=============================================================================
