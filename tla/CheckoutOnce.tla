--------------------------- MODULE CheckoutOnce ---------------------------
(***************************************************************************)
(* What an Idempotency-Key promises to the attempts that carry it             *)
(* (IdempotencyService, class comment): one of them places the order, at once;   *)
(* the others are answered with that order if they asked for the same, or         *)
(* refused.  The key is forgotten only when nobody is using it.                  *)
(***************************************************************************)
CONSTANTS
    Request, FP,
    None

VARIABLES
    active,     \* the requests under way
    kept,       \* the order the key stands for, named by its request, or None
    orders,     \* the requests whose order was placed
    answer,     \* [Request -> what the client was told]
    shown       \* [Request -> the order it was shown]

vars == <<active, kept, orders, answer, shown>>

Init ==
    /\ active = {}
    /\ kept = None
    /\ orders = {}
    /\ answer = [r \in Request |-> "none"]
    /\ shown = [r \in Request |-> None]

Arrive(r) ==
    /\ r \notin active
    /\ answer[r] = "none"
    /\ active' = active \cup {r}
    /\ UNCHANGED <<kept, orders, answer, shown>>

(* A request is answered once, and is done. *)
Tell(r, what, order) ==
    /\ r \in active
    /\ active' = active \ {r}
    /\ answer' = [answer EXCEPT ![r] = what]
    /\ shown' = [shown EXCEPT ![r] = order]

(* The client may not hear of it: it is told of an error later. *)
Place(r) ==
    /\ r \in active \ orders
    /\ kept = None
    /\ kept' = r
    /\ orders' = orders \cup {r}
    /\ \/ Tell(r, "created", r)
       \/ UNCHANGED <<active, answer, shown>>

Replay(r) ==
    /\ kept \in orders
    /\ FP[kept] = FP[r]
    /\ Tell(r, "replayed", kept)
    /\ UNCHANGED <<kept, orders>>

(* Another attempt is at work, or has completed but cannot be looked at yet. *)
Defer(r) ==
    /\ r \notin orders
    /\ Tell(r, "processing", None)
    /\ UNCHANGED <<kept, orders>>

(* Only somebody else's cart is a mismatch. *)
Mismatch(r) ==
    /\ r \notin orders
    /\ \E s \in Request : FP[s] # FP[r]
    /\ Tell(r, "mismatch", None)
    /\ UNCHANGED <<kept, orders>>

(* An error, or no answer at all, leaves open what became of the order. *)
Break(r) ==
    /\ \E what \in {"error", "lost"} : Tell(r, what, None)
    /\ UNCHANGED <<kept, orders>>

Forget ==
    /\ active = {}
    /\ kept' = None
    /\ UNCHANGED <<active, orders, answer, shown>>

Next ==
    \/ \E r \in Request : Arrive(r) \/ Place(r) \/ Replay(r) \/ Defer(r) \/ Mismatch(r) \/ Break(r)
    \/ Forget

Spec == Init /\ [][Next]_vars

=============================================================================
