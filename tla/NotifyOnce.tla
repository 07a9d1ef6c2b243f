----------------------------- MODULE NotifyOnce -----------------------------
(***************************************************************************)
(* What the notification pipeline promises of an event: its notification is  *)
(* written once, however often the event is delivered, and then sent or given *)
(* up; only one that was given up is ever tried anew.                        *)
(***************************************************************************)
EXTENDS Naturals

CONSTANT Msg        \* the events

VARIABLES
    written,    \* [Msg -> notifications written for it]
    fate        \* [Msg -> the state of its notification]

vars == <<written, fate>>

Init ==
    /\ written = [m \in Msg |-> 0]
    /\ fate = [m \in Msg |-> "none"]

Becomes(m, from, to) ==
    /\ fate[m] = from
    /\ fate' = [fate EXCEPT ![m] = to]

Enqueue(m) ==
    /\ Becomes(m, "none", "PENDING")
    /\ written' = [written EXCEPT ![m] = 1]

Decide(m) ==
    /\ Becomes(m, "PENDING", "SENT") \/ Becomes(m, "PENDING", "FAILED")
    /\ UNCHANGED written

Resend(m) ==
    /\ Becomes(m, "FAILED", "PENDING")
    /\ UNCHANGED written

Next == \E m \in Msg : Enqueue(m) \/ Decide(m) \/ Resend(m)

Spec == Init /\ [][Next]_vars

=============================================================================
