--------------------------- MODULE MCCheckoutKey ---------------------------
(* CheckoutKey for TLC: attempts of one checkout, and one that reuses the key *)
(* for another.                                                              *)
EXTENDS CheckoutKey, TLC

CONSTANTS r1, r2, r3, other

Requests     == {r1, r2, r3, other}
Fingerprints == {"cart", "another cart"}
Prints       == [r \in Requests |-> IF r = other THEN "another cart" ELSE "cart"]

(* The three attempts of the same checkout are interchangeable. *)
Symmetry == Permutations({r1, r2, r3})

=============================================================================
