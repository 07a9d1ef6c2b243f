---------------------------- MODULE MCInventory ----------------------------
(* Inventory for TLC. *)
EXTENDS Inventory, TLC

CONSTANTS A, B, o1, o2, t1

Carts == [o \in {o1, o2} |-> {1, 2}]
Moves == [t \in {t1} |-> [product |-> 1, from |-> A, to |-> B]]

(* Before and after the rows of ProductInventory are entered. *)
Migrations == {{}, {<<1, A>>, <<2, A>>, <<2, B>>}}

CountedRows == {<<1, A>>}

(* The two orders have the same cart. *)
SameCarts == Permutations({o1, o2})

=============================================================================
