------------------------- MODULE MCOrderSettlement -------------------------
(* OrderSettlement for TLC: an order of two items, one booked per outlet and *)
(* one on Product.stock.                                                     *)
EXTENDS OrderSettlement, TLC

CONSTANTS outletItem, legacyItem

Items    == {outletItem, legacyItem}
OneEach  == [i \in Items |-> 1]
TwoEach  == [i \in Items |-> 2]

Symmetry == Permutations(Proc)

=============================================================================
