--------------------------- MODULE MCAccountBook ----------------------------
(* AccountBook with accounts that are over, even or short.                 *)
EXTENDS AccountBook, TLC

OverEvenShort == {-1, 0, 1}
Symmetry == Permutations(Accounts)
=============================================================================
