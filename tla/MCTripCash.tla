------------------------------ MODULE MCTripCash ----------------------------
(* TripCash on small instances: symmetric row ids and the bounds in force. *)
EXTENDS TripCash, TLC

Symmetry ==
    Permutations(Handlers) \cup Permutations(Lines) \cup Permutations(Allowances)
    \cup Permutations(Requests) \cup Permutations(Settlements) \cup Permutations(Deductions)
    \cup Permutations(Liquidations)
=============================================================================
