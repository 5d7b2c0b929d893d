----------------------------- MODULE MCTripMoney ----------------------------
(* TripMoney on small instances: rows, clients and brokers alike. *)
EXTENDS TripMoney, TLC

Symmetry ==
    Permutations(Billables) \cup Permutations(Additionals)
    \cup Permutations(Payments) \cup Permutations(Adjustments)
    \cup Permutations(Clients) \cup Permutations(Brokers)
=============================================================================
