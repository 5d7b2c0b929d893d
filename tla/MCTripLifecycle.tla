--------------------------- MODULE MCTripLifecycle --------------------------
(* TripLifecycle on small instances: symmetric handlers and account ids. *)
EXTENDS TripLifecycle, TLC

Symmetry == Permutations(Handlers) \cup Permutations(Accounts)
=============================================================================
