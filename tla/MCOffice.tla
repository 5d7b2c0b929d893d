------------------------------ MODULE MCOffice ------------------------------
(* Office on a small instance; no symmetry, for a liveness property is checked. *)
EXTENDS Office
=============================================================================
