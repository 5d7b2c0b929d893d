----------------------------- MODULE MCScreens ------------------------------
(* Screens needs no bounds: a trip, a page and one click are finite. *)
EXTENDS Screens
=============================================================================
