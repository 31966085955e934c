------------------------------ MODULE MCHaLease ------------------------------
(* The election with two instances and a lease of a few units.               *)
EXTENDS HaLease
==============================================================================
