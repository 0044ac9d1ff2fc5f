--------------------------- MODULE MCChargePoint ---------------------------
(* ChargePoint on small instances. *)
EXTENDS ChargePoint, TLC

Symmetry == Permutations(Connectors)
=============================================================================
