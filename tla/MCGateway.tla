------------------------------ MODULE MCGateway ------------------------------
(* TLC instance of Gateway.                                                *)
EXTENDS Gateway, TLC

\* Sessions and charge points are interchangeable.
Symmetry == Permutations(Sessions) \cup Permutations(ChargePoints)
=============================================================================
