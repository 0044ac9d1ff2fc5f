------------------------------ MODULE MCLiveLog ------------------------------
(* TLC instance of LiveLog.                                                *)
EXTENDS LiveLog

\* Charge points are interchangeable.
Symmetry == Permutations(ChargePoints)
=============================================================================
