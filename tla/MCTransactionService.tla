------------------------ MODULE MCTransactionService ------------------------
(* TLC instance of TransactionService.                                     *)
EXTENDS TransactionService, TLC

\* Requests and charge points are interchangeable.
Symmetry == Permutations(Requests) \cup Permutations(ChargePoints)
=============================================================================
