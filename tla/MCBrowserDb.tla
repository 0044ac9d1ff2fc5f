----------------------------- MODULE MCBrowserDb -----------------------------
(* TLC instance of BrowserDb.                                              *)
EXTENDS BrowserDb, TLC

\* Operations are interchangeable.
Symmetry == Permutations(Ops)
=============================================================================
