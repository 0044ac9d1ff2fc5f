--------------------------- MODULE MCCoreMessaging ---------------------------
EXTENDS CoreMessaging, TLC

\* No definition tells one command from another.
Symmetry == Permutations(Commands)
=============================================================================
