SPECIFICATION Spec
CONSTANTS
    Ops = {p1, p2}
    MaxIds = 2
    None = None
SYMMETRY Symmetry
INVARIANTS CountIsExact NumbersClashOnlyIfStale
CHECK_DEADLOCK FALSE
