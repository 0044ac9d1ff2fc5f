SPECIFICATION Spec
CONSTANTS
    Commands = {r1, r2}
    Others = {f1}
    Randoms = {b}
    None = None
    Faults = TRUE
    MaxLives = 2
    MaxSeconds = 1
SYMMETRY Symmetry
INVARIANTS CallIDsDistinct LogIsFaithful
CHECK_DEADLOCK FALSE
