SPECIFICATION Spec
CONSTANTS
    ChargePoints = {c1, c2}
    MaxLogs = 1
    LiveMax = 2
    MaxEvents = 3
SYMMETRY Symmetry
INVARIANTS NewestKept LiveInOrder
CHECK_DEADLOCK FALSE
