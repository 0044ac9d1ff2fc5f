SPECIFICATION Spec
CONSTANTS
    Sessions = {s1, s2}
    ChargePoints = {c1}
    OutCap = 1
    MaxMsgs = 0
    LinkFaults = FALSE
    None = None
SYMMETRY Symmetry
INVARIANT NewSessionSurvives
CHECK_DEADLOCK FALSE
