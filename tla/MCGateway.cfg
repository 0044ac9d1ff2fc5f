SPECIFICATION FairSpec
CONSTANTS
    Sessions = {s1, s2}
    ChargePoints = {c1}
    OutCap = 1
    MaxMsgs = 2
    LinkFaults = TRUE
    None = None
INVARIANTS
    TeardownOwned
    FramesInOrder
    AtMostOneLateFrame
PROPERTIES
    CallbackReturns
    ClosedSessionEnds
    DeadSessionLeaves
CHECK_DEADLOCK FALSE
