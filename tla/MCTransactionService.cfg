SPECIFICATION Spec
CONSTANTS
    Requests = {r1, r2, r3, r4}
    ChargePoints = {c1, c2}
    StopIDs = {1, 2}
    None = None
SYMMETRY Symmetry
INVARIANTS
    TypeOK
    IdsFresh
    DuplicateOnlyIfTainted
    StopsNamedRow
PROPERTY
    InsertBringsNewId ImplementsLedger
