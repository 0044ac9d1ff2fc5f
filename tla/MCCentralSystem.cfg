SPECIFICATION CentralFairSpec
CONSTANTS
    Frames = {f1, f2}
    LocalActions = {BootNotification}
    CoreActions = {Authorize, StartTransaction, StopTransaction}
    StartTransaction = StartTransaction
    StopTransaction = StopTransaction
    ChargePoints = {c1}
    StopIDs = {1}
    LinkFaults = TRUE
    Crashes = TRUE
    None = None
INVARIANTS AnsweredOnce ResultIsBacked AuditIsTrue ToldIsSo
PROPERTIES ProcessorAlone CallSettles
