SPECIFICATION FairSpec
CONSTANTS
    Connectors = {c1}
    Commands = {"RemoteStart", "Unlock", "Reset", "ChangeAvailability", "Trigger"}
    Buttons = {"Boot", "PlugIn", "Authorize", "Unplug", "Stop", "Fault", "Disable", "Enable"}
    SocketFaults = TRUE
    CallErrors = TRUE
    MaxStarts = 1
    MaxCalls = 1
    MaxTimers = 1
INVARIANTS TypeOK StopOnce StopHasDeadline ChargingIsBacked
PROPERTIES StopSettles
