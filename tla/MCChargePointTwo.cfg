SPECIFICATION Spec
CONSTANTS
    Connectors = {c1, c2}
    Commands = {"RemoteStop"}
    Buttons = {"Boot", "PlugIn", "Authorize", "Unplug", "Stop"}
    SocketFaults = TRUE
    CallErrors = TRUE
    MaxStarts = 2
    MaxCalls = 1
    MaxTimers = 1
SYMMETRY Symmetry
INVARIANTS IdHeldOnce MeterTimerRuns
