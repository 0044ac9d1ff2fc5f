SPECIFICATION FairSpec
CONSTANT MaxClients = 4
INVARIANTS OnlyCurrentLives ConnectedIsBacked HeartbeatArmed
PROPERTY Reconnects
CHECK_DEADLOCK FALSE
