SPECIFICATION BridgeSpec
CONSTANTS
    Clients = {c1}
    NoClient = NoClient
    MaxTx = 1
    MaxBacklog = 0
    Configs <- OnTheAir
    MaxFailures = 3
    MaxSignals = 1
    FaultKinds = {"down"}
    MaxFaults = 1
    MaxHand = 0
INVARIANTS UsableAfterConnected
PROPERTY PendingCarriedOut
CHECK_DEADLOCK FALSE
