SPECIFICATION BridgeSpec
CONSTANTS
    Clients = {c1}
    NoClient = NoClient
    MaxTx = 1
    MaxBacklog = 1
    Configs <- OnTheAir
    MaxFailures = 3
    MaxSignals = 1
    FaultKinds = {}
    MaxFaults = 0
    MaxHand = 0
INVARIANT ShutdownUnkeys
CHECK_DEADLOCK FALSE
