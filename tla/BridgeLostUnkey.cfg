SPECIFICATION BridgeSpec
CONSTANTS
    Clients = {c1}
    NoClient = NoClient
    MaxTx = 1
    MaxBacklog = 1
    Configs <- OnTheAir
    MaxFailures = 3
    MaxSignals = 1
    FaultKinds = {"refused"}
    MaxFaults = 1
    MaxHand = 0
PROPERTY UnkeyReachesRig
CHECK_DEADLOCK FALSE
