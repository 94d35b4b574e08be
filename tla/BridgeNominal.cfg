SPECIFICATION BridgeSpec
CONSTANTS
    Clients = {c1}
    NoClient = NoClient
    MaxTx = 1
    MaxBacklog = 0
    Configs <- OnTheAir
    MaxFailures = 3
    MaxSignals = 1
    FaultKinds = {}
    MaxFaults = 0
    MaxHand = 2
INVARIANTS
    BridgeTypeOK
    RigFollows
    OnlineShutdownUnkeys
PROPERTIES
    UnkeyReachesRig
    BeliefCatchesUp
CHECK_DEADLOCK FALSE
