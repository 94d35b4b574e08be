SPECIFICATION BackendSpec
CONSTANTS
    MaxBacklog = 0
    MaxFailures = 3
    MaxSignals = 1
    FaultKinds = {"broken", "silent", "refused", "down"}
    MaxFaults = 3
    MaxHand = 0
INVARIANTS
    BackendTypeOK
    NeverOptimistic
    LinkReported
PROPERTIES
    LossNoticed
    RadioReturns
CHECK_DEADLOCK FALSE
