SPECIFICATION TimedSpec
CONSTANTS
    Clients = {c1, c2, c3}
    NoClient = NoClient
    MaxTx = 2
    MaxOnAir = 3
    MaxBacklog = 0
    Configs <- AllConfigs
INVARIANTS
    TypeOK
    PttGuarded
    OwnerOnAir
    SuspendedForAudio
    DisabledNeverKeys
    PendingOnlyOffline
    ToldTruth
    SilenceLimit
PROPERTIES
    NoSteal
    PendingKept
    OwnerLossUnkeys
    SilenceEndsTx
    Implements
CHECK_DEADLOCK FALSE
