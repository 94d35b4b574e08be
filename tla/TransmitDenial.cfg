SPECIFICATION TimedSpec
CONSTANTS
    Clients = {c1, c2}
    NoClient = NoClient
    MaxTx = 2
    MaxOnAir = 3
    MaxBacklog = 0
    Configs <- Listening
INVARIANT DenialTellsActual
CHECK_DEADLOCK FALSE
