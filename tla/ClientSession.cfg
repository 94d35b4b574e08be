SPECIFICATION SessionSpec
CONSTANTS
    Clients = {h, o}
    NoClient = NoClient
    Harness = h
    Tone = TRUE
    FrameLimit = 2
    Preferred = 2
    Sizes = {1, 3}
    MaxCapture = 2
    MaxDown = 0
    MaxUp = 2
    MaxTx = 2
    MaxBacklog = 0
    Configs <- Keying
INVARIANTS
    SessionTypeOK
    ToneEnds
PROPERTIES
    SessionEnds
    LostToneEnds
