SPECIFICATION AudioSpec
CONSTANTS
    Devices <- MCDevices
    NoDevice = NoDevice
    Wanted <- MCWanted
    Convertible <- MCConvertible
    Resolve <- MCResolve
    Prebuffer = 2
    Jitter = 3
    SinkSize = 2
    MaxFrame = 2
    MaxStreams = 2
    MaxNotices = 2
INVARIANTS
    AudioTypeOK
    OwnAudioOnly
    DownPathsRetried
    SettledOnPresent
PROPERTIES
    RefillsWhenDry
    StreamStaysPut
    FedStreamPlays
    AudioReturns
