CONSTANTS
    Settable = {"m", "t", "s"}
    MaxFailures = 3
    MaxSignals = 0
    MaxSets = 1
    MaxLate = 2
    MaxRefused = 1
    MaxHands = 1
SPECIFICATION CatSpec
INVARIANT BeliefFollows
INVARIANT PttNotInvented
PROPERTY WorkerResyncs
