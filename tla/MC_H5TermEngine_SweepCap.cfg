CONSTANTS
    MaxTries = 3
    MaxWork = 2
    LoopSize = 16
    Feeds <- MCFeeds
    WorkInit <- MCWorkInit
SPECIFICATION EngineSpec
INVARIANT SweepCap
