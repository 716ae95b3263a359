CONSTANTS
    MaxTries = 1
    MaxWork = 2
    LoopSize = 16
    Feeds <- MCFeeds
    WorkInit <- MCWorkInit
    Threads = {t1, t2}
    NoThread = NoThread
    Callbacks = {c1, c2}
    NoCb = NoCb
    CbActs = {"return", "register"}
    MaxAtclose = 2
    DebugFds = 1
    DebugBuild = TRUE
SYMMETRY MCSymmetry
SPECIFICATION Spec
INVARIANT AtcloseLIFO
