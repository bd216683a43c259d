SPECIFICATION CountersSpec
CONSTANTS
    MinCpus = 1
    MaxCpus = 2
    MaxNow = 3
    MaxSockets = 1
    MaxEvents = 2
INVARIANTS
    NoQueryLeft
    SpansInWindow
    EveryLoadMeasured
    PanicsOnlyOnHotAdd
    SocketsHonest
