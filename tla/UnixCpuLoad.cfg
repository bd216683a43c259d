SPECIFICATION UnixSpec
CONSTANTS
    N = 2
    Ticking = {"user", "spin"}
    FbTicking = {"user"}
    MaxTicks = 4
    LxN = 3
    LxTicking = {"user", "idle"}
    LxTicks = 3
    MaxPlugs = 2
    MaxUsize = 1
INVARIANTS
    TypeOK
    SampleInsideCall
    AllOrNothing
    AlignedLoadsExact
    NoPlugNoMix
    AggregateSound
PROPERTIES
    ImplementsWindow
    SamplerImplementsWindow
