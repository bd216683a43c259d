SPECIFICATION MemorySpec
CONSTANTS
    Phys = 3
    MaxMoves = 2
    HasCache = FALSE
    HasZfs = TRUE
    Platforms = {"linux", "openbsd", "netbsd", "macos", "windows"}
    OtherPhys = 2
    SwapSize = 1
    OtherMoves = 2
INVARIANTS
    TypeOK
    TotalNearPhys
    FreeWithinTotal
    DemandAccounted
