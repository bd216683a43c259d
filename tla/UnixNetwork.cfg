SPECIFICATION NetworkSpec
CONSTANTS
    MaxPacket = 2
    Sizes <- SmallAndLarge
    MaxEvents = 3
    Name <- Names
    Lossy <- LossyNames
    Bytes <- SomeBytes
    MaxList = 3
    MaxLost = 2
INVARIANTS
    TypeOK
    BytesCarried
    ListsFreed
    StatsHonest
    NetworksComplete
PROPERTY NeverBackwards
