SPECIFICATION DevicesSpec
CONSTANTS
    Working = 2
    MaxNeed = 15
    Ulong = 32
    Samples <- SomeBytes
    Prefixes <- SomePrefixes
    Drive = {c, d}
    Fixed = {c}
    Media = {m, n}
    NoMedium = NoMedium
    MaxChanges = 2
INVARIANTS
    TypeOK
    HeapBalanced
    AddressCorrect
    DrivesHonest
PROPERTY Terminates
