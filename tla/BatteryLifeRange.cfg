SPECIFICATION PowerSpec
CONSTANTS
    b1 = b1
    b2 = b2
    a1 = a1
    a2 = a2
    None = None
    Bat <- Batteries
    Ac <- Adapters
    Files <- BatteryFiles
    Full <- FullCharge
    Currents <- SomeCurrents
    MaxChanges = 2
    Percents = {0, 7, 100}
    Minutes <- SomeMinutes
    IntValues = 65536
    MaxEvents = 1
    Micro = 2
    Second = 6
    Start = 8
    Steps <- Settings
    MaxUp = 7
    MaxSteps = 2
INVARIANT CapacityInRange
