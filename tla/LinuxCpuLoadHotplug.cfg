SPECIFICATION Spec
CONSTANTS
    N = 2
    Ticking <- MCTicking
    MaxTicks = 2
    MaxPlugs = 1
    MaxUsize = 100
INVARIANT OneObjectPerCpu
