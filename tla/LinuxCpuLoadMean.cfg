SPECIFICATION Spec
CONSTANTS
    N = 3
    Ticking <- MCTicking
    MaxTicks = 3
    MaxPlugs = 0
    MaxUsize = 100
INVARIANT AggregateIsMean
