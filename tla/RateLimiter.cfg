SPECIFICATION Spec
CONSTANTS
    g1 = g1
    g2 = g2
    ip1 = ip1
    ip2 = ip2
    l1 = l1
    l2 = l2
    l3 = l3
    Handlers <- TwoHandlers
    IPs <- TwoIPs
    Limiters <- ThreeLimiters
    Cost = 3
    Refill = 1
    Burst = 2
    Idle = 2
    MaxStall = 1
    MaxTime = 6
    None = None
SYMMETRY Symmetry
INVARIANT TypeOK
INVARIANT AllowanceWithEvictions
PROPERTY RefusalEarned
PROPERTY ImplementsBucket
