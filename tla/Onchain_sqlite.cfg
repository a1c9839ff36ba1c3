SPECIFICATION Spec
CONSTANTS
    g1 = g1
    g2 = g2
    a1 = a1
    a2 = a2
    cheap = cheap
    dear = dear
    Handlers <- TwoHandlers
    Addr <- TwoAddrs
    Routes <- DearRoute
    Price <- MCPrice
    Persistent = TRUE
    MinConf = 1
    PendingTTL = 1
    TicksPerSec = 2
    MaxTime = 4
    MaxPay = 2
    None = None
SYMMETRY Symmetry
INVARIANT Ownership
INVARIANT PendingSpentDisjoint
INVARIANT UnpaidSurvives
INVARIANT Funding
PROPERTY WindowHonoured
PROPERTY ImplementsToll
