SPECIFICATION Spec
CONSTANTS
    g1 = g1
    g2 = g2
    a1 = a1
    a2 = a2
    cheap = cheap
    dear = dear
    Handlers <- OneHandler
    Addr <- OneAddr
    Routes <- TwoRoutes
    Price <- MCPrice
    Persistent = FALSE
    MinConf = 0
    PendingTTL = 1
    TicksPerSec = 1
    MaxTime = 2
    MaxPay = 2
    None = None
INVARIANT RoutePricePaid
