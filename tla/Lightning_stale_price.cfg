SPECIFICATION Spec
CONSTANTS
    g1 = g1
    g2 = g2
    ip1 = ip1
    h1 = h1
    h2 = h2
    h3 = h3
    h4 = h4
    p1 = p1
    p2 = p2
    cheap = cheap
    dear = dear
    Handlers <- OneHandler
    IPs <- OneIP
    Hashes <- FourHashes
    Principals <- OnePrincipal
    Modes = {TRUE, FALSE}
    Persistent = TRUE
    Routes <- TwoRoutes
    Price <- MCPrice
    FloorToll = 1
    Slope = 1
    Stake = 3
    AnonymousCap = 1
    MaxBoots = 0
    None = None
SYMMETRY Symmetry
PROPERTY CurvePaid
