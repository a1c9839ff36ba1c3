SPECIFICATION Spec
CONSTANTS
    g1 = g1
    g2 = g2
    ip1 = ip1
    h1 = h1
    h2 = h2
    h3 = h3
    h4 = h4
    p1 = p1
    p2 = p2
    cheap = cheap
    dear = dear
    Handlers <- TwoHandlers
    IPs <- OneIP
    Hashes <- ThreeHashes
    Principals <- TwoPrincipals
    Modes = {TRUE, FALSE}
    Persistent = TRUE
    Routes <- CheapRoute
    Price <- MCPrice
    FloorToll = 2
    Slope = 1
    Stake = 3
    AnonymousCap = 1
    MaxBoots = 1
    None = None
SYMMETRY Symmetry
INVARIANT TypeOK
INVARIANT ReplayRejected
INVARIANT StakeTracked
INVARIANT StakeBuysCredential
INVARIANT CredentialHasPrincipal
INVARIANT MeteringExact
INVARIANT ProofRequired
INVARIANT RaceBounded
INVARIANT FloorPaid
PROPERTY ImplementsRacedToll
