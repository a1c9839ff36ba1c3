SPECIFICATION Spec
CONSTANTS
    Floor = 3
    Slope = 2
    Stake = 6
    Slots = {s1, s2}
    MaxRequests = 12
    MaxCredentials = 4
    None = None
INVARIANT AdvertisedFloor
