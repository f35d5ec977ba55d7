SPECIFICATION FairAllSpec
CONSTANTS
    w1 = w1  w2 = w2
    Workers = {w1, w2}
    Starters = {w1, w2}
    Site = Site
    MaxLicenses = 2
    MaxFaults = 2
    None = None
INVARIANTS HeardRevocation OneTrial OneIdentity
PROPERTIES FollowsServer
CHECK_DEADLOCK FALSE
