\* One client and a pool of one, conservative refill, fairness.
SPECIFICATION FairSpec
CONSTANTS
    Clients = {c1}
    Probers = {}
    Adders = {a1}
    Sessions = {s1, s2}
    NoSession = NoSession
    PoolSize = 1
    IdleTimeout = 1
    MaxAge = 1
    Strategy = "conservative"
    InitialDelay = 1
    DelayMultiplier = 2
    MaxBackoff = 2
PROPERTIES
    SleeperServed
    PoolRefills
    DestructorReturns
