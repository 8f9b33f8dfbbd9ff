\* One getter and one caller of is_connected(), sessions that never expire.
SPECIFICATION FairSpec
CONSTANTS
    Clients = {c1, c2}
    Probers = {c2}
    Adders = {a1}
    Sessions = {s1, s2, s3}
    NoSession = NoSession
    PoolSize = 1
    IdleTimeout = 1
    MaxAge = 0
    Strategy = "greedy"
    InitialDelay = 1
    DelayMultiplier = 2
    MaxBackoff = 2
PROPERTY SleeperServed
