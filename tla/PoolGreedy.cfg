\* Two clients and a pool of two, greedy refill.
SPECIFICATION Spec
CONSTANTS
    Clients = {c1, c2}
    Probers = {}
    Adders = {a1, a2}
    Sessions = {s1, s2, s3, s4, s5}
    NoSession = NoSession
    PoolSize = 2
    IdleTimeout = 1
    MaxAge = 1
    Strategy = "greedy"
    InitialDelay = 1
    DelayMultiplier = 2
    MaxBackoff = 2
SYMMETRY Symmetry
INVARIANTS
    TypeOK
    ConnectionBound
    OneOwner
    OldestFirst
    QuietWhenGone
    NoLostWakeup
PROPERTIES
    ImplementsSet
