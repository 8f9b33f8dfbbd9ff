\* One client, which also calls is_connected(), and a pool of four, conservative refill.
SPECIFICATION Spec
CONSTANTS
    Clients = {c1}
    Probers = {c1}
    Adders = {a1, a2}
    Sessions = {s1, s2, s3, s4, s5, s6}
    NoSession = NoSession
    PoolSize = 4
    IdleTimeout = 1
    MaxAge = 0
    Strategy = "conservative"
    InitialDelay = 1
    DelayMultiplier = 2
    MaxBackoff = 2
SYMMETRY Symmetry
INVARIANTS
    TypeOK
    ConnectionBound
    QuietWhenGone
PROPERTIES
    ImplementsSet
