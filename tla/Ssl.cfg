\* Timeouts of up to two ticks, buffers of up to two bytes, two operations a call.
SPECIFICATION SslFairSpec
CONSTANTS
    MaxTimeout = 2
    MaxBytes = 1
    IoTimeout = 1
    MaxPlain = 2
    MaxRounds = 2
    MaxCount = 3
INVARIANTS
    SslTypeOK
    SslTimerOwned
PROPERTIES
    SslImplementsStream
    SslJobsEnd
    SslCloseEnds
