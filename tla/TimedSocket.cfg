\* Timeouts of up to three ticks, buffers of up to three bytes.
SPECIFICATION FairSpec
CONSTANTS
    MaxTimeout = 3
    MaxBytes = 3
INVARIANTS
    TypeOK
    TimerOwned
    WaitPosted
    NoEarlyTimeout
    LateCallsFail
    TimeoutCloses
PROPERTIES
    CallsEnd
    ImplementsStream
