\* send() with buffers that need more than one write.
SPECIFICATION SslSpec
CONSTANTS
    MaxTimeout = 2
    MaxBytes = 1
    IoTimeout = 1
    MaxPlain = 2
    MaxRounds = 2
    MaxCount = 3
PROPERTIES
    SendWritesAll
