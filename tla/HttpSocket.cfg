\* Two requests on one stream, with limits small enough to be reached.
SPECIFICATION HttpFairSpec
CONSTANTS
    MaxTimeout = 1
    MaxBytes = 2
    MaxRequests = 2
    RequestSize = 2
    HeaderLimit = 2
    BodyLimit = 1
    ReadLimit = 2
    MaxWire = 2
INVARIANTS
    HttpTypeOK
    OwnResponse
    WholeResponse
    RoomToRead
PROPERTIES
    PerformEnds
