\* close() on a connected socket.
SPECIFICATION Spec
CONSTANTS
    MaxTimeout = 3
    MaxBytes = 3
PROPERTIES
    CloseCloses
