\* Two callers, a name with up to two addresses that change.
SPECIFICATION Spec
CONSTANTS
    Callers = {c1, c2}
    Endpoints = {e1, e2}
SYMMETRY Symmetry
INVARIANTS
    TypeOK
    NullHasError
    EndpointsReady
    RequestKept
