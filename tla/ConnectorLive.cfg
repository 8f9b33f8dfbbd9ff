\* One caller; the name moves between two addresses.
SPECIFICATION FairSpec
CONSTANTS
    Callers = {c1}
    Endpoints = {e1, e2}
PROPERTIES
    RequestServed
    CallReturns
    EndpointsCatchUp
    DestructorReturns
