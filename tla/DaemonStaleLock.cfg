SPECIFICATION Spec
CONSTANTS
    d1 = d1
    d2 = d2
    None = None
    Daemons = {d1, d2}
    Requests = {"stop"}
    Stops = {"stop"}
    Invalid = {}
    Faults = TRUE
PROPERTY RefusedOnlyIfRunning
