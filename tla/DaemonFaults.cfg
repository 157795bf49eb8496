\* A daemon and its successor; crashes; handlers that may hang.
CONSTANTS
    d1 = d1
    d2 = d2
    None = None
    Daemons = {d1, d2}
    Requests = {"stop", "submit"}
    Stops = {"stop"}
    Invalid = {"submit"}
    Faults = TRUE
SPECIFICATION FairSpec
INVARIANTS OneDaemon SocketIsOwn
PROPERTIES OkIsTrue EveryConnectionEnds StopEndsDaemon
