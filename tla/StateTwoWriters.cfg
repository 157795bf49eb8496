\* A daemon and an inline command, in two hosts, write the same session.
CONSTANTS
    Sessions = {1}
    Root = Root
    h1 = h1
    h2 = h2
    p1 = p1
    p2 = p2
    Hosts = {h1, h2}
    Procs = {p1, p2}
    HostOf <- TwoHostOf
    Access <- AllAccess
    Sweepers = {p2}
    RootLifecycles = {}
    NoFile = NoFile
    Nobody = Nobody
    HeartbeatTimeout = 1
    MaxClock = 3
SPECIFICATION Spec
PROPERTY TerminalIsFinal
