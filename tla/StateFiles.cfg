\* Every session has one writer, who also sweeps; two goroutines contend for the
\* mutex of the root record; crashes and write errors.
CONSTANTS
    Sessions = {1, 2}
    Root = Root
    h1 = h1
    h2 = h2
    p1 = p1
    p2 = p2
    Hosts = {h1}
    Procs = {p1, p2}
    HostOf <- SharedHostOf
    Access <- OneAccess
    Sweepers = {p1}
    RootLifecycles = {"running"}
    NoFile = NoFile
    Nobody = Nobody
    HeartbeatTimeout = 1
    MaxClock = 3
SPECIFICATION FairSpec
INVARIANTS TypeOK RecordsWellFormed
PROPERTIES TerminalIsFinal RefinesLifecycle EveryCallReturns
