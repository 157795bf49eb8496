\* Two keys, three processes, callers whose clock lags by up to one tick.
CONSTANTS
    k1 = k1
    k2 = k2
    m1 = m1
    m2 = m2
    m3 = m3
    None = None
    Keys = {k1, k2}
    Procs = {m1, m2, m3}
    IdleTimeout = 2
    MaxLag = 1
    MaxClock = 6
    StopMayFail = FALSE
SYMMETRY ProcSymmetry
\* Nobody needs to call the manager again.
CHECK_DEADLOCK FALSE
SPECIFICATION Spec
INVARIANT LiveIsManaged
PROPERTY IdleIsUnused
