\* Lines of every kind, a subprocess that may hang and may leave a descendant, a
\* pipe and a channel that fill up.
CONSTANTS
    MaxLines = 4
    Kinds = {"event", "skip", "bad", "long", "hang"}
    PipeCap = 2
    ChanCap = 1
    MayFork = TRUE
SPECIFICATION FairSpec
INVARIANTS EventsAccounted SuccessIsComplete
PROPERTIES RunReturns CancelReturns
