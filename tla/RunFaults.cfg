\* Up to two failing writes, cancellation, crashes, other writers of the state file, and
\* checks that outlast termCtx together, alone, or because a descendant holds their output.
CONSTANTS
    MaxChecks = 2
    MaxWorkerEvents = 1
    CheckSeconds = {1, 4}
    HeldSeconds = {0, 4}
    CheckTimeout = 10
    TermBudget = 5
    MaxFaults = 2
    OtherTargets = {"cancelled", "blocked"}
SPECIFICATION FairSpec
INVARIANTS TypeOK CompletedIsEarned SuccessIsEvidenced 
PROPERTY TerminatesUnlessStarved
