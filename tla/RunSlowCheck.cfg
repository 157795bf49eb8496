\* Healthy storage, one check that needs six seconds.
CONSTANTS
    MaxChecks = 1
    MaxWorkerEvents = 0
    CheckSeconds = {6}
    HeldSeconds = {0}
    CheckTimeout = 10
    TermBudget = 5
    MaxFaults = 0
    OtherTargets = {}
SPECIFICATION FairSpec
PROPERTY CommittedRunTerminates
