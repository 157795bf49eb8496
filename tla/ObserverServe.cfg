\* One tracked file, a change of the workspace, two POSTs that overlap each other
\* and the ticker's refreshes, and a failure.
CONSTANTS
    Files = {"f"}
    Trees <- MCTrees
    MaxPosts = 2
    MaxEdits = 1
    MaxFaults = 1
SPECIFICATION FairSpec
INVARIANT ReportIsTruthful
PROPERTY ReportCatchesUp
