SPECIFICATION FairSpec
CONSTANTS
    N = 3
    MaxCrashes = 0
    None = None
PROPERTY EveryBackupLeavesTheVote
\* A round that is over stops.
CHECK_DEADLOCK FALSE
