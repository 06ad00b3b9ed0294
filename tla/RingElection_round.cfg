SPECIFICATION FairSpec
CONSTANTS
    N = 5
    MaxCrashes = 2
    None = None
INVARIANT TypeOK
INVARIANT LowestIdWins
INVARIANT AgreeOnMaster
INVARIANT AnnouncementStopsAtSuccessor
PROPERTY ElectsOneLeader
PROPERTY RoundDecides
\* A round that is over stops.
CHECK_DEADLOCK FALSE
