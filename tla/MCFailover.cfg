SPECIFICATION FairSpec
CONSTANTS
    None = None
    Closed = Closed
    c1 = c1
    c2 = c2
    h1 = h1
    h2 = h2
    Client = {c1, c2}
    Backups = 3
    Host = {h1, h2}
    Scenario <- SmallScenarios
INVARIANT TypeOK
INVARIANT AcceptedIsKnown
INVARIANT SplitIsLate
PROPERTY GivenUpOwingAnswer
PROPERTY ReplacedEnds
PROPERTY ClientsFollow
\* When every server has ended, or nobody starts anything, there is nothing to do.
CHECK_DEADLOCK FALSE
