SPECIFICATION FairSpec
CONSTANTS
    None = None
    NoName = NoName
    d1 = d1
    d2 = d2
    notes = notes
    photo = photo
    Device = {d1, d2}
    File = {notes, photo}
    Scenario <- SmallScenarios
    MaxEchoes = 1
INVARIANT TypeOK
INVARIANT QuietAgrees
INVARIANT EchoNeedsOverlap
INVARIANT IgnoredNeedsOverlap
PROPERTY EchoesDieOut
\* Once the script is over and every message handled there is nothing to do.
CHECK_DEADLOCK FALSE
