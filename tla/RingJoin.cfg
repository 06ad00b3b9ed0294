SPECIFICATION FairSpec
CONSTANTS
    None = None
    Garbled = Garbled
    Backup = {1, 2, 3}
    MaxBroadcasts = 1
    MaxCrashes = 1
    MaxAtOnce = 2
INVARIANT TypeOK
INVARIANT IdsArePlaces
INVARIANT RingIsClosed
INVARIANT OnlyBroadcastsHideIds
PROPERTY SerialJoinsEnd
\* The master may be terminated, or have no more backups to wait for.
CHECK_DEADLOCK FALSE
