SPECIFICATION Spec
CONSTANTS
    b1 = b1
    b2 = b2
    b3 = b3
    u1 = u1
    u2 = u2
    x1 = x1
    None = None
    Empty = Empty
    Backup = {b1}
    LateBackup = {}
    MaxCrashes = 0
    Devices = 2
    Upload = {u1, u2}
    Delete = {}
    Refused = {}
    From <- EachUploads
INVARIANT StateReplication
\* In the end nothing is left to send.
CHECK_DEADLOCK FALSE
