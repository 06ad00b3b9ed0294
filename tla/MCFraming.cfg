SPECIFICATION FairSpec
CONSTANTS
    w1 = w1
    w2 = w2
    Writer = {w1, w2}
    Script <- SmallScripts
    Rooms = {3, 20}
    Leftover <- SmallLeftover
INVARIANT TypeOK
INVARIANT OneForgedAtMost
PROPERTY PipeUntilSpoiled
PROPERTY AllRead
\* When everything is read, or the connection has ended, there is nothing to do.
CHECK_DEADLOCK FALSE
