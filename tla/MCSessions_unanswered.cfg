SPECIFICATION FairSpec
CONSTANTS
    c1 = c1
    c2 = c2
    c3 = c3
    c4 = c4
    ana = ana
    bia = bia
    None = None
    Conn = {c1, c2, c3, c4}
    User = {ana}
    Thread = {1}
    Kind = {}
    MaxPackets = 4
    MaxHangUps = 0
    UserOf <- OneUser
PROPERTY EveryLoginIsAnswered
\* The server may stop, or wait for clients that say nothing more.
CHECK_DEADLOCK FALSE
