SPECIFICATION FairSpec
CONSTANTS
    c1 = c1
    c2 = c2
    c3 = c3
    c4 = c4
    ana = ana
    bia = bia
    None = None
    Conn = {c1, c2}
    User = {ana, bia}
    Thread = {1, 2}
    Kind = {"LOGOUT", "DELETE"}
    MaxPackets = 4
    MaxHangUps = 1
    UserOf <- OneOrTwoUsers
INVARIANT AnswersStayWithinUser
PROPERTY RequestsAreServed
\* The server may stop, or wait for clients that say nothing more.
CHECK_DEADLOCK FALSE
