SPECIFICATION Spec
CONSTANTS
    c1 = c1
    c2 = c2
    c3 = c3
    c4 = c4
    ana = ana
    bia = bia
    None = None
    Conn = {c1, c2, c3}
    User = {ana}
    Thread = {1, 2}
    Kind = {"LOGOUT", "STOP", "OTHER"}
    MaxPackets = 5
    MaxHangUps = 0
    UserOf <- OneUser
SYMMETRY OneUserSymmetry
INVARIANT TypeOK
INVARIANT AcceptedIsRegistered
INVARIANT OneHandlerPerConnection
INVARIANT AnswersStayWithinUser
PROPERTY RefusalFreezesServer
INVARIANT AtMostOneLateLogin
INVARIANT StopLeavesAtMostOneOpen
\* The server may stop, or wait for clients that say nothing more.
CHECK_DEADLOCK FALSE
