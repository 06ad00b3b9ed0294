SPECIFICATION Spec
CONSTANTS
    c1 = c1
    c2 = c2
    c3 = c3
    c4 = c4
    ana = ana
    bia = bia
    None = None
    Conn = {c1, c2}
    User = {ana}
    Thread = {1, 2}
    Kind = {"UPLOAD"}
    MaxPackets = 3
    MaxHangUps = 0
    UserOf <- OneUser
INVARIANT UploadGoesToOthers
\* The server may stop, or wait for clients that say nothing more.
CHECK_DEADLOCK FALSE
