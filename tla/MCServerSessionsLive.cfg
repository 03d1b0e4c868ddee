SPECIFICATION FairSpec
CONSTANTS
    c1 = c1
    c2 = c2
    s1 = s1
    NoConn = NoConn
    NoSid = NoSid
    Conn <- MCConn
    Reader = {r1, r2}
    Session <- MCSession
    Sid <- MCSameSid
    MaxUnread = 2
    MaxRestart = 0
PROPERTIES Closes Answered
CHECK_DEADLOCK FALSE
