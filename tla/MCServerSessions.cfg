SPECIFICATION Spec
CONSTANTS
    c1 = c1
    c2 = c2
    s1 = s1
    NoConn = NoConn
    NoSid = NoSid
    Conn <- MCConn
    Reader = {r1, r2}
    Session <- MCSession
    Sid <- MCSameSid
    MaxUnread = 2
    MaxRestart = 1
SYMMETRY MCSymmetry
INVARIANTS OneOwner NoLostWakeup AnswerWhole PictureOfClone
PROPERTY SessionFrozen
CHECK_DEADLOCK FALSE
