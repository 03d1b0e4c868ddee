SPECIFICATION Spec
CONSTANTS
    ninfo = ninfo
    cmd = cmd
    gotonode = gotonode
    login = login
    panellist = panellist
    fbstat = fbstat
    Panel <- MCPanel
    NoPanel = NoPanel
    Uinp <- MCUinp
    Linger <- MCLinger
    FbIgn <- MCFbIgn
    Replayable <- MCReplayable
    Scripted <- MCScripted
    Login = login
    GotoNode = gotonode
    Ninfo = ninfo
    PanelList = panellist
    FbStat = fbstat
    MaxBuf = 1
INVARIANTS FocusShown LoginAuthWhole
PROPERTY TextNeverMoves
