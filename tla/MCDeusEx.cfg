SPECIFICATION Spec
CONSTANTS
    n1 = n1
    n2 = n2
    Node <- TwoNodes
    Scripts <- AllScripts
    Reel <- Reels
    Data <- Fetches
    NSC = 2
    NTEMPC = 2
    NRTC = 1
    Frames = 2
    FPS = 2
    Tenth = 2
    MaxClass = 3
    MaxKeys = 4
INVARIANTS
    TimerAccounted
    NoDangling
    OwnProgress
PROPERTIES
    
    CycleShowsEach
    ReelWhole
CHECK_DEADLOCK FALSE
PROPERTIES
    Advances
