SPECIFICATION FairSpec
CONSTANTS
    Others <- MCOneFrame
    CanTurnOff = FALSE
    Manual = TRUE
    MaxPending = 3
    MaxFrames = 2
PROPERTY Commences
CHECK_DEADLOCK FALSE
