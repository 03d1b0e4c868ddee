SPECIFICATION FairSpec
CONSTANTS
    Others <- MCOneFrame
    CanTurnOff = TRUE
    Manual = TRUE
    MaxPending = 2
    MaxFrames = 2
INVARIANT RecordedPlays
PROPERTIES NeverEarly PlayRestores CommencesCounted
CHECK_DEADLOCK FALSE
