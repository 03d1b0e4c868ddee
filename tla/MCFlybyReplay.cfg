SPECIFICATION Spec
CONSTANTS
    n1 = n1
    n2 = n2
    Node <- TwoNodes
    Ways <- Neighbours
    Reels = {0, 2, 3}
    MaxFile = 6
    MaxSel = 2
INVARIANTS
    SelectionWhole
    ReplaySelects
    ReelReachesEnd
CHECK_DEADLOCK FALSE
