SPECIFICATION HSpec
CONSTANTS
    n1 = n1
    n2 = n2
    Job = {1, 2}
    Node <- MCNode
    Incr = 1
    Top = 1
    NTEMPC = 1
PROPERTIES JobListSpec OnlySelectedListed AllShown
