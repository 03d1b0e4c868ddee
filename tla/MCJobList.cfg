SPECIFICATION Spec
CONSTANTS
    n1 = n1
    n2 = n2
    Job = {1, 2, 3}
    Node <- MCNode
    Incr = 2
    Top = 1
INVARIANTS KnownKept OneObjectPerJob NodeJobListed
PROPERTIES NewShown HidingSurvives NodeKeepsJob
