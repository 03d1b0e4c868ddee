SPECIFICATION Spec
CONSTANTS
    Groups <- MCGroups
    MaxChange = 2
INVARIANTS Fresh DisplayListCurrent TypedShownAlone
