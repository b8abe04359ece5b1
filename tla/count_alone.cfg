SPECIFICATION FairSpec
CONSTANTS
    Node = {1}
    Root = 1
    Parent <- MCTree
    NoCount = NoCount
PROPERTIES
    CountArrives
CHECK_DEADLOCK FALSE
