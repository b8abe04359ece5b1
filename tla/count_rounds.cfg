SPECIFICATION RoundsFairSpec
CONSTANTS
    Node = {1, 2, 3, 4, 5, 6}
    Root = 1
    Parent <- MCTree
    NoCount = NoCount
    MaxRound = 2
INVARIANTS
    RoundsTypeOK
    RepliesCountSubtrees
PROPERTIES
    CensusSpec
    SimulationEnds
CHECK_DEADLOCK FALSE
