SPECIFICATION GraphSpec
CONSTANTS
    NodeCount = 6
    Graphs <- TwoWaysToOne
    TerminalLists <- ThreeOfSix
CHECK_DEADLOCK FALSE
INVARIANT
    SteinerIsTree
