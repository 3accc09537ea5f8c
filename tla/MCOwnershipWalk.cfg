CONSTANTS
    Graphs <- MCGraphs
    DepthLimits = {1, 5}
SPECIFICATION WalkSpec
INVARIANT WalkIsExact
PROPERTY WalkEnds
CHECK_DEADLOCK FALSE
