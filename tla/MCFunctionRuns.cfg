\* Every body, two turns of loops in a run.
CONSTANTS
    Functions <- MCFunctions
    MaxTurns = 2
    MaxDepth = 6
SPECIFICATION BSpec
INVARIANTS
    BlocksInv
    RunFollowsSource
PROPERTIES
    ExitSetOnce
    RunEnds
