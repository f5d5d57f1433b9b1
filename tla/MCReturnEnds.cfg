\* A return in the body of a loop.
CONSTANTS
    Functions <- MCFunctions
    MaxTurns = 2
    MaxDepth = 6
SPECIFICATION BSpec
INVARIANT
    ReturnEndsFunction
