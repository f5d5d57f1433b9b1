SPECIFICATION ParseSpec
CONSTANTS
    Kinds <- MCKinds
    Files <- MCFiles
INVARIANTS
    MarksAscend
    ParserInv
    MessagesAreRight
    OneOwner
    AcceptedIsComplete
PROPERTIES
    ParserStops
