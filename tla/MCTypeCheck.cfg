\* Every statement by itself over all operands, and runs of two and three.
CONSTANTS
    Programs <- MCPrograms
    Bodies <- MCBodies
    Int8Max = 127
    Int16Max = 32767
    Int32Max = 2147483647
SPECIFICATION TypeCheckSpec
INVARIANTS
    TypeCheckInv
PROPERTIES
    ConversionsAreRight
    MemberIsAsDeclared
    BlockTypeIsLast
