SPECIFICATION RirSpec
CONSTANTS
    Typedefs <- MCTypedefs
    Programs <- MCPrograms
INVARIANTS
    BuiltInv
    BuiltIsWellTyped
    AcceptedReadsBack
    PlainIsAccepted
