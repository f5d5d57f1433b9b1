\* Every command line of up to two files of the library, every one of three
\* of the files that import each other, and RIR input.
CONSTANTS
    CommandLines <- MCCommandLines
    Stdlib <- MCStdlib
    MaxModules = 6
    MaxImports = 3
SPECIFICATION CompSpec
INVARIANTS
    CompInv
    OutcomeIsRight
    OwnFunctionsAreCalled
PROPERTIES
    CompilationEnds
    ImplementsStages
