\* Every import graph of up to three modules with up to two imports each.
CONSTANTS
    MaxModules = 3
    MaxImports = 2
SPECIFICATION SortSpec
INVARIANTS
    SortInv
    NoCycleOverlooked
PROPERTIES
    ResolveTerminates
    ImplementsPromise
