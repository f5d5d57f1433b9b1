\* The declaration of a called function during the translation.
CONSTANTS
    CommandLines <- MCCommandLines
    Stdlib <- MCStdlib
    MaxModules = 6
    MaxImports = 3
SPECIFICATION CompSpec
INVARIANTS
    CalledFunctionIsFound
