SPECIFICATION ScannerSpec
CONSTANT Sources <- MCSources
INVARIANTS
    ScanInv
    TokensAreLongest
    ConstantsAreRead
