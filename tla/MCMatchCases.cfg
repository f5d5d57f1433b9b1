\* Every match expression of up to three cases, pairs and nestings.
CONSTANTS
    Programs <- MCPrograms
SPECIFICATION MSpec
INVARIANTS
    MatchInv
    AcceptedIsLowered
    ValueReachesItsCase
    OnlyLoneCasesAreDead
