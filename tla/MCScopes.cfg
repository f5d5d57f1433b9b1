\* All bodies of up to three statements, all heads of up to three
\* declarations, and programs of two and three modules.
CONSTANTS
    Programs <- MCPrograms
    MaxDepth = 10
SPECIFICATION SSpec
INVARIANTS
    ScopesInv
    UseFindsInnermost
    WalksAgree
    NamesAreUnique
    ParentsFollowPath
    AnalysisVerdictIsRight
