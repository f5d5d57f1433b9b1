SPECIFICATION RirSpec
CONSTANTS
    Typedefs <- MCTypedefs
    Programs <- TwoArguments
INVARIANT ParsedValuesAreOwn
