SPECIFICATION Spec
CONSTANTS
    HalfWord = 6
    MaxAmount = 2047
    MaxDecimals = 12
    DefaultDecimals = 6
    DefaultSupply = 1000
    Valid = {"USDB", "EURB"}
    Invalid = {"usdb"}
    Typed <- TypedNumbers
    Amounts = {6, 500, 2047, 2048}
INVARIANT MintableUpToMax
CHECK_DEADLOCK FALSE
