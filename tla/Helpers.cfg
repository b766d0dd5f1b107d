SPECIFICATION Spec
CONSTANTS
    Immutable = RegularAccountImmutableCode
    Types = {RegularAccountImmutableCode, FungibleFaucet}
    Regular = {RegularAccountImmutableCode}
    MaxDraws = 4
INVARIANTS
    TypeOK
    ReturnedWalletsUsable
    
