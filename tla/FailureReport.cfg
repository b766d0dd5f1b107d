SPECIFICATION FairSpec
CONSTANTS
    p1 = p1
    p2 = p2
    a = a
    b = b
    issuer = issuer
    brale = brale
    outside = outside
    Procs = {p1, p2}
    Stores = {brale}
    StoreOf <- BothBrale
    Issuer = issuer
    Wallets = {a}
    Home <- AllAtBrale
    Public = {issuer, a}
    Amounts = {1}
    MaxSupply = 2
    MaxNotes = 2
    MaxAttempts = 1
    Faults = {}
PROPERTIES
    FailedMeansNoEffect
