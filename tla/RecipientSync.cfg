SPECIFICATION FairSpec
CONSTANTS
    p1 = p1
    p2 = p2
    a = a
    b = b
    issuer = issuer
    brale = brale
    outside = outside
    Procs = {p1, p2}
    Stores = {brale, outside}
    StoreOf <- CustomerP2
    Issuer = issuer
    Wallets = {a, b}
    Home <- CustomerB
    Public = {issuer, a, b}
    Amounts = {1}
    MaxSupply = 2
    MaxNotes = 2
    MaxAttempts = 1
    Faults = {}
PROPERTIES
    RecipientDiscovers
