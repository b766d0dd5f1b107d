SPECIFICATION Spec
CONSTANTS
    p1 = p1
    p2 = p2
    a = a
    b = b
    issuer = issuer
    brale = brale
    outside = outside
    Procs = {p1}
    Stores = {brale}
    StoreOf <- BothBrale
    Issuer = issuer
    Wallets = {a, b}
    Home <- AllAtBrale
    Public = {issuer, a}
    Amounts = {1}
    MaxSupply = 2
    MaxNotes = 3
    MaxAttempts = 2
    Faults = {"signer", "rpc", "ack", "crash", "convert"}
INVARIANTS
    SupplyCoversHoldings
    SupplySound
    AckedPaymentRecoverable
    
PROPERTIES
    ImplementsLedger
