SPECIFICATION DemoSpec
CONSTANTS
    demo = demo
    walletA = walletA
    walletB = walletB
    issuer = issuer
    temp = temp
    Demo = demo
    WalletA = walletA
    WalletB = walletB
    Procs = {demo}
    Stores = {temp}
    StoreOf <- InTemp
    Issuer = issuer
    Wallets = {walletA, walletB}
    Home <- TrackedAll
    Public = {issuer}
    Amounts = {1000, 300, 100}
    MaxSupply = 1000000000
    MaxNotes = 3
    MaxAttempts = 3
    Faults = {"signer", "rpc", "ack", "crash", "convert"}
INVARIANTS
    DemoTypeOK
    
    

    
CHECK_DEADLOCK FALSE
