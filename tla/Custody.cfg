SPECIFICATION Spec
CONSTANTS
    p1 = p1
    p2 = p2
    Procs = {p1, p2}
    Backend <- OneEach
    StorePaths = {"./store.sqlite3"}
    KeystorePaths = {"./keystore", "elsewhere"}
    MaxKeys = 3
INVARIANTS
    TypeOK
    KeyBeforeAccount
    
