SPECIFICATION SuiteSpec
CONSTANTS
    Focuses = {"database", "archive", "storage", "wallet", "install", "update"}
    current = current
    tx1 = tx1
    other = other
    old = old
    new = new
    offence1 = offence1
    offence2 = offence2
    p1 = p1
    p2 = p2
    p3 = p3
    Torn = Torn
    None = None
    Keys <- DbKeys
    Values = {old, new}
    Prefixed = {current, tx1}
    KeyOrder <- DbKeyOrder
    Legacy <- DbLegacy
    LegacyGeneration = 1
    MayCrashIn = {"import", "import_tx", "import_rename", "open", "commit_tx"}
    MaxGeneration = 3
    MaxCrashes = 1
INVARIANTS
    
    BlocksAreKept
    
PROPERTIES
    StoreSpec
    
    
CHECK_DEADLOCK FALSE
