SPECIFICATION SuiteSpec
CONSTANTS
    Focuses = {"round change", "wal", "timers", "bootstrap", "eras", "upgrades",
               "policy", "peers"}
    v1 = v1
    v2 = v2
    v3 = v3
    v4 = v4
    m1 = m1
    m2 = m2
    m3 = m3
    None = None
    Validators = {v1, v2, v3, v4}
    Faulty = {v4}
    Power <- OneEach
    U64Max = 100
    Blocks = {b1, b2}
    Nil = nil
    MaxVotes = 4
    Slots = {h1prevote, h1precommit, h2prevote}
    Hashes = {a, b}
INVARIANTS
    
    
    RoundsKeepPace
    ServersAgree
    
PROPERTIES
    InForceAsScheduled
CHECK_DEADLOCK FALSE
