SPECIFICATION SuiteSpec
CONSTANTS
    Focuses = {"sync", "sync restarts", "connections", "guard", "communication"}
    ServersMayRestart = FALSE
    s1 = s1
    s2 = s2
    s3 = s3
    p = p
    g1 = g1
    g2 = g2
    g3 = g3
    None = None
INVARIANTS
    
    
    
    BanLapses
    SignalsAreKept
CHECK_DEADLOCK FALSE
