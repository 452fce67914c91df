SPECIFICATION SuiteSpec
CONSTANTS
    Focuses = {"sync"}
    ServersMayRestart = TRUE
    s1 = s1
    s2 = s2
    s3 = s3
    p = p
    g1 = g1
    g2 = g2
    g3 = g3
    None = None
INVARIANT SyncNeverFails
CHECK_DEADLOCK FALSE
