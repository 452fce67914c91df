SPECIFICATION SuiteFairSpec
CONSTANTS
    Focuses = {"sync", "connections", "channels", "scheduler", "download",
               "timers", "events", "update"}
    s1 = s1
    s2 = s2
    p = p
    good = good
    flaky = flaky
    c1 = c1
    c2 = c2
    c3 = c3
    v1 = v1
    v2 = v2
    a = a
    b = b
    None = None
    Torn = Torn
PROPERTIES
    
    OnlyMutualWaitStalls
    ChunksArrive
    DownloadFinishes
    Decides
    
    
CHECK_DEADLOCK FALSE
