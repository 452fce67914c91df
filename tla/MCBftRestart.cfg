CONSTANTS
    A = A
    B = B
    C = C
    D = D
    x = x
    y = y
    z = z
    Validators = {A, B, C, D}
    Faulty = {}
    Power <- FourPower
    U64Max = 15
    Ids <- FourIds
    Blocks <- OneHeight
    Genesis = Genesis
    HeightOf <- OneHeightOf
    ParentOf <- OneParentOf
    Inapplicable = {}
    MaxRound = 1
    SignerMayFail = FALSE
    None = None
SPECIFICATION RestartSpec
INVARIANT NoDoubleSignAfterRestart
CHECK_DEADLOCK FALSE
