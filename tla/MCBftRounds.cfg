CONSTANTS
    A = A
    B = B
    C = C
    D = D
    x = x
    y = y
    z = z
    Validators = {A, B, C}
    Faulty = {C}
    Power <- ThreePower
    U64Max = 15
    Ids <- ThreeIds
    Blocks <- OneHeight
    Genesis = Genesis
    HeightOf <- OneHeightOf
    ParentOf <- OneParentOf
    Inapplicable = {}
    MaxRound = 2
    SignerMayFail = FALSE
    None = None
SPECIFICATION Spec
INVARIANT TypeOK NoFork LockIsValidValue
PROPERTY LockHolds
CHECK_DEADLOCK FALSE
