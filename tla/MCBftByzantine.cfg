CONSTANTS
    A = A
    B = B
    C = C
    D = D
    x = x
    y = y
    z = z
    Validators = {A, B, C, D}
    Faulty = {A}
    Power <- FourPower
    U64Max = 15
    Ids <- FourIds
    Blocks <- OneHeight
    Genesis = Genesis
    HeightOf <- OneHeightOf
    ParentOf <- OneParentOf
    Inapplicable = {}
    MaxRound = 0
    SignerMayFail = FALSE
    None = None
SPECIFICATION Spec
SYMMETRY CoreSymmetry
INVARIANT NoEquivocation PrecommitBacked
CHECK_DEADLOCK FALSE
