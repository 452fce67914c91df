CONSTANTS
    A = A
    B = B
    C = C
    D = D
    x = x
    y = y
    z = z
    Validators = {A, B, C}
    Faulty = {C}
    Power <- ThreePower
    U64Max = 15
    Ids <- ThreeIds
    Blocks <- TwoHeights
    Genesis = Genesis
    HeightOf <- TwoHeightOf
    ParentOf <- TwoParentOf
    Inapplicable = {y}
    MaxRound = 0
    SignerMayFail = TRUE
    None = None
SPECIFICATION Spec
INVARIANT HaltsOnlyOnBadBlock
CHECK_DEADLOCK FALSE
