--------------------------- MODULE MCBftConsensus ---------------------------
EXTENDS BftRestart, TLC

CONSTANTS A, B, C, D, x, y, z

\* Four validators of power 100 in the testnet; one unit each here.
FourIds == <<A, B, C, D>>
FourPower == [v \in {A, B, C, D} |-> 1]

\* Three validators of unequal power: A is in every quorum.
ThreeIds == <<A, B, C>>
ThreePower == [v \in {A, B, C} |-> IF v = A THEN 2 ELSE 1]

OneHeight == {x, y}
OneHeightOf == [b \in {x, y, Genesis} |-> IF b = Genesis THEN 0 ELSE 1]
OneParentOf == [b \in {x, y} |-> Genesis]

CoreSymmetry ==
    {p @@ q : p \in Permutations({C, D}), q \in Permutations({x, y})}

\* Two heights: y cannot be applied, z follows x.
TwoHeights == {x, y, z}
TwoHeightOf ==
    [b \in {x, y, z, Genesis} |->
        CASE b \in {x, y} -> 1 [] b = z -> 2 [] OTHER -> 0]
TwoParentOf == [b \in {x, y, z} |-> IF b = z THEN x ELSE Genesis]
=============================================================================
