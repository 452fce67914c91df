------------------------------ MODULE Finality ------------------------------
(***************************************************************************)
(* What the consensus of the nodes promises, without votes or rounds: the  *)
(* final blocks form one chain from the genesis block, which only grows.   *)
(***************************************************************************)
EXTENDS Naturals

CONSTANTS Blocks, Genesis, HeightOf, ParentOf

VARIABLE final  \* the blocks that are final

Init == final = {}

\* Block b becomes final on top of a final block.
Extend(b) ==
    /\ b \notin final
    /\ ParentOf[b] \in final \cup {Genesis}
    /\ \A c \in final : HeightOf[c] # HeightOf[b]
    /\ final' = final \cup {b}

Next == \E b \in Blocks : Extend(b)

Spec == Init /\ [][Next]_final
=============================================================================
