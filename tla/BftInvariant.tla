---------------------------- MODULE BftInvariant ----------------------------
(***************************************************************************)
(* The inductive invariant behind the safety of BftConsensus, as a         *)
(* conjunction of named parts.                                             *)
(***************************************************************************)
EXTENDS BftConsensus

\* The own vote that a handler feeds back was signed, by an honest validator.
SignedByHonest ==
    /\ \A v \in signed : v.validator \in Honest
    /\ \A n \in Honest : own[n] # None => own[n] \in signed

\* A candidate extends the chain, from the proposal until the round ends.
CandidateFits ==
    \A n \in Honest :
        /\ height[n] = HeightOf[tip[n]] + 1
        /\ phase[n] # "Propose" => proposal[n] \in Blocks
        /\ phase[n] \in {"Prevote", "Precommit"} =>
              /\ pending[n] = proposal[n]
              /\ ParentOf[proposal[n]] = tip[n]

\* The counted votes are votes for the proposal in this round.
CountedVotes ==
    \A n \in Honest : \A v \in votes[n] :
        /\ v \in signed \cup FaultyVotes
        /\ v.round = round[n]
        /\ v.block = proposal[n]
        /\ phase[n] # "Propose"

\* A node that prevotes respects its lock; one that precommits has locked.
LockFollowsPhase ==
    \A n \in Honest :
        /\ phase[n] = "Prevote" => locked_value[n] \in {None, proposal[n]}
        /\ phase[n] \in {"Precommit", "Finalized"} =>
              /\ locked_value[n] = proposal[n]
              /\ CertificateQuorum(Signers(signed, "Prevote", round[n], proposal[n]))

\* Nobody signs ahead of its own height and round.
SignedPast ==
    \A v \in signed :
        LET n == v.validator
        IN  \/ HeightOf[v.block] < height[n]
            \/ HeightOf[v.block] = height[n] /\ v.round <= round[n]

\* What was signed in the current round names the proposal of that round.
SignedNow ==
    \A v \in signed :
        LET n == v.validator
        IN  HeightOf[v.block] = height[n] /\ v.round = round[n] =>
              /\ v.block = proposal[n]
              /\ phase[n] # "Propose"
              /\ v.type = "Precommit" => phase[n] \in {"Precommit", "Finalized"}

\* A precommit of the current height is a lock that still holds.
PrecommitIsLocked ==
    \A v \in signed :
        LET n == v.validator
        IN  v.type = "Precommit" /\ HeightOf[v.block] = height[n]
            => locked_value[n] = v.block

\* After a precommit a validator prevotes for no other block of that height.
LockedPrevotes ==
    \A v, w \in signed :
        /\ v.validator = w.validator
        /\ v.type = "Precommit" /\ w.type = "Prevote"
        /\ HeightOf[v.block] = HeightOf[w.block]
        /\ v.round <= w.round
        => v.block = w.block

\* The chain of a node has one certified block of every height up to its tip.
ChainHeights ==
    \A n \in Honest :
        /\ tip[n] \in chain[n] \cup {Genesis}
        /\ \A c \in chain[n] : Certified(c) /\ HeightOf[c] <= HeightOf[tip[n]]
        /\ \A h \in 1..HeightOf[tip[n]] : \E c \in chain[n] : HeightOf[c] = h

IInv ==
    /\ TypeOK
    /\ SignedByHonest
    /\ CandidateFits
    /\ CountedVotes
    /\ LockIsValidValue
    /\ LockFollowsPhase
    /\ SignedPast
    /\ SignedNow
    /\ NoEquivocation
    /\ PrecommitIsLocked
    /\ LockedPrevotes
    /\ PrecommitBacked
    /\ ChainHeights
    /\ HaltsOnlyOnBadBlock
=============================================================================
