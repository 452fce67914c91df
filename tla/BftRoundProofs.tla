-------------------------- MODULE BftRoundProofs ----------------------------
(***************************************************************************)
(* The start of a node, a proposal, and the start of the next height after *)
(* a finalized block preserve the invariant of BftConsensus.               *)
(***************************************************************************)
EXTENDS BftVoteProofs

(* ConsensusRuntime::with_signer starts every node in a state of IInv.      *)
LEMMA InitIInv == Init => IInv
<1> SUFFICES ASSUME Init PROVE IInv
  OBVIOUS
<1> USE BlockAssumption DEF Init
<1>1. TypeOK
  BY DEF TypeOK, Rounds, Phases, Honest
<1>2. /\ SignedByHonest
      /\ CountedVotes
      /\ SignedPast
      /\ SignedNow
      /\ NoEquivocation
      /\ PrecommitIsLocked
      /\ LockedPrevotes
      /\ PrecommitBacked
  BY DEF SignedByHonest, CountedVotes, SignedPast, SignedNow, NoEquivocation,
         PrecommitIsLocked, LockedPrevotes, PrecommitBacked
<1>3. CandidateFits /\ LockFollowsPhase /\ HaltsOnlyOnBadBlock
  BY DEF CandidateFits, LockFollowsPhase, HaltsOnlyOnBadBlock
<1>4. LockIsValidValue
  BY DEF LockIsValidValue
<1>5. ChainHeights
  BY DEF ChainHeights
<1>6. QED
  BY <1>1, <1>2, <1>3, <1>4, <1>5 DEF IInv

(* receive_proposal preserves the invariant: in phase Propose nothing of    *)
(* this round is signed yet, and the lock admits only its own block.        *)
LEMMA ReceiveProposalStep ==
    ASSUME IInv, NEW n \in Honest, NEW p \in Proposals, ReceiveProposal(n, p),
           proposed' \subseteq Proposals
    PROVE  IInv'
<1> DEFINE b == p.block
           prevote == Vote("Prevote", round[n], n, b)
<1>1. /\ n \in Validators /\ b \in Blocks /\ round[n] \in Rounds
      /\ b # None
  BY BlockAssumption DEF Honest, Proposals, IInv, TypeOK
<1>2. /\ prevote \in Votes
      /\ prevote.type = "Prevote" /\ prevote.round = round[n]
      /\ prevote.validator = n /\ prevote.block = b
  <2>1. "Prevote" \in VoteTypes /\ "Precommit" \in VoteTypes
    BY DEF VoteTypes
  <2>2. QED
    BY <1>1, <2>1, VoteFields
<1>3. /\ ParentOf[b] = tip[n] /\ HeightOf[b] = height[n]
      /\ RespectsLock(n, p) /\ phase[n] = "Propose"
      /\ proposal' = [proposal EXCEPT ![n] = b]
      /\ phase' = [phase EXCEPT ![n] = "Prevote"]
      /\ pending' = [pending EXCEPT ![n] = b]
      /\ UNCHANGED <<height, round, votes, vote_history, locked_value,
                     locked_round, valid_value, valid_round, tip, chain,
                     valid_block>>
  BY DEF ReceiveProposal, Acceptable
<1>4. \/ /\ signed' = signed \cup {prevote}
         /\ own' = [own EXCEPT ![n] = prevote]
         /\ UNCHANGED exited
      \/ /\ own' = [own EXCEPT ![n] = None]
         /\ exited' \in {exited, exited \cup {n}}
         /\ UNCHANGED signed
  BY DEF ReceiveProposal, SignVote, Fail, Done, Exit
<1>5. /\ signed \subseteq signed'
      /\ \A w \in signed' : w \in signed \/ w = prevote
  BY <1>4
<1> HIDE DEF b, prevote
<1>6. TypeOK'
  BY <1>1, <1>2, <1>3, <1>4 DEF IInv, TypeOK, Phases
<1>7. SignedByHonest'
  BY <1>2, <1>4 DEF IInv, TypeOK, SignedByHonest
<1>8. CandidateFits'
  BY <1>1, <1>3 DEF IInv, TypeOK, CandidateFits
<1>9. CountedVotes'
  BY <1>3, <1>5 DEF IInv, TypeOK, CountedVotes
<1>10. LockIsValidValue'
  BY <1>3 DEF IInv, LockIsValidValue
<1>11. locked_value[n] \in {None, b}
  BY <1>3 DEF RespectsLock, UnlockAllowed, IInv, LockIsValidValue, b
<1>12. LockFollowsPhase'
  BY <1>3, <1>5, <1>11, SignersFacts, Zenon DEF IInv, TypeOK, LockFollowsPhase
<1>13. SignedPast'
  BY <1>1, <1>2, <1>3, <1>5 DEF IInv, TypeOK, SignedPast, Rounds
<1>14. SignedNow'
  BY <1>2, <1>3, <1>5 DEF IInv, TypeOK, SignedNow
<1>15. NoEquivocation'
  BY <1>2, <1>3, <1>5 DEF IInv, NoEquivocation, SignedNow
<1>16. PrecommitIsLocked'
  BY <1>2, <1>3, <1>5 DEF IInv, PrecommitIsLocked
<1>17. LockedPrevotes'
  BY <1>1, <1>2, <1>3, <1>5, <1>11, BlockAssumption
  DEF IInv, TypeOK, Votes, LockedPrevotes, PrecommitIsLocked
<1>18. PrecommitBacked'
  BY <1>2, <1>5, SignersFacts DEF IInv, PrecommitBacked
<1>19. ChainHeights'
  BY <1>3, <1>5, CertifiableGrows DEF IInv, ChainHeights, Certified
<1>20. HaltsOnlyOnBadBlock'
  BY <1>3, <1>5, CertifiableGrows DEF IInv, TypeOK, HaltsOnlyOnBadBlock, Certified
<1>21. QED
  BY <1>6, <1>7, <1>8, <1>9, <1>10, <1>12, <1>13, <1>14, <1>15, <1>16, <1>17,
     <1>18, <1>19, <1>20 DEF IInv

(* A node whose chain grows by the certified block b enters the next height *)
(* with nothing signed and nothing locked there.                            *)
LEMMA AdvanceStep ==
    ASSUME IInv, NEW n \in Honest, NEW b \in Blocks, Certified(b),
           ParentOf[b] = tip[n], AdvanceTo(n, b), Done(n),
           proposed' \subseteq Proposals
    PROVE  IInv'
<1>1. /\ HeightOf[b] \in Nat /\ HeightOf[tip[n]] \in Nat
      /\ HeightOf[b] = HeightOf[tip[n]] + 1
      /\ height[n] = HeightOf[b]
      /\ 0 \in Rounds
  <2>1. HeightOf[b] \in Nat /\ HeightOf[b] = HeightOf[tip[n]] + 1 /\ 0 \in Rounds
    BY BlockAssumption DEF Rounds
  <2>2. QED
    BY <2>1, NodeFacts
<1>2. NewHeight(n, HeightOf[b] + 1)
  BY <1>1 DEF NewHeight
<1>3. /\ tip' = [tip EXCEPT ![n] = b]
      /\ chain' = [chain EXCEPT ![n] = @ \cup {b}]
      /\ height' = [height EXCEPT ![n] = HeightOf[b] + 1]
      /\ round' = [round EXCEPT ![n] = 0]
      /\ phase' = [phase EXCEPT ![n] = "Propose"]
      /\ proposal' = [proposal EXCEPT ![n] = None]
      /\ votes' = [votes EXCEPT ![n] = {}]
      /\ vote_history' = [vote_history EXCEPT ![n] = {}]
      /\ locked_value' = [locked_value EXCEPT ![n] = None]
      /\ locked_round' = [locked_round EXCEPT ![n] = None]
      /\ valid_value' = [valid_value EXCEPT ![n] = None]
      /\ valid_round' = [valid_round EXCEPT ![n] = None]
      /\ pending' = [pending EXCEPT ![n] = None]
      /\ valid_block' = [valid_block EXCEPT ![n] = None]
      /\ own' = [own EXCEPT ![n] = None]
      /\ UNCHANGED <<exited, signed>>
  BY <1>2 DEF AdvanceTo, StartRound, Done
<1>4. \A v \in signed : v.validator = n => HeightOf[v.block] < height'[n]
  <2> SUFFICES ASSUME NEW v \in signed, v.validator = n
               PROVE  HeightOf[v.block] < height'[n]
    OBVIOUS
  <2>1. HeightOf[v.block] \in Nat
    BY SignedFacts
  <2>2. HeightOf[v.block] <= height[n]
    BY <1>1, <2>1, SignedFacts
  <2>3. height'[n] = height[n] + 1
    BY <1>1, <1>3 DEF IInv, TypeOK
  <2>4. QED
    BY <1>1, <2>1, <2>2, <2>3
<1>5. TypeOK'
  <2>1. TypeOK /\ HeightOf[b] + 1 \in Nat
    BY <1>1 DEF IInv
  <2>2. /\ height' \in [Honest -> Nat] /\ round' \in [Honest -> Rounds]
        /\ phase' \in [Honest -> Phases]
        /\ proposal' \in [Honest -> Blocks \cup {None}]
    BY <1>1, <1>3, <2>1 DEF TypeOK, Phases
  <2>3. /\ votes' \in [Honest -> SUBSET Votes]
        /\ vote_history' \in [Honest -> SUBSET Votes]
        /\ own' \in [Honest -> Votes \cup {None}]
    BY <1>3, <2>1 DEF TypeOK
  <2>4. /\ locked_value' \in [Honest -> Blocks \cup {None}]
        /\ locked_round' \in [Honest -> Rounds \cup {None}]
        /\ valid_value' \in [Honest -> Blocks \cup {None}]
        /\ valid_round' \in [Honest -> Rounds \cup {None}]
    BY <1>3, <2>1 DEF TypeOK
  <2>5. /\ tip' \in [Honest -> Blocks \cup {Genesis}]
        /\ chain' \in [Honest -> SUBSET Blocks]
        /\ pending' \in [Honest -> Blocks \cup {None}]
        /\ valid_block' \in [Honest -> Blocks \cup {None}]
    BY <1>3, <2>1 DEF TypeOK
  <2>6. exited' \subseteq Honest /\ signed' \subseteq Votes
    BY <1>3, <2>1 DEF TypeOK
  <2>7. QED
    BY <2>2, <2>3, <2>4, <2>5, <2>6 DEF TypeOK
<1>6. SignedByHonest' /\ NoEquivocation' /\ LockedPrevotes' /\ PrecommitBacked'
  <2>1. signed' = signed
    BY <1>3
  <2>2. NoEquivocation' /\ LockedPrevotes' /\ PrecommitBacked'
    BY <2>1, Zenon DEF IInv, NoEquivocation, LockedPrevotes, PrecommitBacked
  <2>3. SignedByHonest'
    BY <1>3, <2>1 DEF IInv, TypeOK, SignedByHonest
  <2>4. QED
    BY <2>2, <2>3
<1>7. CandidateFits'
  BY <1>3 DEF IInv, TypeOK, CandidateFits
<1>8. CountedVotes'
  BY <1>3 DEF IInv, TypeOK, CountedVotes
<1>9. LockIsValidValue'
  BY <1>3 DEF IInv, TypeOK, LockIsValidValue
<1>10. LockFollowsPhase'
  BY <1>3 DEF IInv, TypeOK, LockFollowsPhase
<1>11. SignedPast'
  BY <1>3, <1>4 DEF IInv, TypeOK, SignedPast
<1>12. ASSUME NEW v \in signed, HeightOf[v.block] = height'[v.validator]
       PROVE  /\ v.validator \in Honest /\ v.validator # n
              /\ height'[v.validator] = height[v.validator]
  <2>1. v.validator \in Honest /\ HeightOf[v.block] \in Nat
    BY SignedFacts
  <2>2. v.validator # n
    BY <1>4, <1>12, <2>1
  <2>3. QED
    BY <1>3, <2>1, <2>2 DEF IInv, TypeOK
<1>13. SignedNow' /\ PrecommitIsLocked'
  <2>1. \A m \in Honest \ {n} :
          /\ round'[m] = round[m] /\ phase'[m] = phase[m]
          /\ proposal'[m] = proposal[m] /\ locked_value'[m] = locked_value[m]
    BY <1>3 DEF IInv, TypeOK
  <2>2. signed' = signed
    BY <1>3
  <2>3. SignedNow'
    BY <1>12, <2>1, <2>2 DEF IInv, SignedNow
  <2>4. PrecommitIsLocked'
    BY <1>12, <2>1, <2>2 DEF IInv, PrecommitIsLocked
  <2>5. QED
    BY <2>3, <2>4
<1>14. ChainHeights'
  <2> SUFFICES ASSUME NEW m \in Honest
               PROVE  /\ tip'[m] \in chain'[m] \cup {Genesis}
                      /\ \A c \in chain'[m] :
                            /\ Certifiable(signed, c)
                            /\ HeightOf[c] <= HeightOf[tip'[m]]
                      /\ \A h \in 1..HeightOf[tip'[m]] :
                            \E c \in chain'[m] : HeightOf[c] = h
    BY <1>3 DEF ChainHeights, Certified
  <2>1. CASE m # n
    BY <1>3, <2>1, Zenon DEF IInv, TypeOK, ChainHeights, Certified
  <2>2. CASE m = n
    <3>1. tip'[n] = b /\ chain'[n] = chain[n] \cup {b}
      BY <1>3 DEF IInv, TypeOK
    <3>2. \A c \in chain[n] : Certifiable(signed, c) /\ HeightOf[c] <= HeightOf[b]
      <4> SUFFICES ASSUME NEW c \in chain[n]
                   PROVE  Certifiable(signed, c) /\ HeightOf[c] <= HeightOf[b]
        OBVIOUS
      <4>1. c \in Blocks /\ Certifiable(signed, c) /\ HeightOf[c] <= HeightOf[tip[n]]
        BY DEF IInv, TypeOK, ChainHeights, Certified
      <4>2. HeightOf[c] \in Nat
        BY <4>1, BlockAssumption
      <4>3. QED
        BY <1>1, <4>1, <4>2
    <3>3. \A c \in chain'[n] :
            Certifiable(signed, c) /\ HeightOf[c] <= HeightOf[b]
      BY <1>1, <3>1, <3>2 DEF Certified
    <3>4. \A h \in 1..HeightOf[b] : h \in 1..HeightOf[tip[n]] \/ h = HeightOf[b]
      BY <1>1
    <3>5. \A h \in 1..HeightOf[b] : \E c \in chain'[n] : HeightOf[c] = h
      BY <3>1, <3>4 DEF IInv, ChainHeights
    <3>6. QED
      BY <2>2, <3>1, <3>3, <3>5
  <2>3. QED
    BY <2>1, <2>2
<1>15. HaltsOnlyOnBadBlock'
  BY <1>3 DEF IInv, TypeOK, HaltsOnlyOnBadBlock, Certified
<1>16. QED
  BY <1>5, <1>6, <1>7, <1>8, <1>9, <1>10, <1>11, <1>13, <1>14, <1>15 DEF IInv

(* A precommit quorum certifies the candidate; the node either advances or, *)
(* when the block cannot be applied, stays in phase Finalized.              *)
LEMMA FinalizeStep ==
    ASSUME IInv, NEW n \in Honest, NEW v \in Votes,
           v \in signed \cup FaultyVotes, v.round = round[n],
           Finalize(n, v), proposed' \subseteq Proposals
    PROVE  IInv'
<1> DEFINE b == proposal[n]
<1>1. /\ phase[n] = "Precommit" /\ v.block = b /\ b \in Blocks
      /\ pending[n] = b /\ ParentOf[b] = tip[n] /\ round[n] \in Rounds
  <2>1. phase[n] = "Precommit" /\ v.block = b
    BY Zenon DEF Finalize, PrecommitQuorum
  <2>2. b \in Blocks /\ pending[n] = b /\ ParentOf[b] = tip[n]
    BY <2>1 DEF IInv, CandidateFits
  <2>3. QED
    BY <2>1, <2>2, NodeFacts
<1>2. Certified(b)
  <2>1. CertificateQuorum(Signers(signed, "Precommit", round[n], b))
    BY <1>1, CountedQuorum, Zenon DEF Finalize, PrecommitQuorum
  <2>2. QED
    BY <1>1, <2>1 DEF Certified, Certifiable
<1>3. CASE AdvanceTo(n, pending[n]) /\ Done(n)
  BY <1>1, <1>2, <1>3, AdvanceStep
<1>4. CASE /\ b \in Inapplicable
           /\ CountVote(n, v)
           /\ phase' = [phase EXCEPT ![n] = "Finalized"]
           /\ pending' = [pending EXCEPT ![n] = None]
           /\ Fail(n)
           /\ UNCHANGED <<height, round, proposal, locked_value,
                          locked_round, valid_value, valid_round, tip,
                          chain, valid_block>>
  <2>1. /\ votes' = [votes EXCEPT ![n] = @ \cup {v}]
        /\ vote_history' = [vote_history EXCEPT ![n] = @ \cup {v}]
        /\ own' = [own EXCEPT ![n] = None]
        /\ exited' \in {exited, exited \cup {n}}
        /\ signed' = signed
    BY <1>4 DEF CountVote, RecordFirst, Fail, Done, Exit
  <2>2. TypeOK'
    BY <1>4, <2>1 DEF IInv, TypeOK, Phases
  <2>3. SignedByHonest' /\ NoEquivocation' /\ LockedPrevotes' /\ PrecommitBacked'
    BY <2>1 DEF IInv, TypeOK, SignedByHonest, NoEquivocation, LockedPrevotes,
                PrecommitBacked
  <2>4. CandidateFits'
    BY <1>1, <1>4 DEF IInv, TypeOK, CandidateFits
  <2>5. CountedVotes'
    BY <1>1, <1>4, <2>1 DEF IInv, TypeOK, CountedVotes
  <2>6. LockIsValidValue' /\ ChainHeights'
    BY <1>4, <2>1 DEF IInv, LockIsValidValue, ChainHeights, Certified
  <2>7. LockFollowsPhase'
    BY <1>1, <1>4, <2>1 DEF IInv, TypeOK, LockFollowsPhase
  <2>8. SignedPast' /\ PrecommitIsLocked'
    BY <1>4, <2>1 DEF IInv, SignedPast, PrecommitIsLocked
  <2>9. SignedNow'
    BY <1>4, <2>1 DEF IInv, TypeOK, SignedNow
  <2>10. HaltsOnlyOnBadBlock'
    BY <1>2, <1>4, <2>1 DEF IInv, TypeOK, HaltsOnlyOnBadBlock, Certified
  <2>11. QED
    BY <2>2, <2>3, <2>4, <2>5, <2>6, <2>7, <2>8, <2>9, <2>10 DEF IInv
<1>5. CertificateQuorum(Voters(votes[n] \cup {v}, "Precommit"))
  <2>1. Voters(votes[n] \cup {v}, "Precommit") \in SUBSET Validators
    BY DEF Voters, IInv, TypeOK, Votes
  <2>2. QED
    BY <2>1, HasQuorumIsExact DEF Finalize, PrecommitQuorum
<1>6. QED
  BY <1>1, <1>3, <1>4, <1>5 DEF Finalize, Appendable
=============================================================================
