------------------------ MODULE BftConsensusProofs --------------------------
(***************************************************************************)
(* The safety of BftConsensus for every validator set, voting power, block *)
(* tree and number of rounds: BftInvariant!IInv is inductive, and it       *)
(* implies that finality is unique, that honest validators do not          *)
(* equivocate, that locks hold, and that the certified blocks implement    *)
(* the ledger of Finality.                                                 *)
(***************************************************************************)
EXTENDS BftRoundProofs

(* A timeout keeps the locks and enters a round in which the node has not   *)
(* signed anything.                                                         *)
LEMMA TimeoutStep ==
    ASSUME IInv, NEW n \in Honest, Timeout(n), proposed' \subseteq Proposals
    PROVE  IInv'
<1>1. /\ round[n] \in Nat /\ round[n] + 1 \in Rounds /\ height[n] \in Nat
      /\ ~ NewHeight(n, height[n])
  <2>1. round[n] \in Nat /\ height[n] \in Nat /\ round[n] < MaxRound
    BY NodeFacts DEF Timeout
  <2>2. QED
    BY <2>1, BlockAssumption DEF Rounds, NewHeight
<1>2. /\ height' = [height EXCEPT ![n] = height[n]]
      /\ round' = [round EXCEPT ![n] = round[n] + 1]
      /\ phase' = [phase EXCEPT ![n] = "Propose"]
      /\ proposal' = [proposal EXCEPT ![n] = None]
      /\ votes' = [votes EXCEPT ![n] = {}]
      /\ vote_history' = [vote_history EXCEPT ![n] = {}]
      /\ pending' = [pending EXCEPT ![n] = None]
      /\ UNCHANGED <<locked_value, locked_round, valid_value, valid_round, tip,
                     chain, valid_block, own, exited, signed>>
  BY <1>1 DEF Timeout, StartRound
<1>3. height' = height
  BY <1>2 DEF IInv, TypeOK
<1>4. \A v \in signed :
        v.validator = n /\ HeightOf[v.block] = height[n] => v.round < round'[n]
  <2> SUFFICES ASSUME NEW v \in signed, v.validator = n,
                      HeightOf[v.block] = height[n]
               PROVE  v.round < round'[n]
    OBVIOUS
  <2>1. v.round \in Nat /\ v.round <= round[n]
    <3>1. ~ (HeightOf[v.block] < height[n])
      BY <1>1
    <3>2. QED
      BY <3>1, SignedFacts
  <2>2. round'[n] = round[n] + 1
    BY <1>2 DEF IInv, TypeOK
  <2>3. QED
    BY <1>1, <2>1, <2>2
<1>5. TypeOK'
  BY <1>1, <1>2 DEF IInv, TypeOK, Phases
<1>6. SignedByHonest' /\ NoEquivocation' /\ LockedPrevotes' /\ PrecommitBacked'
  BY <1>2 DEF IInv, SignedByHonest, NoEquivocation, LockedPrevotes,
              PrecommitBacked
<1>7. CandidateFits'
  BY <1>2, <1>3 DEF IInv, TypeOK, CandidateFits
<1>8. CountedVotes'
  BY <1>2 DEF IInv, TypeOK, CountedVotes
<1>9. LockIsValidValue' /\ ChainHeights' /\ PrecommitIsLocked'
  BY <1>2, <1>3 DEF IInv, LockIsValidValue, ChainHeights, Certified,
                    PrecommitIsLocked
<1>10. LockFollowsPhase'
  BY <1>2 DEF IInv, TypeOK, LockFollowsPhase
<1>11. SignedPast'
  <2>1. SUFFICES ASSUME NEW v \in signed
                 PROVE  \/ HeightOf[v.block] < height[v.validator]
                        \/ /\ HeightOf[v.block] = height[v.validator]
                           /\ v.round <= round'[v.validator]
    BY <1>2, <1>3 DEF SignedPast
  <2>2. v.validator \in Honest /\ v.round \in Nat
    BY SignedFacts
  <2>3. CASE v.validator = n
    <3>1. round'[n] = round[n] + 1
      BY <1>2 DEF IInv, TypeOK
    <3>2. QED
      BY <1>1, <2>2, <2>3, <3>1, SignedFacts
  <2>4. CASE v.validator # n
    <3>1. round'[v.validator] = round[v.validator]
      BY <1>2, <2>2, <2>4 DEF IInv, TypeOK
    <3>2. QED
      BY <3>1, SignedFacts
  <2>5. QED
    BY <2>3, <2>4
<1>12. SignedNow'
  <2> SUFFICES ASSUME NEW v \in signed,
                      HeightOf[v.block] = height[v.validator],
                      v.round = round'[v.validator]
               PROVE  /\ v.block = proposal'[v.validator]
                      /\ phase'[v.validator] # "Propose"
                      /\ v.type = "Precommit" =>
                            phase'[v.validator] \in {"Precommit", "Finalized"}
    BY <1>2, <1>3 DEF SignedNow
  <2>1. v.validator # n
    <3>1. v.round \in Nat
      BY SignedFacts
    <3>2. round'[n] \in Nat
      BY <1>1, <1>2 DEF IInv, TypeOK
    <3>3. QED
      BY <1>4, <3>1, <3>2
  <2>2. v.validator \in Honest
    BY SignedFacts
  <2>3. /\ round'[v.validator] = round[v.validator]
        /\ phase'[v.validator] = phase[v.validator]
        /\ proposal'[v.validator] = proposal[v.validator]
    BY <1>2, <2>1, <2>2 DEF IInv, TypeOK
  <2>4. QED
    BY <2>3 DEF IInv, SignedNow
<1>13. HaltsOnlyOnBadBlock'
  BY <1>2 DEF IInv, TypeOK, HaltsOnlyOnBadBlock, Certified
<1>14. QED
  BY <1>5, <1>6, <1>7, <1>8, <1>9, <1>10, <1>11, <1>12, <1>13 DEF IInv

(* A sync certificate for the next block advances the node, any other that  *)
(* is new to it ends it.                                                    *)
LEMMA SyncStep ==
    ASSUME IInv, NEW n \in Honest, NEW b \in Blocks,
           ApplySyncCertificate(n, b), proposed' \subseteq Proposals
    PROVE  IInv'
<1>1. CASE Appendable(n, b)
  BY <1>1, AdvanceStep DEF ApplySyncCertificate, Appendable
<1>2. CASE ~ Appendable(n, b)
  <2>1. /\ own' = [own EXCEPT ![n] = None]
        /\ exited' = exited \cup {n}
        /\ UNCHANGED <<height, round, phase, proposal, votes, vote_history,
                       locked_value, locked_round, valid_value, valid_round,
                       tip, chain, pending, valid_block, signed>>
    BY <1>2 DEF ApplySyncCertificate, Exit, bftVars
  <2>2. TypeOK'
    BY <2>1 DEF IInv, TypeOK
  <2>3. SignedByHonest'
    BY <2>1 DEF IInv, TypeOK, SignedByHonest
  <2>4. /\ CandidateFits' /\ CountedVotes' /\ LockIsValidValue'
        /\ LockFollowsPhase'
    BY <2>1 DEF IInv, CandidateFits, CountedVotes, LockIsValidValue,
                LockFollowsPhase
  <2>5. SignedPast' /\ SignedNow' /\ NoEquivocation' /\ PrecommitIsLocked'
    BY <2>1, Zenon DEF IInv, SignedPast, SignedNow, NoEquivocation, PrecommitIsLocked
  <2>6. /\ LockedPrevotes' /\ PrecommitBacked' /\ ChainHeights'
        /\ HaltsOnlyOnBadBlock'
    BY <2>1, Zenon DEF IInv, LockedPrevotes, PrecommitBacked, ChainHeights,
                HaltsOnlyOnBadBlock, Certified
  <2>7. QED
    BY <2>2, <2>3, <2>4, <2>5, <2>6 DEF IInv
<1>3. QED
  BY <1>1, <1>2

(* Every step of Next is one of these steps of one honest node.             *)
LEMMA StepCases ==
    ASSUME IInv, Next
    PROVE  /\ proposed' \subseteq Proposals
           /\ \E n \in Honest :
                \/ \E p \in Proposals : ReceiveProposal(n, p)
                \/ \E v \in Votes : /\ v \in signed \cup FaultyVotes
                                    /\ ReceiveVote(n, v)
                \/ Timeout(n)
                \/ \E b \in Blocks : ApplySyncCertificate(n, b)
<1>0. proposed \subseteq Proposals
  BY DEF IInv, TypeOK
<1>1. PICK n \in Honest :
        \/ \E b \in Blocks : MakeProposal(n, b)
        \/ \E p \in proposed \cup FaultyProposals : DeliverProposal(n, p)
        \/ \E v \in signed \cup FaultyVotes : DeliverVote(n, v)
        \/ HandleOwnVote(n)
        \/ Timeout(n)
        \/ \E b \in Blocks : ApplySyncCertificate(n, b)
  BY DEF Next
<1>2. ASSUME NEW b \in Blocks, MakeProposal(n, b)
      PROVE  /\ proposed' \subseteq Proposals
             /\ \E p \in Proposals : ReceiveProposal(n, p)
  <2>1. ProposalOf(n, b) \in Proposals
    BY DEF ProposalOf, Proposals, IInv, TypeOK, Honest
  <2>2. QED
    BY <1>0, <1>2, <2>1 DEF MakeProposal
<1>3. ASSUME NEW p \in proposed \cup FaultyProposals, DeliverProposal(n, p)
      PROVE  proposed' \subseteq Proposals /\ p \in Proposals /\ ReceiveProposal(n, p)
  BY <1>0, <1>3 DEF DeliverProposal, FaultyProposals
<1>4. ASSUME NEW v \in signed \cup FaultyVotes, DeliverVote(n, v)
      PROVE  proposed' \subseteq Proposals /\ v \in Votes /\ ReceiveVote(n, v)
  BY <1>0, <1>4 DEF DeliverVote, ReceiveVote, FaultyVotes, IInv, TypeOK
<1>5. ASSUME HandleOwnVote(n)
      PROVE  /\ proposed' \subseteq Proposals
             /\ own[n] \in Votes /\ own[n] \in signed /\ ReceiveVote(n, own[n])
  BY <1>0, <1>5 DEF HandleOwnVote, ReceiveVote, IInv, TypeOK, SignedByHonest
<1>6. Timeout(n) => proposed' \subseteq Proposals
  BY <1>0 DEF Timeout
<1>7. ASSUME NEW b \in Blocks, ApplySyncCertificate(n, b)
      PROVE  proposed' \subseteq Proposals
  BY <1>0, <1>7 DEF ApplySyncCertificate
<1>8. QED
  BY <1>1, <1>2, <1>3, <1>4, <1>5, <1>6, <1>7

(* Every step of the nodes preserves the invariant.                         *)
LEMMA IInvStep == IInv /\ [Next]_vars => IInv'
<1> SUFFICES ASSUME IInv, [Next]_vars PROVE IInv'
  OBVIOUS
<1>1. CASE Next
  <2>1. PICK n \in Honest :
          \/ \E p \in Proposals : ReceiveProposal(n, p)
          \/ \E v \in Votes : v \in signed \cup FaultyVotes /\ ReceiveVote(n, v)
          \/ Timeout(n)
          \/ \E b \in Blocks : ApplySyncCertificate(n, b)
    BY <1>1, StepCases
  <2>2. proposed' \subseteq Proposals
    BY <1>1, StepCases
  <2>3. ASSUME NEW v \in Votes, v \in signed \cup FaultyVotes, ReceiveVote(n, v)
        PROVE  IInv'
    <3>1. /\ HeightOf[v.block] = height[n] /\ v.round = round[n]
          /\ PhaseTakes(phase[n], v.type)
      BY <2>3 DEF ReceiveVote
    <3>2. CASE RecordMismatch(n, v)
      BY <2>2, <3>2, MismatchStep
    <3>3. CASE Lock(n, v)
      BY <2>2, <2>3, <3>1, <3>3, LockStep
    <3>4. CASE Finalize(n, v)
      BY <2>2, <2>3, <3>1, <3>4, FinalizeStep
    <3>5. CASE Count(n, v)
      BY <2>2, <2>3, <3>1, <3>5, CountStep
    <3>6. QED
      BY <2>3, <3>2, <3>3, <3>4, <3>5 DEF ReceiveVote
  <2>4. QED
    BY <2>1, <2>2, <2>3, ReceiveProposalStep, TimeoutStep, SyncStep
<1>2. CASE UNCHANGED vars
  <2>1. UNCHANGED <<height, round, phase, proposal, votes, vote_history,
                    locked_value, locked_round, valid_value, valid_round, tip,
                    chain, pending, valid_block, own, exited, proposed, signed>>
    BY <1>2 DEF vars, bftVars, runtimeVars
  <2>2. TypeOK' /\ SignedByHonest' /\ CandidateFits'
    BY <2>1 DEF IInv, TypeOK, SignedByHonest, CandidateFits
  <2>3. CountedVotes' /\ LockIsValidValue' /\ LockFollowsPhase'
    BY <2>1 DEF IInv, CountedVotes, LockIsValidValue, LockFollowsPhase
  <2>4. SignedPast' /\ SignedNow' /\ NoEquivocation' /\ PrecommitIsLocked'
    BY <2>1 DEF IInv, SignedPast, SignedNow, NoEquivocation, PrecommitIsLocked
  <2>5. /\ LockedPrevotes' /\ PrecommitBacked' /\ ChainHeights'
        /\ HaltsOnlyOnBadBlock'
    BY <2>1 DEF IInv, LockedPrevotes, PrecommitBacked, ChainHeights,
                HaltsOnlyOnBadBlock, Certified
  <2>6. QED
    BY <2>2, <2>3, <2>4, <2>5 DEF IInv
<1>3. QED
  BY <1>1, <1>2

(* The inductive invariant holds in every reachable state.                  *)
THEOREM Invariance == Spec => []IInv
BY InitIInv, IInvStep, PTL DEF Spec

(* Every field keeps its type, for every validator set and block tree.      *)
THEOREM TypeCorrectness == Spec => []TypeOK
<1>1. IInv => TypeOK
  BY DEF IInv
<1>2. QED
  BY <1>1, Invariance, PTL

(* An honest validator never signs two votes that contradict each other, so *)
(* no DoubleVoteEvidence can be built against it.                           *)
THEOREM HonestNeverEquivocate == Spec => []NoEquivocation
<1>1. IInv => NoEquivocation
  BY DEF IInv
<1>2. QED
  BY <1>1, Invariance, PTL

(* Every honest precommit was justified by a prevote quorum of its round.   *)
THEOREM PrecommitsAreBacked == Spec => []PrecommitBacked
<1>1. IInv => PrecommitBacked
  BY DEF IInv
<1>2. QED
  BY <1>1, Invariance, PTL

(* The lock and the valid value never part, so the unlock branch of         *)
(* handle_proposal is dead code.                                            *)
THEOREM LockAndValidValueAgree == Spec => []LockIsValidValue
<1>1. IInv => LockIsValidValue
  BY DEF IInv
<1>2. QED
  BY <1>1, Invariance, PTL

(* A node halts in phase Finalized only on a block it cannot apply.         *)
THEOREM HaltImpliesBadBlock == Spec => []HaltsOnlyOnBadBlock
<1>1. IInv => HaltsOnlyOnBadBlock
  BY DEF IInv
<1>2. QED
  BY <1>1, Invariance, PTL

(* A certificate of b in round r and one of c in a round s >= r of the same *)
(* height share an honest validator that precommitted b and then prevoted c *)
(* under its lock, so b and c are one block.                                *)
LEMMA OrderedCertificatesAgree ==
    ASSUME IInv, NEW b \in Blocks, NEW c \in Blocks, HeightOf[b] = HeightOf[c],
           NEW r \in Rounds, NEW s \in Rounds, r <= s,
           CertificateQuorum(Signers(signed, "Precommit", r, b)),
           CertificateQuorum(Signers(signed, "Precommit", s, c))
    PROVE  b = c
<1> DEFINE PrecommitsB == Signers(signed, "Precommit", r, b)
           PrecommitsC == Signers(signed, "Precommit", s, c)
           PrevotesC == Signers(signed, "Prevote", s, c)
<1>1. /\ PrecommitsB \in SUBSET Validators
      /\ PrecommitsC \in SUBSET Validators
      /\ PrevotesC \in SUBSET Validators
  BY DEF Signers
<1>2. PICK w \in PrecommitsC : w \notin Faulty
  BY <1>1, QuorumIntersection
<1>3. Vote("Precommit", s, w, c) \in signed /\ w \in Validators
  BY <1>2 DEF Signers
<1>4. CertificateQuorum(PrevotesC)
  BY <1>3, VoteFields DEF IInv, PrecommitBacked, VoteTypes
<1>5. PICK q \in PrecommitsB \cap PrevotesC : q \notin Faulty
  BY <1>1, <1>4, QuorumIntersection
<1>6. /\ q \in Validators
      /\ Vote("Precommit", r, q, b) \in signed
      /\ Vote("Prevote", s, q, c) \in signed
  BY <1>5 DEF Signers
<1>7. QED
  <2> DEFINE p == Vote("Precommit", r, q, b)
             v == Vote("Prevote", s, q, c)
  <2>1. /\ p.type = "Precommit" /\ p.round = r /\ p.validator = q /\ p.block = b
        /\ v.type = "Prevote" /\ v.round = s /\ v.validator = q /\ v.block = c
    BY <1>6, VoteFields DEF VoteTypes
  <2> HIDE DEF p, v
  <2>2. p \in signed /\ v \in signed
    BY <1>6 DEF p, v
  <2>3. QED
    BY <2>1, <2>2 DEF IInv, LockedPrevotes

(* The invariant implies that finality is unique.                           *)
LEMMA IInvNoFork == IInv => NoFork
<1> SUFFICES ASSUME IInv, NEW b \in Blocks, NEW c \in Blocks,
                    Certified(b), Certified(c), HeightOf[b] = HeightOf[c]
             PROVE  b = c
  BY DEF NoFork
<1>1. PICK r \in Rounds : CertificateQuorum(Signers(signed, "Precommit", r, b))
  BY DEF Certified, Certifiable
<1>2. PICK s \in Rounds : CertificateQuorum(Signers(signed, "Precommit", s, c))
  BY DEF Certified, Certifiable
<1>3. r <= s \/ s <= r
  BY DEF Rounds
<1>4. QED
  BY <1>1, <1>2, <1>3, OrderedCertificatesAgree

(* FinalityCertificate::verify never accepts two blocks of one height, in   *)
(* any execution of any number of rounds with any validator set.            *)
THEOREM FinalityIsUnique == Spec => []NoFork
BY Invariance, IInvNoFork, PTL

(* The chain of every node is exactly the certified blocks up to its tip.   *)
THEOREM ChainsAreFinal == Spec => []ChainIsFinal
<1>1. IInv => ChainIsFinal
  <2> SUFFICES ASSUME IInv, NEW n \in Honest, NEW b \in Blocks, Certified(b),
                      HeightOf[b] <= HeightOf[tip[n]]
               PROVE  b \in chain[n]
    BY DEF ChainIsFinal, IInv, TypeOK, ChainHeights
  <2>1. HeightOf[b] \in 1..HeightOf[tip[n]]
    <3>1. HeightOf[tip[n]] \in Nat
      BY BlockAssumption DEF IInv, TypeOK
    <3>2. HeightOf[b] \in Nat /\ HeightOf[b] >= 1
      <4>1. HeightOf[ParentOf[b]] \in Nat
        BY BlockAssumption
      <4>2. QED
        BY <4>1, BlockAssumption
    <3>3. QED
      BY <3>1, <3>2
  <2>2. PICK c \in chain[n] : HeightOf[c] = HeightOf[b]
    BY <2>1 DEF IInv, ChainHeights
  <2>3. c \in Blocks /\ Certified(c)
    BY DEF IInv, TypeOK, ChainHeights
  <2>4. QED
    BY <2>2, <2>3, IInvNoFork DEF NoFork
<1>2. QED
  BY <1>1, Invariance, PTL

(* A node that stays at its height keeps its lock.                          *)
LEMMA LockHoldsStep ==
    ASSUME IInv, Next, NEW m \in Honest, height'[m] = height[m],
           locked_value[m] # None
    PROVE  locked_value'[m] = locked_value[m]
<1>1. PICK n \in Honest :
        \/ \E p \in Proposals : ReceiveProposal(n, p)
        \/ \E v \in Votes : v \in signed \cup FaultyVotes /\ ReceiveVote(n, v)
        \/ Timeout(n)
        \/ \E b \in Blocks : ApplySyncCertificate(n, b)
  BY StepCases
<1>2. ASSUME NEW b \in Blocks, ParentOf[b] = tip[n], AdvanceTo(n, b)
      PROVE  locked_value'[m] = locked_value[m]
  <2>1. height'[n] = height[n] + 1 /\ height[n] \in Nat
    <3>1. height' = [height EXCEPT ![n] = HeightOf[b] + 1]
      BY <1>2 DEF AdvanceTo, StartRound
    <3>2. height'[n] = HeightOf[b] + 1
      BY <3>1 DEF IInv, TypeOK
    <3>3. HeightOf[b] = HeightOf[tip[n]] + 1
      BY <1>2, BlockAssumption
    <3>4. QED
      BY <3>2, <3>3, NodeFacts
  <2>2. m # n
    BY <2>1
  <2>3. QED
    BY <1>2, <2>2 DEF AdvanceTo, StartRound, IInv, TypeOK
<1>3. ASSUME NEW v \in Votes, Lock(n, v)
      PROVE  locked_value'[m] = locked_value[m]
  BY <1>3, Zenon DEF Lock, PrevoteQuorum, IInv, TypeOK, LockFollowsPhase
<1>4. ASSUME NEW v \in Votes, Finalize(n, v)
      PROVE  locked_value'[m] = locked_value[m]
  <2>1. pending[n] \in Blocks /\ ParentOf[pending[n]] = tip[n]
    <3>1. phase[n] = "Precommit"
      BY <1>4, Zenon DEF Finalize, PrecommitQuorum
    <3>2. QED
      BY <3>1 DEF IInv, CandidateFits
  <2>2. QED
    BY <1>2, <1>4, <2>1 DEF Finalize
<1>5. ASSUME NEW v \in Votes, ReceiveVote(n, v)
      PROVE  locked_value'[m] = locked_value[m]
  BY <1>3, <1>4, <1>5, Zenon DEF ReceiveVote, RecordMismatch, Count
<1>6. ASSUME Timeout(n)
      PROVE  locked_value' = locked_value
  <2>1. ~ NewHeight(n, height[n])
    BY NodeFacts DEF NewHeight
  <2>2. QED
    BY <1>6, <2>1 DEF Timeout, StartRound
<1>7. ASSUME NEW b \in Blocks, ApplySyncCertificate(n, b)
      PROVE  locked_value'[m] = locked_value[m]
  BY <1>2, <1>7, Zenon DEF ApplySyncCertificate, Appendable, bftVars
<1>8. ASSUME NEW p \in Proposals, ReceiveProposal(n, p)
      PROVE  locked_value' = locked_value
  BY <1>8, Zenon DEF ReceiveProposal
<1>9. QED
  BY <1>1, <1>5, <1>6, <1>7, <1>8

(* Within a height no message, timeout or round change replaces a lock.     *)
THEOREM LocksHold == Spec => LockHolds
<1>1. IInv /\ [Next]_vars =>
        [\A n \in Honest :
           height'[n] = height[n] /\ locked_value[n] # None
           => locked_value'[n] = locked_value[n]]_vars
  BY LockHoldsStep
<1>2. QED
  BY <1>1, Invariance, PTL DEF Spec, LockHolds

(* A step signs at most one vote, for a block that follows the tip of the   *)
(* chain of the node that signs it.                                         *)
LEMMA OneVotePerStep ==
    ASSUME IInv, Next
    PROVE  \/ signed' = signed
           \/ \E n \in Honest, b \in Blocks, r \in Rounds, type \in VoteTypes :
                /\ ParentOf[b] = tip[n]
                /\ signed' = signed \cup {Vote(type, r, n, b)}
<1>1. PICK n \in Honest :
        \/ \E p \in Proposals : ReceiveProposal(n, p)
        \/ \E v \in Votes : v \in signed \cup FaultyVotes /\ ReceiveVote(n, v)
        \/ Timeout(n)
        \/ \E b \in Blocks : ApplySyncCertificate(n, b)
  BY StepCases
<1>2. /\ round[n] \in Rounds
      /\ phase[n] \in {"Prevote", "Precommit"} =>
           /\ pending[n] \in Blocks /\ proposal[n] = pending[n]
           /\ ParentOf[pending[n]] = tip[n]
  BY DEF IInv, TypeOK, CandidateFits
<1>3. ASSUME NEW p \in Proposals, ReceiveProposal(n, p)
      PROVE  \/ signed' = signed
             \/ \E b \in Blocks : /\ ParentOf[b] = tip[n]
                                  /\ signed' = signed \cup
                                       {Vote("Prevote", round[n], n, b)}
  BY <1>3 DEF ReceiveProposal, Acceptable, SignVote, Fail, Done, Exit, Proposals
<1>4. ASSUME NEW v \in Votes, ReceiveVote(n, v)
      PROVE  \/ signed' = signed
             \/ \E b \in Blocks : /\ ParentOf[b] = tip[n]
                                  /\ signed' = signed \cup
                                       {Vote("Precommit", round[n], n, b)}
  <2>1. CASE RecordMismatch(n, v)
    BY <2>1, Zenon DEF RecordMismatch, Fail, Done, Exit
  <2>2. CASE Lock(n, v)
    BY <1>2, <2>2, Zenon DEF Lock, PrevoteQuorum, SignVote, Fail, Done, Exit
  <2>3. CASE Finalize(n, v)
    BY <2>3, Zenon DEF Finalize, Fail, Done, Exit
  <2>4. CASE Count(n, v)
    BY <1>2, <2>4, Zenon DEF Count, SignVote, Fail, Done, Exit
  <2>5. QED
    BY <1>4, <2>1, <2>2, <2>3, <2>4, Zenon DEF ReceiveVote
<1>5. Timeout(n) => signed' = signed
  BY DEF Timeout
<1>6. ASSUME NEW b \in Blocks, ApplySyncCertificate(n, b)
      PROVE  signed' = signed
  BY <1>6, Zenon DEF ApplySyncCertificate, Done, Exit
<1>7. QED
  BY <1>1, <1>2, <1>3, <1>4, <1>5, <1>6 DEF VoteTypes

(* A vote for b certifies no other block.                                   *)
LEMMA VoteCertifiesOneBlock ==
    ASSUME NEW sent, NEW type \in VoteTypes, NEW r \in Rounds,
           NEW n \in Validators, NEW b \in Blocks, NEW c \in Blocks, c # b,
           Certifiable(sent \cup {Vote(type, r, n, b)}, c)
    PROVE  Certifiable(sent, c)
<1>1. \A s \in Rounds, w \in Validators :
        Vote("Precommit", s, w, c) # Vote(type, r, n, b)
  BY VoteFields DEF VoteTypes
<1>2. \A s \in Rounds :
        Signers(sent \cup {Vote(type, r, n, b)}, "Precommit", s, c)
          = Signers(sent, "Precommit", s, c)
  BY <1>1 DEF Signers
<1>3. QED
  BY <1>2 DEF Certifiable

(* A node step is a step of the ledger, or leaves it as it is.              *)
LEMMA LedgerStep ==
    ASSUME IInv, Next, IInv'
    PROVE  CertifiedBlocks' = CertifiedBlocks \/ Ledger!Next
<1>1. CASE signed' = signed
  BY <1>1 DEF CertifiedBlocks, Certified
<1>2. CASE signed' # signed
  <2>1. PICK n \in Honest, b \in Blocks, r \in Rounds, type \in VoteTypes :
          /\ ParentOf[b] = tip[n]
          /\ signed' = signed \cup {Vote(type, r, n, b)}
    BY <1>2, OneVotePerStep
  <2>2. n \in Validators
    BY DEF Honest
  <2>3. \A c \in Blocks : Certifiable(signed, c) => Certifiable(signed', c)
    BY <2>1, CertifiableGrows
  <2>4. \A c \in Blocks : c # b /\ Certifiable(signed', c) => Certifiable(signed, c)
    BY <2>1, <2>2, VoteCertifiesOneBlock
  <2>5. CertifiedBlocks' \in {CertifiedBlocks, CertifiedBlocks \cup {b}}
    BY <2>3, <2>4 DEF CertifiedBlocks, Certified
  <2>6. ASSUME CertifiedBlocks' # CertifiedBlocks
        PROVE  Ledger!Extend(b)
    <3>1. /\ b \notin CertifiedBlocks
          /\ CertifiedBlocks' = CertifiedBlocks \cup {b}
      BY <2>5, <2>6
    <3>2. ParentOf[b] \in CertifiedBlocks \cup {Genesis}
      BY <2>1, Zenon DEF IInv, TypeOK, ChainHeights, CertifiedBlocks
    <3>3. NoFork'
      BY IInvNoFork, PTL
    <3>4. \A c \in CertifiedBlocks : HeightOf[c] # HeightOf[b]
      <4> SUFFICES ASSUME NEW c \in CertifiedBlocks, HeightOf[c] = HeightOf[b]
                   PROVE  FALSE
        OBVIOUS
      <4>1. /\ c \in Blocks /\ c # b
            /\ Certifiable(signed', c) /\ Certifiable(signed', b)
        BY <2>3, <3>1 DEF CertifiedBlocks, Certified
      <4>2. QED
        BY <3>3, <4>1 DEF NoFork, Certified
    <3>5. QED
      BY <3>1, <3>2, <3>4 DEF Ledger!Extend
  <2>7. QED
    BY <2>6 DEF Ledger!Next
<1>3. QED
  BY <1>1, <1>2

(* The certified blocks implement Finality: from the empty ledger they grow *)
(* by one block at a time, always on top of a final block.                  *)
THEOREM ImplementsFinality == Spec => FinalitySpec
<1>1. Init => Ledger!Init
  <2> SUFFICES ASSUME Init, NEW b \in Blocks PROVE ~ Certified(b)
    BY DEF Ledger!Init, CertifiedBlocks
  <2>1. Faulty \subseteq Validators
    BY FaultAssumption
  <2>2. \A r \in Rounds : Signers({}, "Precommit", r, b) = Faulty
    BY <2>1 DEF Signers
  <2>3. QED
    BY <2>2, FaultyAreNoQuorum DEF Init, Certified, Certifiable
<1>2. IInv /\ IInv' /\ [Next]_vars => [Ledger!Next]_CertifiedBlocks
  <2>1. UNCHANGED vars => CertifiedBlocks' = CertifiedBlocks
    BY DEF vars, CertifiedBlocks, Certified
  <2>2. QED
    BY <2>1, LedgerStep
<1>3. QED
  BY <1>1, <1>2, Invariance, PTL DEF Spec, FinalitySpec, Ledger!Spec
=============================================================================
