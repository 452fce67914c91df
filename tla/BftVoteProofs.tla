--------------------------- MODULE BftVoteProofs ----------------------------
(***************************************************************************)
(* Facts about votes, signers and nodes that the proofs of BftConsensus    *)
(* rest on, and the proof that counting a vote preserves the invariant:    *)
(* a vote that is refused, one that completes a prevote quorum and one that*)
(* completes nothing.                                                      *)
(***************************************************************************)
EXTENDS BftInvariant, QuorumProofs

(* Signers is a set of validators, which grows with the votes sent.         *)
LEMMA SignersFacts ==
    ASSUME NEW sent, NEW more, sent \subseteq more, NEW type, NEW r, NEW b
    PROVE  /\ Signers(sent, type, r, b) \in SUBSET Validators
           /\ Signers(more, type, r, b) \in SUBSET Validators
           /\ Signers(sent, type, r, b) \subseteq Signers(more, type, r, b)
           /\ CertificateQuorum(Signers(sent, type, r, b))
                => CertificateQuorum(Signers(more, type, r, b))
<1>1. /\ Signers(sent, type, r, b) \in SUBSET Validators
      /\ Signers(more, type, r, b) \in SUBSET Validators
      /\ Signers(sent, type, r, b) \subseteq Signers(more, type, r, b)
  BY DEF Signers
<1>2. QED
  BY <1>1, QuorumMonotone

(* A certificate stays valid when more votes are sent.                      *)
LEMMA CertifiableGrows ==
    ASSUME NEW sent, NEW more, sent \subseteq more, NEW b, Certifiable(sent, b)
    PROVE  Certifiable(more, b)
BY SignersFacts DEF Certifiable

(* The voters that handle counts in a round are signers of that round.      *)
LEMMA VotersAreSigners ==
    ASSUME NEW sent, NEW vs \in SUBSET Votes, NEW type, NEW r, NEW b,
           \A v \in vs : /\ v \in sent \cup FaultyVotes
                         /\ v.round = r /\ v.block = b,
           HasQuorum(Voters(vs, type))
    PROVE  CertificateQuorum(Signers(sent, type, r, b))
<1>1. \A v \in Votes : v = Vote(v.type, v.round, v.validator, v.block)
  BY DEF Votes, Vote
<1>2. Voters(vs, type) \subseteq Signers(sent, type, r, b)
  BY <1>1 DEF Voters, Signers, FaultyVotes, Votes
<1>3. Signers(sent, type, r, b) \in SUBSET Validators
  BY DEF Signers
<1>4. QED
  BY <1>2, <1>3, HasQuorumIsExact, QuorumMonotone

(* The numbers that describe an honest node are natural numbers.            *)
LEMMA NodeFacts ==
    ASSUME IInv, NEW n \in Honest
    PROVE  /\ n \in Validators
           /\ height[n] \in Nat
           /\ round[n] \in Rounds /\ round[n] \in Nat
           /\ tip[n] \in Blocks \cup {Genesis} /\ HeightOf[tip[n]] \in Nat
           /\ height[n] = HeightOf[tip[n]] + 1
<1>1. /\ height[n] \in Nat /\ round[n] \in Rounds
      /\ tip[n] \in Blocks \cup {Genesis}
  BY DEF IInv, TypeOK
<1>2. height[n] = HeightOf[tip[n]] + 1
  BY DEF IInv, CandidateFits
<1>3. n \in Validators /\ round[n] \in Nat /\ HeightOf[tip[n]] \in Nat
  BY <1>1, BlockAssumption DEF Honest, Rounds
<1>4. QED
  BY <1>1, <1>2, <1>3

(* A signed vote belongs to an honest validator, and is not ahead of it.    *)
LEMMA SignedFacts ==
    ASSUME IInv, NEW v \in signed
    PROVE  /\ v \in Votes /\ v.validator \in Honest
           /\ v.round \in Nat /\ v.block \in Blocks
           /\ HeightOf[v.block] \in Nat
           /\ \/ HeightOf[v.block] < height[v.validator]
              \/ /\ HeightOf[v.block] = height[v.validator]
                 /\ v.round <= round[v.validator]
<1>1. v \in Votes
  BY DEF IInv, TypeOK
<1>2. v.round \in Nat /\ v.block \in Blocks
  BY <1>1 DEF Votes, Rounds
<1>3. HeightOf[v.block] \in Nat
  BY <1>2, BlockAssumption
<1>4. v.validator \in Honest
  BY DEF IInv, SignedByHonest
<1>5. \/ HeightOf[v.block] < height[v.validator]
      \/ /\ HeightOf[v.block] = height[v.validator]
         /\ v.round <= round[v.validator]
  BY DEF IInv, SignedPast
<1>6. QED
  BY <1>1, <1>2, <1>3, <1>4, <1>5

(* A vote signed for the current height, in the current round or later,     *)
(* names the proposal.                                                      *)
LEMMA SignedThisRound ==
    ASSUME IInv, NEW w \in signed, HeightOf[w.block] = height[w.validator],
           round[w.validator] <= w.round
    PROVE  w.block = proposal[w.validator] /\ phase[w.validator] # "Propose"
<1> DEFINE n == w.validator
<1>1. n \in Honest /\ w.round \in Nat /\ height[n] \in Nat /\ round[n] \in Nat
  BY SignedFacts, NodeFacts
<1>2. w.round <= round[n]
  <2>1. ~ (HeightOf[w.block] < height[n])
    BY <1>1
  <2>2. QED
    BY <2>1, SignedFacts
<1>3. w.round = round[n]
  BY <1>1, <1>2
<1>4. QED
  BY <1>3 DEF IInv, SignedNow

(* Vote builds a record whose fields are its arguments.                     *)
LEMMA VoteFields ==
    ASSUME NEW type \in VoteTypes, NEW r \in Rounds, NEW n \in Validators,
           NEW b \in Blocks
    PROVE  /\ Vote(type, r, n, b) \in Votes
           /\ Vote(type, r, n, b).type = type
           /\ Vote(type, r, n, b).round = r
           /\ Vote(type, r, n, b).validator = n
           /\ Vote(type, r, n, b).block = b
BY DEF Vote, Votes

(* A vote for another block than the proposal only enters vote_history.     *)
LEMMA MismatchStep ==
    ASSUME IInv, NEW n \in Honest, NEW v \in Votes, RecordMismatch(n, v),
           proposed' \subseteq Proposals
    PROVE  IInv'
<1>1. /\ vote_history' = [vote_history EXCEPT ![n] = @ \cup {v}]
      /\ own' = [own EXCEPT ![n] = None]
      /\ exited' \in {exited, exited \cup {n}}
      /\ UNCHANGED <<height, round, phase, proposal, votes, locked_value,
                     locked_round, valid_value, valid_round, tip, chain,
                     pending, valid_block, signed>>
  BY DEF RecordMismatch, RecordFirst, Fail, Done, Exit
<1>2. TypeOK'
  BY <1>1 DEF IInv, TypeOK
<1>3. SignedByHonest'
  BY <1>1 DEF IInv, TypeOK, SignedByHonest
<1>4. CandidateFits' /\ CountedVotes' /\ LockIsValidValue' /\ LockFollowsPhase'
  BY <1>1 DEF IInv, CandidateFits, CountedVotes, LockIsValidValue,
              LockFollowsPhase
<1>5. SignedPast' /\ SignedNow' /\ NoEquivocation' /\ PrecommitIsLocked'
  BY <1>1 DEF IInv, SignedPast, SignedNow, NoEquivocation, PrecommitIsLocked
<1>6. LockedPrevotes' /\ PrecommitBacked' /\ ChainHeights' /\ HaltsOnlyOnBadBlock'
  BY <1>1 DEF IInv, LockedPrevotes, PrecommitBacked, ChainHeights,
              HaltsOnlyOnBadBlock, Certified
<1>7. QED
  BY <1>2, <1>3, <1>4, <1>5, <1>6 DEF IInv

(* The votes counted after v is added are votes for the proposal in this    *)
(* round, so a quorum of them is a quorum of signers.                       *)
LEMMA CountedQuorum ==
    ASSUME IInv, NEW n \in Honest, NEW v \in Votes,
           v \in signed \cup FaultyVotes, v.round = round[n],
           v.block = proposal[n], NEW type,
           HasQuorum(Voters(votes[n] \cup {v}, type))
    PROVE  CertificateQuorum(Signers(signed, type, round[n], proposal[n]))
<1>1. votes[n] \cup {v} \in SUBSET Votes
  BY DEF IInv, TypeOK
<1>2. \A w \in votes[n] \cup {v} :
        /\ w \in signed \cup FaultyVotes
        /\ w.round = round[n] /\ w.block = proposal[n]
  BY DEF IInv, CountedVotes
<1>3. QED
  BY <1>1, <1>2, VotersAreSigners

(* A prevote quorum locks the proposal and signs a precommit for it: any    *)
(* earlier lock of this height is on the same block.                        *)
LEMMA LockStep ==
    ASSUME IInv, NEW n \in Honest, NEW v \in Votes,
           v \in signed \cup FaultyVotes, v.round = round[n],
           HeightOf[v.block] = height[n], Lock(n, v),
           proposed' \subseteq Proposals
    PROVE  IInv'
<1> DEFINE b == proposal[n]
           precommit == Vote("Precommit", round[n], n, b)
<1>1. /\ n \in Validators /\ round[n] \in Rounds /\ phase[n] = "Prevote"
      /\ v.block = b /\ b \in Blocks /\ pending[n] = b /\ HeightOf[b] = height[n]
      /\ b # None
  BY BlockAssumption
  DEF Honest, IInv, TypeOK, Lock, PrevoteQuorum, CandidateFits, Votes
<1>2. /\ precommit \in Votes
      /\ precommit.type = "Precommit" /\ precommit.round = round[n]
      /\ precommit.validator = n /\ precommit.block = b
  <2>1. "Prevote" \in VoteTypes /\ "Precommit" \in VoteTypes
    BY DEF VoteTypes
  <2>2. QED
    BY <1>1, <2>1, VoteFields
<1>3. CertificateQuorum(Signers(signed, "Prevote", round[n], b))
  BY <1>1, CountedQuorum DEF Lock, PrevoteQuorum
<1>4. /\ vote_history' = [vote_history EXCEPT ![n] = @ \cup {v}]
      /\ votes' = [votes EXCEPT ![n] = @ \cup {v}]
      /\ phase' = [phase EXCEPT ![n] = "Precommit"]
      /\ locked_value' = [locked_value EXCEPT ![n] = b]
      /\ locked_round' = [locked_round EXCEPT ![n] = round[n]]
      /\ valid_value' = [valid_value EXCEPT ![n] = b]
      /\ valid_round' = [valid_round EXCEPT ![n] = round[n]]
      /\ valid_block' = [valid_block EXCEPT ![n] = b]
      /\ UNCHANGED <<height, round, proposal, tip, chain, pending>>
  BY <1>1 DEF Lock, CountVote, RecordFirst
<1>5. \/ /\ signed' = signed \cup {precommit}
         /\ own' = [own EXCEPT ![n] = precommit]
         /\ UNCHANGED exited
      \/ /\ own' = [own EXCEPT ![n] = None]
         /\ exited' \in {exited, exited \cup {n}}
         /\ UNCHANGED signed
  BY <1>1 DEF Lock, SignVote, Fail, Done, Exit
<1>6. /\ signed \subseteq signed'
      /\ \A w \in signed' : w \in signed \/ w = precommit
  BY <1>5
<1>7. locked_value[n] \in {None, b}
  BY <1>1 DEF IInv, LockFollowsPhase
<1> HIDE DEF precommit
<1>8. TypeOK'
  BY <1>1, <1>2, <1>4, <1>5 DEF IInv, TypeOK, Phases
<1>9. SignedByHonest'
  BY <1>2, <1>5 DEF IInv, TypeOK, SignedByHonest
<1>10. CandidateFits'
  BY <1>1, <1>4 DEF IInv, TypeOK, CandidateFits
<1>11. CountedVotes'
  BY <1>1, <1>4, <1>6 DEF IInv, TypeOK, CountedVotes
<1>12. LockIsValidValue'
  BY <1>4 DEF IInv, TypeOK, LockIsValidValue
<1>13. LockFollowsPhase'
  BY <1>1, <1>3, <1>4, <1>6, SignersFacts, Zenon DEF IInv, TypeOK, LockFollowsPhase
<1>14. SignedPast'
  <2>1. height' = height /\ round' = round
    BY <1>4
  <2>2. HeightOf[precommit.block] = height[precommit.validator]
    BY <1>1, <1>2
  <2>3. precommit.round <= round[precommit.validator]
    BY <1>2, NodeFacts
  <2>4. QED
    BY <1>6, <2>1, <2>2, <2>3 DEF IInv, SignedPast
<1>15. SignedNow'
  BY <1>2, <1>4, <1>6 DEF IInv, TypeOK, SignedNow
<1>16. NoEquivocation'
  <2>1. ASSUME NEW w \in signed, w.validator = n, w.round = round[n],
               HeightOf[w.block] = height[n]
        PROVE  w.block = b
    BY <2>1, SignedThisRound, NodeFacts
  <2>2. QED
    BY <1>1, <1>2, <1>6, <2>1 DEF IInv, NoEquivocation
<1>17. PrecommitIsLocked'
  <2> SUFFICES ASSUME NEW w \in signed', w.type = "Precommit",
                      HeightOf[w.block] = height[w.validator]
               PROVE  locked_value'[w.validator] = w.block
    BY <1>4 DEF PrecommitIsLocked
  <2>1. locked_value'[n] = b /\ \A m \in Honest \ {n} : locked_value'[m] = locked_value[m]
    BY <1>4 DEF IInv, TypeOK
  <2>2. CASE w = precommit
    BY <1>2, <2>1, <2>2
  <2>3. CASE w \in signed
    <3>1. /\ locked_value[w.validator] = w.block
          /\ w.validator \in Honest /\ w.block \in Blocks
      BY <2>3, SignedFacts DEF IInv, PrecommitIsLocked
    <3>2. w.block # None
      BY <3>1, BlockAssumption
    <3>3. QED
      BY <1>7, <2>1, <3>1, <3>2
  <2>4. QED
    BY <1>6, <2>2, <2>3
<1>18. LockedPrevotes'
  <2>1. ASSUME NEW w \in signed, w.validator = n,
               HeightOf[w.block] = height[n], round[n] <= w.round
        PROVE  w.block = b
    BY <2>1, SignedThisRound
  <2> SUFFICES ASSUME NEW u \in signed', NEW w \in signed',
                      u.validator = w.validator,
                      u.type = "Precommit", w.type = "Prevote",
                      HeightOf[u.block] = HeightOf[w.block],
                      u.round <= w.round
               PROVE  u.block = w.block
    BY DEF LockedPrevotes
  <2>2. w \in signed
    BY <1>2, <1>6
  <2>3. CASE u = precommit
    BY <1>1, <1>2, <2>1, <2>2, <2>3
  <2>4. CASE u \in signed
    BY <2>2, <2>4 DEF IInv, LockedPrevotes
  <2>5. QED
    BY <1>6, <2>3, <2>4
<1>19. PrecommitBacked'
  BY <1>2, <1>3, <1>6, SignersFacts, Zenon DEF IInv, PrecommitBacked
<1>20. ChainHeights'
  BY <1>4, <1>6, CertifiableGrows DEF IInv, ChainHeights, Certified
<1>21. HaltsOnlyOnBadBlock'
  BY <1>4, <1>6, CertifiableGrows
  DEF IInv, TypeOK, HaltsOnlyOnBadBlock, Certified
<1>22. QED
  BY <1>8, <1>9, <1>10, <1>11, <1>12, <1>13, <1>14, <1>15, <1>16, <1>17,
     <1>18, <1>19, <1>20, <1>21 DEF IInv

(* Counting a vote without a quorum changes no lock; a precommit that it    *)
(* makes the node sign again is the one it has locked.                      *)
LEMMA CountStep ==
    ASSUME IInv, NEW n \in Honest, NEW v \in Votes,
           v \in signed \cup FaultyVotes, v.round = round[n],
           HeightOf[v.block] = height[n], PhaseTakes(phase[n], v.type),
           Count(n, v), proposed' \subseteq Proposals
    PROVE  IInv'
<1> DEFINE b == proposal[n]
           precommit == Vote("Precommit", round[n], n, b)
<1>1. /\ n \in Validators /\ round[n] \in Rounds /\ phase[n] # "Propose"
      /\ v.block = b /\ b \in Blocks /\ HeightOf[b] = height[n]
  BY DEF Honest, IInv, TypeOK, Count, PhaseTakes, CandidateFits
<1>2. /\ precommit \in Votes
      /\ precommit.type = "Precommit" /\ precommit.round = round[n]
      /\ precommit.validator = n /\ precommit.block = b
  <2>1. "Prevote" \in VoteTypes /\ "Precommit" \in VoteTypes
    BY DEF VoteTypes
  <2>2. QED
    BY <1>1, <2>1, VoteFields
<1>3. /\ vote_history' = [vote_history EXCEPT ![n] = @ \cup {v}]
      /\ votes' = [votes EXCEPT ![n] = @ \cup {v}]
      /\ UNCHANGED <<height, round, phase, proposal, locked_value,
                     locked_round, valid_value, valid_round, tip, chain,
                     pending, valid_block>>
  BY Zenon DEF Count, CountVote, RecordFirst
<1>4. \/ /\ phase[n] = "Precommit"
         /\ signed' = signed \cup {precommit}
         /\ own' = [own EXCEPT ![n] = precommit]
         /\ UNCHANGED exited
      \/ /\ own' = [own EXCEPT ![n] = None]
         /\ exited' \in {exited, exited \cup {n}}
         /\ UNCHANGED signed
  BY Zenon DEF Count, SignVote, Fail, Done, Exit
<1>5. /\ signed \subseteq signed'
      /\ \A w \in signed' : w \in signed \/ w = precommit
      /\ signed' # signed => phase[n] = "Precommit"
  BY <1>4
<1>6. phase[n] = "Precommit" =>
        /\ locked_value[n] = b
        /\ CertificateQuorum(Signers(signed, "Prevote", round[n], b))
  BY DEF IInv, LockFollowsPhase
<1> HIDE DEF precommit
<1>7. TypeOK'
  BY <1>1, <1>2, <1>3, <1>4 DEF IInv, TypeOK
<1>8. SignedByHonest'
  BY <1>2, <1>4 DEF IInv, TypeOK, SignedByHonest
<1>9. CandidateFits' /\ LockIsValidValue'
  BY <1>3 DEF IInv, CandidateFits, LockIsValidValue
<1>10. CountedVotes'
  BY <1>1, <1>3, <1>5 DEF IInv, TypeOK, CountedVotes
<1>11. LockFollowsPhase'
  BY <1>3, <1>5, SignersFacts DEF IInv, LockFollowsPhase
<1>12. SignedPast'
  <2>1. height' = height /\ round' = round
    BY <1>3, Zenon
  <2>2. HeightOf[precommit.block] = height[precommit.validator]
    BY <1>1, <1>2
  <2>3. precommit.round <= round[precommit.validator]
    BY <1>2, NodeFacts
  <2>4. QED
    BY <1>5, <2>1, <2>2, <2>3 DEF IInv, SignedPast
<1>13. SignedNow'
  BY <1>2, <1>3, <1>5 DEF IInv, SignedNow
<1>14. NoEquivocation'
  <2>1. ASSUME NEW w \in signed, w.validator = n, w.round = round[n],
               HeightOf[w.block] = height[n]
        PROVE  w.block = b
    BY <2>1, SignedThisRound, NodeFacts
  <2>2. QED
    BY <1>1, <1>2, <1>5, <2>1 DEF IInv, NoEquivocation
<1>15. PrecommitIsLocked'
  BY <1>2, <1>3, <1>5, <1>6, Zenon DEF IInv, PrecommitIsLocked
<1>16. LockedPrevotes'
  <2>1. ASSUME NEW w \in signed, w.validator = n,
               HeightOf[w.block] = height[n], round[n] <= w.round
        PROVE  w.block = b
    BY <2>1, SignedThisRound
  <2> SUFFICES ASSUME NEW u \in signed', NEW w \in signed',
                      u.validator = w.validator,
                      u.type = "Precommit", w.type = "Prevote",
                      HeightOf[u.block] = HeightOf[w.block],
                      u.round <= w.round
               PROVE  u.block = w.block
    BY Zenon DEF LockedPrevotes
  <2>2. w \in signed
    BY <1>2, <1>5
  <2>3. CASE u = precommit
    BY <1>1, <1>2, <2>1, <2>2, <2>3
  <2>4. CASE u \in signed
    BY <2>2, <2>4 DEF IInv, LockedPrevotes
  <2>5. QED
    BY <1>5, <2>3, <2>4
<1>17. PrecommitBacked'
  BY <1>2, <1>5, <1>6, SignersFacts DEF IInv, PrecommitBacked
<1>18. ChainHeights' /\ HaltsOnlyOnBadBlock'
  BY <1>3, <1>5, CertifiableGrows, Zenon
  DEF IInv, ChainHeights, HaltsOnlyOnBadBlock, Certified
<1>19. QED
  BY <1>7, <1>8, <1>9, <1>10, <1>11, <1>12, <1>13, <1>14, <1>15, <1>16,
     <1>17, <1>18, Zenon DEF IInv
=============================================================================
