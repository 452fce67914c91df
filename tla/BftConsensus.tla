----------------------------- MODULE BftConsensus -----------------------------
(***************************************************************************)
(* The propose / prevote / precommit protocol of consensus.rs, driven by   *)
(* the ConsensusRuntime of every validator and by the event loop of        *)
(* main.rs, over an asynchronous network and with Byzantine validators.    *)
(*                                                                         *)
(* The network is the set of everything signed so far: a message may be    *)
(* delivered late, out of order, several times or never.  Whatever a       *)
(* faulty validator could sign is deliverable from the start.              *)
(*                                                                         *)
(* A block is identified by its hash, which commits to its height and to   *)
(* its parent: HeightOf and ParentOf read them back.  The height of a vote *)
(* is that of the block it names.  Times and deadlines are abstracted: a   *)
(* timeout may fire in any phase in which timeout_if_due can.              *)
(***************************************************************************)
EXTENDS VotingPower, Sequences

CONSTANTS
    Ids,            \* the validator ids in sorted order (expected_proposer)
    Blocks,         \* the candidate blocks, of every height
    Genesis,        \* the block every chain starts from
    HeightOf,       \* block.height
    ParentOf,       \* the block whose hash is block.previous_hash
    Inapplicable,   \* blocks that Blockchain::apply_block rejects
    MaxRound,       \* u32::MAX, the last round number on_timeout can reach
    SignerMayFail,  \* whether ValidatorSigner::sign_bytes can return an error
    None            \* Option::None

ASSUME BlockAssumption ==
    /\ Genesis \notin Blocks
    /\ None \notin Blocks \cup {Genesis}
    /\ HeightOf \in [Blocks \cup {Genesis} -> Nat]
    /\ ParentOf \in [Blocks -> Blocks \cup {Genesis}]
    /\ HeightOf[Genesis] = 0
    /\ \A b \in Blocks : HeightOf[b] = HeightOf[ParentOf[b]] + 1
    /\ Inapplicable \subseteq Blocks
    /\ MaxRound \in Nat
    /\ SignerMayFail \in BOOLEAN

Honest == Validators \ Faulty
Rounds == 0..MaxRound
Phases == {"Propose", "Prevote", "Precommit", "Finalized"}
VoteTypes == {"Prevote", "Precommit"}

Votes == [type : VoteTypes, round : Rounds, validator : Validators,
          block : Blocks]
Proposals == [round : Rounds, proposer : Validators, block : Blocks,
              valid_round : Rounds \cup {None}]

VARIABLES
    \* BftConsensus, one per honest validator
    height, round, phase,
    proposal,                    \* the hash proposed in this round
    votes,                       \* the votes counted in this round
    vote_history,                \* the first vote seen of each validator and type
    locked_value, locked_round,
    valid_value, valid_round,
    \* ConsensusRuntime
    tip,                         \* the last block of the chain
    chain,                       \* the blocks applied after the genesis block
    pending,                     \* the candidate block of this round
    valid_block,                 \* the block re-proposed in later rounds
    own,                         \* own vote that the running handler feeds back
    exited,                      \* nodes whose event loop returned an error
    \* the network
    proposed, signed

bftVars == <<height, round, phase, proposal, votes, vote_history,
             locked_value, locked_round, valid_value, valid_round>>
runtimeVars == <<tip, chain, pending, valid_block, own, exited>>
vars == <<bftVars, runtimeVars, proposed, signed>>

Vote(type, r, n, b) ==
    [type |-> type, round |-> r, validator |-> n, block |-> b]

FaultyVotes == {v \in Votes : v.validator \in Faulty}
FaultyProposals == {p \in Proposals : p.proposer \in Faulty}

-----------------------------------------------------------------------------
Init ==
    /\ height = [n \in Honest |-> 1]
    /\ round = [n \in Honest |-> 0]
    /\ phase = [n \in Honest |-> "Propose"]
    /\ proposal = [n \in Honest |-> None]
    /\ votes = [n \in Honest |-> {}]
    /\ vote_history = [n \in Honest |-> {}]
    /\ locked_value = [n \in Honest |-> None]
    /\ locked_round = [n \in Honest |-> None]
    /\ valid_value = [n \in Honest |-> None]
    /\ valid_round = [n \in Honest |-> None]
    /\ tip = [n \in Honest |-> Genesis]
    /\ chain = [n \in Honest |-> {}]
    /\ pending = [n \in Honest |-> None]
    /\ valid_block = [n \in Honest |-> None]
    /\ own = [n \in Honest |-> None]
    /\ exited = {}
    /\ proposed = {}
    /\ signed = {}

ExpectedProposer(h, r) == Ids[(((h - 1) + r) % Len(Ids)) + 1]

\* start_round forgets the locks only when the height grows.
ForgetsOnTimeout(n, h) == TRUE

NewHeight(n, h) == h > height[n]

(***************************************************************************)
(* start_round.  The locks survive a change of round and are dropped by a  *)
(* change of height.  vote_history keeps past rounds in the code; handle   *)
(* only looks up the current round and rounds never go back, so only the   *)
(* entries of the current round are kept here.                             *)
(***************************************************************************)
StartRound(n, h, r) ==
    /\ height' = [height EXCEPT ![n] = h]
    /\ round' = [round EXCEPT ![n] = r]
    /\ phase' = [phase EXCEPT ![n] = "Propose"]
    /\ proposal' = [proposal EXCEPT ![n] = None]
    /\ votes' = [votes EXCEPT ![n] = {}]
    /\ vote_history' = [vote_history EXCEPT ![n] = {}]
    /\ IF NewHeight(n, h)
       THEN /\ locked_value' = [locked_value EXCEPT ![n] = None]
            /\ locked_round' = [locked_round EXCEPT ![n] = None]
            /\ valid_value' = [valid_value EXCEPT ![n] = None]
            /\ valid_round' = [valid_round EXCEPT ![n] = None]
       ELSE UNCHANGED <<locked_value, locked_round, valid_value, valid_round>>

\* apply_block accepts b on top of the chain.
AppendableAnywhere(n, b) == b \notin Inapplicable

Appendable(n, b) == ParentOf[b] = tip[n] /\ b \notin Inapplicable

(***************************************************************************)
(* apply_block succeeded on the next block: the chain grows by b and the   *)
(* runtime starts the next height at round 0                               *)
(* (advance_after_finalization, and the end of apply_sync_certificates).   *)
(***************************************************************************)
AdvanceKeepingValidBlock(n, b) ==
    /\ tip' = [tip EXCEPT ![n] = b]
    /\ chain' = [chain EXCEPT ![n] = @ \cup {b}]
    /\ StartRound(n, HeightOf[b] + 1, 0)
    /\ pending' = [pending EXCEPT ![n] = None]
    /\ UNCHANGED valid_block

AdvanceTo(n, b) ==
    /\ tip' = [tip EXCEPT ![n] = b]
    /\ chain' = [chain EXCEPT ![n] = @ \cup {b}]
    /\ StartRound(n, HeightOf[b] + 1, 0)
    /\ pending' = [pending EXCEPT ![n] = None]
    /\ valid_block' = [valid_block EXCEPT ![n] = None]

\* The handler ends without an error and without a vote to feed back.
Done(n) ==
    /\ own' = [own EXCEPT ![n] = None]
    /\ UNCHANGED <<exited, signed>>

\* The event loop of main.rs returns the error and the node ends.
Exit(n) ==
    /\ own' = [own EXCEPT ![n] = None]
    /\ exited' = exited \cup {n}
    /\ UNCHANGED signed

\* An error is logged when the message came from the network, and ends the
\* node when it was the node's own vote.
Fail(n) == IF own[n] = None THEN Done(n) ELSE Exit(n)

\* sign_vote: the signed vote reaches the network and is fed back to the
\* node's own receive_vote before the handler ends.
SignVote(n, v) ==
    \/ /\ signed' = signed \cup {v}
       /\ own' = [own EXCEPT ![n] = v]
       /\ UNCHANGED exited
    \/ SignerMayFail /\ Fail(n)

-----------------------------------------------------------------------------
\* handle_proposal: a locked validator accepts another block only with a
\* valid_round it can confirm from its own valid value.
TrustsValidRound(n, p) ==
    /\ p.valid_round # None
    /\ locked_round[n] # None
    /\ p.valid_round >= locked_round[n]

UnlockAllowed(n, p) ==
    /\ p.valid_round # None
    /\ locked_round[n] # None
    /\ p.valid_round >= locked_round[n]
    /\ valid_round[n] = p.valid_round
    /\ valid_value[n] = p.block

IgnoresLock(n, p) == TRUE

RespectsLock(n, p) ==
    \/ locked_value[n] \in {None, p.block}
    \/ UnlockAllowed(n, p)

\* The checks of receive_proposal, handle_proposal and propose: the link to
\* the chain, the round, the lock, the phase and the proposer.  A proposal that
\* one of them rejects (or the local clock, or the event schedule) changes
\* nothing, as if it had not been delivered.
AcceptableTwice(n, p) ==
    /\ ParentOf[p.block] = tip[n]
    /\ HeightOf[p.block] = height[n]
    /\ p.round = round[n]
    /\ RespectsLock(n, p)
    /\ p.proposer = ExpectedProposer(height[n], round[n])

Acceptable(n, p) ==
    /\ ParentOf[p.block] = tip[n]
    /\ HeightOf[p.block] = height[n]
    /\ p.round = round[n]
    /\ RespectsLock(n, p)
    /\ phase[n] = "Propose"
    /\ p.proposer = ExpectedProposer(height[n], round[n])

\* receive_proposal: make the block the candidate and sign a prevote for it.
ReceiveProposal(n, p) ==
    /\ Acceptable(n, p)
    /\ proposal' = [proposal EXCEPT ![n] = p.block]
    /\ phase' = [phase EXCEPT ![n] = "Prevote"]
    /\ pending' = [pending EXCEPT ![n] = p.block]
    /\ SignVote(n, Vote("Prevote", round[n], n, p.block))
    /\ UNCHANGED <<height, round, votes, vote_history, locked_value,
                   locked_round, valid_value, valid_round, tip, chain,
                   valid_block>>

\* make_proposal: the valid block of an earlier round if there is one, else
\* the block built from the mempool.
ProposalOf(n, b) ==
    IF valid_block[n] # None /\ valid_block[n] = valid_value[n]
    THEN [round |-> round[n], proposer |-> n, block |-> valid_block[n],
          valid_round |-> valid_round[n]]
    ELSE [round |-> round[n], proposer |-> n, block |-> b,
          valid_round |-> None]

\* The consensus tick of the expected proposer: make the proposal, accept it
\* locally, and only then publish it.
MakeProposal(n, b) ==
    /\ own[n] = None
    /\ phase[n] = "Propose"
    /\ n = ExpectedProposer(height[n], round[n])
    /\ ParentOf[b] = tip[n]
    /\ ReceiveProposal(n, ProposalOf(n, b))
    /\ proposed' = IF own'[n] = None THEN proposed
                   ELSE proposed \cup {ProposalOf(n, b)}

\* NetworkEvent::ProposalReceived.
DeliverProposal(n, p) ==
    /\ own[n] = None
    /\ ReceiveProposal(n, p)
    /\ UNCHANGED proposed

-----------------------------------------------------------------------------
\* handle: the vote types each phase takes.  A vote that comes too early is
\* deferred and replayed, which here is delivering it again later.
PhaseTakes(ph, type) ==
    \/ ph \in {"Precommit", "Finalized"}
    \/ ph = "Prevote" /\ type = "Prevote"

\* handle: a second, different vote of the same validator is refused (and
\* becomes evidence); the first one stands even if it named another block.
FirstVoteStands(n, v) ==
    \A w \in vote_history[n] :
        w.type = v.type /\ w.validator = v.validator => w.block = v.block

Voters(vs, type) == {v.validator : v \in {w \in vs : w.type = type}}

PrevoteQuorum(n, v) ==
    /\ v.type = "Prevote" /\ phase[n] = "Prevote"
    /\ HasQuorum(Voters(votes[n] \cup {v}, "Prevote"))

PrecommitQuorum(n, v) ==
    /\ v.type = "Precommit" /\ phase[n] = "Precommit"
    /\ HasQuorum(Voters(votes[n] \cup {v}, "Precommit"))

RecordFirst(n, v) ==
    vote_history' = [vote_history EXCEPT ![n] = @ \cup {v}]

CountVote(n, v) ==
    /\ RecordFirst(n, v)
    /\ votes' = [votes EXCEPT ![n] = @ \cup {v}]

CountMismatch(n, v) ==
    /\ v.block # proposal[n]
    /\ CountVote(n, v)
    /\ Fail(n)
    /\ UNCHANGED <<height, round, phase, proposal, locked_value, locked_round,
                   valid_value, valid_round, tip, chain, pending, valid_block>>

\* handle records a first vote for a block other than the proposal, and
\* returns an error.
RecordMismatch(n, v) ==
    /\ v.block # proposal[n]
    /\ RecordFirst(n, v)
    /\ Fail(n)
    /\ UNCHANGED <<height, round, phase, proposal, votes, locked_value,
                   locked_round, valid_value, valid_round, tip, chain,
                   pending, valid_block>>

\* A prevote quorum: lock the block, keep it as the valid block, precommit.
Lock(n, v) ==
    /\ v.block = proposal[n]
    /\ PrevoteQuorum(n, v)
    /\ CountVote(n, v)
    /\ phase' = [phase EXCEPT ![n] = "Precommit"]
    /\ locked_value' = [locked_value EXCEPT ![n] = v.block]
    /\ locked_round' = [locked_round EXCEPT ![n] = round[n]]
    /\ valid_value' = [valid_value EXCEPT ![n] = v.block]
    /\ valid_round' = [valid_round EXCEPT ![n] = round[n]]
    /\ valid_block' = [valid_block EXCEPT ![n] = pending[n]]
    /\ SignVote(n, Vote("Precommit", round[n], n, pending[n]))
    /\ UNCHANGED <<height, round, proposal, tip, chain, pending>>

\* A precommit quorum: the candidate is final.  It is applied, stored and the
\* next height started; if it cannot be applied the error leaves the node in
\* phase Finalized, where no timeout fires, without a candidate.
Finalize(n, v) ==
    /\ v.block = proposal[n]
    /\ PrecommitQuorum(n, v)
    /\ IF /\ CertificateQuorum(Voters(votes[n] \cup {v}, "Precommit"))
          /\ Appendable(n, pending[n])
       THEN AdvanceTo(n, pending[n]) /\ Done(n)
       ELSE /\ CountVote(n, v)
            /\ phase' = [phase EXCEPT ![n] = "Finalized"]
            /\ pending' = [pending EXCEPT ![n] = None]
            /\ Fail(n)
            /\ UNCHANGED <<height, round, proposal, locked_value,
                           locked_round, valid_value, valid_round, tip,
                           chain, valid_block>>

\* No quorum yet.  In phase Precommit every vote makes the node sign its
\* precommit; one that was counted already is signed, published and fed back
\* again, which changes nothing unless the signer fails.
Count(n, v) ==
    /\ v.block = proposal[n]
    /\ ~ PrevoteQuorum(n, v)
    /\ ~ PrecommitQuorum(n, v)
    /\ CountVote(n, v)
    /\ LET precommit == Vote("Precommit", round[n], n, proposal[n])
       IN  IF phase[n] # "Precommit" THEN Done(n)
           ELSE IF own[n] = None /\ precommit \notin votes[n] \cup {v}
           THEN SignVote(n, precommit)
           ELSE Done(n) \/ (SignerMayFail /\ Exit(n))
    /\ UNCHANGED <<height, round, phase, proposal, locked_value, locked_round,
                   valid_value, valid_round, tip, chain, pending, valid_block>>

\* receive_vote, for a vote from the network or for the own vote that the
\* running handler feeds back.
ReceiveVote(n, v) ==
    /\ HeightOf[v.block] = height[n]
    /\ v.round = round[n]
    /\ PhaseTakes(phase[n], v.type)
    /\ FirstVoteStands(n, v)
    /\ \/ RecordMismatch(n, v)
       \/ Lock(n, v)
       \/ Finalize(n, v)
       \/ Count(n, v)
    /\ UNCHANGED proposed

\* NetworkEvent::ConsensusReceived.
DeliverVote(n, v) ==
    /\ own[n] = None
    /\ ReceiveVote(n, v)

\* The handler feeds the vote it just published back to receive_vote.  The
\* node takes no other step before this one.
HandleOwnVote(n) ==
    /\ own[n] # None
    /\ ReceiveVote(n, own[n])

\* timeout_if_due, with on_timeout.  Past the last round number on_timeout
\* returns an error, which ends the node: it takes no step there.
UncheckedTimeout(n) ==
    /\ own[n] = None
    /\ phase[n] # "Finalized"
    /\ round[n] <= MaxRound
    /\ StartRound(n, height[n], round[n] + 1)
    /\ pending' = [pending EXCEPT ![n] = None]
    /\ UNCHANGED <<tip, chain, valid_block, own, exited, proposed, signed>>

Timeout(n) ==
    /\ own[n] = None
    /\ phase[n] # "Finalized"
    /\ round[n] < MaxRound
    /\ StartRound(n, height[n], round[n] + 1)
    /\ pending' = [pending EXCEPT ![n] = None]
    /\ UNCHANGED <<tip, chain, valid_block, own, exited, proposed, signed>>

-----------------------------------------------------------------------------
\* The validators whose vote for b in round r can be put in a certificate,
\* when the honest ones have sent the votes of sent.
Signers(sent, type, r, b) ==
    {w \in Validators : w \in Faulty \/ Vote(type, r, w, b) \in sent}

\* FinalityCertificate::verify accepts some certificate for b.
Certifiable(sent, b) ==
    \E r \in Rounds : CertificateQuorum(Signers(sent, "Precommit", r, b))

Certified(b) == Certifiable(signed, b)

\* NetworkEvent::SyncReceived, with apply_sync_certificates, for a valid
\* certificate of b from a peer that may be ahead or behind.  One for a block
\* of the chain is skipped.  Any other that is not for the next block, or whose
\* block cannot be applied, is an error that ends the node.
ApplySyncCertificate(n, b) ==
    /\ own[n] = None
    /\ Certified(b)
    /\ b \notin chain[n]
    /\ UNCHANGED proposed
    /\ IF Appendable(n, b)
       THEN AdvanceTo(n, b) /\ Done(n)
       ELSE Exit(n) /\ UNCHANGED <<bftVars, tip, chain, pending, valid_block>>

Next ==
    \E n \in Honest \ exited :
        \/ \E b \in Blocks : MakeProposal(n, b)
        \/ \E p \in proposed \cup FaultyProposals : DeliverProposal(n, p)
        \/ \E v \in signed \cup FaultyVotes : DeliverVote(n, v)
        \/ HandleOwnVote(n)
        \/ Timeout(n)
        \/ \E b \in Blocks : ApplySyncCertificate(n, b)

Spec == Init /\ [][Next]_vars

-----------------------------------------------------------------------------
(* Type correctness: every field of BftConsensus and ConsensusRuntime holds *)
(* a value of its Rust type, and only votes and proposals are signed.       *)
TypeOK ==
    /\ height \in [Honest -> Nat]
    /\ round \in [Honest -> Rounds]
    /\ phase \in [Honest -> Phases]
    /\ proposal \in [Honest -> Blocks \cup {None}]
    /\ votes \in [Honest -> SUBSET Votes]
    /\ vote_history \in [Honest -> SUBSET Votes]
    /\ locked_value \in [Honest -> Blocks \cup {None}]
    /\ locked_round \in [Honest -> Rounds \cup {None}]
    /\ valid_value \in [Honest -> Blocks \cup {None}]
    /\ valid_round \in [Honest -> Rounds \cup {None}]
    /\ tip \in [Honest -> Blocks \cup {Genesis}]
    /\ pending \in [Honest -> Blocks \cup {None}]
    /\ valid_block \in [Honest -> Blocks \cup {None}]
    /\ chain \in [Honest -> SUBSET Blocks]
    /\ own \in [Honest -> Votes \cup {None}]
    /\ exited \subseteq Honest
    /\ proposed \subseteq Proposals
    /\ signed \subseteq Votes

(* Finality is unique: FinalityCertificate::verify never accepts            *)
(* certificates for two different blocks of one height, whatever rounds     *)
(* their precommits come from.                                              *)
NoFork ==
    \A b, c \in Blocks :
        Certified(b) /\ Certified(c) /\ HeightOf[b] = HeightOf[c] => b = c

(* Every node's chain is exactly the certified blocks up to its tip,        *)
(* however it came to them: nodes at one height agree on all of history, and *)
(* apply_sync_certificates never meets a certificate that contradicts it.    *)
ChainIsFinal ==
    \A n \in Honest :
        chain[n] = {b \in Blocks : Certified(b) /\ HeightOf[b] <= HeightOf[tip[n]]}

(* A validator that follows receive_proposal and receive_vote never signs   *)
(* two different votes of one type in one round of a height, so             *)
(* DoubleVoteEvidence never accuses it.                                     *)
NoEquivocation ==
    \A v, w \in signed :
        /\ v.validator = w.validator
        /\ v.type = w.type
        /\ v.round = w.round
        /\ HeightOf[v.block] = HeightOf[w.block]
        => v.block = w.block

(* Every precommit of an honest validator follows a quorum of prevotes for  *)
(* the same block in the same round.                                        *)
PrecommitBacked ==
    \A v \in signed :
        v.type = "Precommit" => CertificateQuorum(Signers(signed, "Prevote", v.round, v.block))

(* The lock, the valid value and the block kept for re-proposal are always  *)
(* one block and one round: an honest proposer re-proposes what it locked,  *)
(* and the unlock branch of handle_proposal can never be taken.             *)
LockIsValidValue ==
    \A n \in Honest :
        /\ valid_value[n] = locked_value[n]
        /\ valid_round[n] = locked_round[n]
        /\ valid_block[n] = locked_value[n]

(* Within a height a lock is never exchanged for another block, by a round  *)
(* change, a proposal that claims a valid_round, or late votes.             *)
LockHolds ==
    [][\A n \in Honest :
         height'[n] = height[n] /\ locked_value[n] # None
         => locked_value'[n] = locked_value[n]]_vars

(* A node stays in phase Finalized, where timeout_if_due never fires, only  *)
(* because apply_block rejected the block that the quorum finalized.        *)
HaltsOnlyOnBadBlock ==
    \A n \in Honest :
        phase[n] = "Finalized" => proposal[n] \in Inapplicable /\ Certified(proposal[n])

-----------------------------------------------------------------------------
(* The final blocks form one growing chain: the certified blocks implement  *)
(* the ledger of module Finality.                                           *)
CertifiedBlocks == {b \in Blocks : Certified(b)}

Ledger == INSTANCE Finality WITH final <- CertifiedBlocks

FinalitySpec == Ledger!Spec
=============================================================================
