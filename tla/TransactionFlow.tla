--------------------------- MODULE TransactionFlow ---------------------------
(***************************************************************************)
(* The way of a transaction through one validator: from the RPC or the     *)
(* network into the pool, out of it into a proposal, and from there into   *)
(* the chain or back (main.rs, rpc.rs, consensus_runtime.rs).              *)
(*                                                                         *)
(* The other validators are the environment: they propose blocks, they may *)
(* or may not complete a quorum of prevotes or of precommits, and they may *)
(* be ahead.  Whether the next round is this validator's turn is open.  A  *)
(* block is the sequence of its transactions; system events are left out.  *)
(* Balances are ample, so that a transaction is executable when its nonce  *)
(* is the sender's next one.                                               *)
(***************************************************************************)
EXTENDS Mempool

CONSTANTS
    Senders,
    BlockLimit,  \* the 1_000 of drain_transactions
    OtherBlocks, \* the blocks that the other validators may propose
    Faults,      \* "locked": a round may end after a quorum of prevotes;
                 \* "overtaken": the peers may finalize without this node
    None

VARIABLES
    next_nonce,   \* of the chain, per sender
    phase, turn,  \* the round: its phase, and whether this node proposes
    pending,      \* the candidate block
    valid_block,  \* the block re-proposed in later rounds
    taken         \* the transactions this node ever drained for a proposal

vars == <<pool, next_nonce, phase, turn, pending, valid_block, taken>>

-----------------------------------------------------------------------------
FlowInit ==
    /\ pool = EmptyPool
    /\ next_nonce = [s \in Senders |-> 0]
    /\ phase = "Propose"
    /\ turn \in BOOLEAN
    /\ pending = None
    /\ valid_block = None
    /\ taken = {}

Contents(block) == IF block = None THEN <<>> ELSE block

\* apply_transactions, as far as the nonces decide.
NoncesAfter(nonces, block) ==
    [s \in Senders |->
        nonces[s] + Len(SelectSeq(block, LAMBDA t : t.from = s))]

Applicable(block) ==
    \A i \in DOMAIN block :
        block[i].nonce
            = NoncesAfter(next_nonce, SubSeq(block, 1, i - 1))[block[i].from]

\* eth_sendRawTransaction and ieum_sendSignedTransaction, and
\* NetworkEvent::TransactionReceived.
Submit(t) ==
    /\ Accepts(pool, t)
    /\ pool' = Added(pool, t)
    /\ UNCHANGED <<next_nonce, phase, turn, pending, valid_block, taken>>

\* eth_sendTransaction without a nonce: the next one of the chain, whatever
\* the pool holds.
SendManaged(s, t) ==
    /\ t.from = s /\ t.nonce = next_nonce[s]
    /\ Submit(t)

\* install_finalized and the start of the next height, in finalize_if_ready
\* and after apply_sync_certificates.
ApplyBlock(block) ==
    /\ next_nonce' = NoncesAfter(next_nonce, block)
    /\ pool' = RetainValid(pool, {t \in Transactions : t.nonce >= next_nonce'[t.from]})
    /\ phase' = "Propose"
    /\ turn' \in BOOLEAN
    /\ pending' = None
    /\ valid_block' = None
    /\ UNCHANGED taken

-----------------------------------------------------------------------------
\* make_proposal: the valid block of an earlier round, if there is one.
ProposalFrom(drained) == IF valid_block = None THEN drained ELSE valid_block

\* The proposing half of the consensus tick, from the pool p.  An error of
\* make_proposal or receive_proposal puts the drained transactions back.
Propose(p, accepted) ==
    LET drained == Selected(p, BlockLimit)
        rest == Drained(p, BlockLimit)
    IN  IF accepted
        THEN /\ pool' = rest
             /\ pending' = ProposalFrom(drained)
             /\ phase' = "Prevote"
             /\ taken' = taken \cup ToSet(drained)
        ELSE /\ pool' = AddAll(rest, drained)
             /\ pending' = None
             /\ phase' = "Propose"
             /\ taken' = taken \cup ToSet(drained)

RestoreNothing(p, block) == p

\* restore_transactions of a candidate that timed out.
Restored(p, block) == AddAll(p, Contents(block))

MayTimeOut == phase # "Precommit" \/ "locked" \in Faults

\* The consensus tick: a timeout that is due starts a round and restores the
\* candidate's transactions, and the proposer of the round then proposes.
Tick(due, mine, accepted) ==
    LET timedOut == /\ due /\ phase # "Finalized" /\ MayTimeOut
                    /\ phase # "Propose" \/ pool.transactions # <<>>
        p == IF timedOut THEN Restored(pool, pending) ELSE pool
        proposes == /\ p.transactions # <<>>
                    /\ IF timedOut THEN mine ELSE turn /\ phase = "Propose"
    IN  /\ timedOut \/ proposes
        /\ turn' = IF timedOut THEN mine ELSE turn
        /\ IF proposes THEN Propose(p, accepted)
           ELSE /\ pool' = p
                /\ pending' = None
                /\ phase' = "Propose"
                /\ UNCHANGED taken
        /\ UNCHANGED <<next_nonce, valid_block>>

\* NetworkEvent::ProposalReceived, for an acceptable proposal of a peer.  A
\* locked validator accepts no other block.
ReceiveProposal(block) ==
    /\ phase = "Propose" /\ ~ turn
    /\ valid_block \in {None, block}
    /\ pending' = block
    /\ phase' = "Prevote"
    /\ UNCHANGED <<pool, next_nonce, turn, valid_block, taken>>

PrevoteQuorum ==
    /\ phase = "Prevote"
    /\ phase' = "Precommit"
    /\ valid_block' = pending
    /\ UNCHANGED <<pool, next_nonce, turn, pending, taken>>

\* finalize_if_ready.  A block that cannot be executed leaves the node in
\* phase Finalized, where no timeout fires.
PrecommitQuorum ==
    /\ phase = "Precommit"
    /\ IF Applicable(pending) THEN ApplyBlock(pending)
       ELSE /\ phase' = "Finalized"
            /\ pending' = None
            /\ UNCHANGED <<pool, next_nonce, turn, valid_block, taken>>

\* NetworkEvent::SyncReceived with the certificate of the next block: the
\* candidate is dropped as it is.  No other block can be certified once the
\* candidate is final.
SyncBlock(block) ==
    /\ phase # "Finalized"
    /\ pending = None \/ "overtaken" \in Faults
    /\ Applicable(block)
    /\ ApplyBlock(block)

FlowNext ==
    \/ \E t \in Transactions : Submit(t) \/ \E s \in Senders : SendManaged(s, t)
    \/ \E due, mine, accepted \in BOOLEAN : Tick(due, mine, accepted)
    \/ \E block \in OtherBlocks : ReceiveProposal(block) \/ SyncBlock(block)
    \/ PrevoteQuorum
    \/ PrecommitQuorum

FlowSpec == FlowInit /\ [][FlowNext]_vars

-----------------------------------------------------------------------------
Held == ToSet(pool.transactions) \cup ToSet(Contents(pending))
            \cup ToSet(Contents(valid_block))

(* A transaction drained for a proposal is executed, or still held by the   *)
(* candidate or the re-proposed block, or back in the pool (itself or a     *)
(* replacement of the same nonce): a round that ends without a decision and *)
(* a proposal that fails lose none.                                         *)
DrainedIsRestored ==
    \A t \in taken :
        \/ t.nonce < next_nonce[t.from]
        \/ Key(t) \in {Key(u) : u \in Held}
=============================================================================
