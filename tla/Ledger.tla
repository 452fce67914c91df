------------------------------- MODULE Ledger -------------------------------
(***************************************************************************)
(* The ledger of chain.rs: apply_block executes the transactions and then  *)
(* the system events of a block on copies of the balances, the nonces and  *)
(* the executed events, and installs the copies only when all of them      *)
(* succeeded.                                                              *)
(*                                                                         *)
(* Every iteration of the two loops is a step on the copies, and the       *)
(* contents of the block are chosen as the loops read them.  A balance     *)
(* that has no entry is zero.  Signatures are abstracted: a transaction of *)
(* Transactions carries a valid one.                                       *)
(***************************************************************************)
EXTENDS Naturals, Sequences, FiniteSets, SequencesExt

CONSTANTS
    Accounts,         \* the addresses
    Foundation,       \* FOUNDATION_FEE_ADDRESS
    InitialBalances,  \* the allocation of the genesis file
    Transactions,     \* records with fields from, to, amount, fee, nonce
    Events,           \* records with fields id, execute_at, payments
    Timestamps,       \* block timestamps
    FeeBps,           \* FOUNDATION_FEE_BPS
    FeeDenominator,   \* FEE_BPS_DENOMINATOR
    U128Max,          \* u128::MAX
    MaxBlocks,        \* bound on the chain, for model checking
    MaxItems,         \* bound on the transactions and events of a block
    NoWork            \* no block is being applied

ASSUME LedgerAssumption ==
    /\ IsFiniteSet(Accounts)
    /\ Foundation \in Accounts
    /\ U128Max \in Nat
    /\ InitialBalances \in [Accounts -> 0..U128Max]
    /\ \A t \in Transactions :
           /\ t.from \in Accounts /\ t.to \in Accounts
           /\ t.amount \in 0..U128Max /\ t.fee \in 0..U128Max /\ t.nonce \in Nat
    /\ \A e \in Events :
           e.payments \in Seq([address : Accounts, amount : 0..U128Max])
    /\ FeeBps \in Nat
    /\ FeeDenominator \in Nat \ {0}
    /\ FeeBps <= FeeDenominator

VARIABLES
    blocks,           \* the blocks after the genesis block
    balances,
    next_nonces,
    executed_events,
    work              \* the copies of the block being applied

vars == <<blocks, balances, next_nonces, executed_events, work>>

-----------------------------------------------------------------------------
\* from_genesis.
Init ==
    /\ blocks = <<>>
    /\ balances = InitialBalances
    /\ next_nonces = [a \in Accounts |-> 0]
    /\ executed_events = {}
    /\ work = NoWork

Credited(b, a, amount) == [b EXCEPT ![a] = @ + amount]

Debited(b, a, amount) == [b EXCEPT ![a] = @ - amount]

FoundationFee(t) == (t.fee * FeeBps) \div FeeDenominator

\* The balances after one iteration of apply_transactions.  The receiver's
\* balance is read after the sender's was written.
StaleReceiver(b, t, producer) ==
    LET sent == Debited(b, t.from, t.amount + t.fee)
        received == [sent EXCEPT ![t.to] = b[t.to] + t.amount]
        produced == Credited(received, producer, t.fee - FoundationFee(t))
    IN  Credited(produced, Foundation, FoundationFee(t))

Transferred(b, t, producer) ==
    LET sent == Debited(b, t.from, t.amount + t.fee)
        received == Credited(sent, t.to, t.amount)
        produced == Credited(received, producer, t.fee - FoundationFee(t))
    IN  Credited(produced, Foundation, FoundationFee(t))

\* The checks of the iteration: the amount, the nonce, the balance, and the
\* checked additions and multiplication.
Executable(b, n, t, producer) ==
    /\ t.amount > 0
    /\ t.nonce = n[t.from]
    /\ t.amount + t.fee <= b[t.from]
    /\ t.fee * FeeBps <= U128Max
    /\ \A a \in Accounts : Transferred(b, t, producer)[a] <= U128Max

\* transfer_from_foundation.
Payable(b, p) ==
    /\ p.amount <= b[Foundation]
    /\ Credited(Debited(b, Foundation, p.amount), p.address, p.amount)[p.address]
           <= U128Max

Paid(b, p) == Credited(Debited(b, Foundation, p.amount), p.address, p.amount)

-----------------------------------------------------------------------------
\* The start of apply_block, for a block that extends the chain.
BeginBlock(producer, timestamp) ==
    /\ work = NoWork
    /\ Len(blocks) < MaxBlocks
    /\ work' = [balances |-> balances, next_nonces |-> next_nonces,
                executed |-> executed_events, unpaid |-> <<>>,
                block |-> [producer |-> producer, timestamp |-> timestamp,
                           transactions |-> <<>>, events |-> <<>>]]
    /\ UNCHANGED <<blocks, balances, next_nonces, executed_events>>

Reject ==
    /\ work' = NoWork
    /\ UNCHANGED <<blocks, balances, next_nonces, executed_events>>

\* One iteration of apply_transactions.
ApplyTransaction(t) ==
    /\ work # NoWork
    /\ work.block.events = <<>>
    /\ Len(work.block.transactions) < MaxItems
    /\ IF Executable(work.balances, work.next_nonces, t, work.block.producer)
       THEN /\ work' = [work EXCEPT
                  !.balances = Transferred(@, t, work.block.producer),
                  !.next_nonces[t.from] = @ + 1,
                  !.block.transactions = Append(@, t)]
            /\ UNCHANGED <<blocks, balances, next_nonces, executed_events>>
       ELSE Reject

\* One iteration of apply_system_events, up to its payments.
ApplyEvent(e) ==
    /\ work # NoWork
    /\ work.unpaid = <<>>
    /\ Len(work.block.events) < MaxItems
    /\ IF e.execute_at <= work.block.timestamp /\ e.id \notin work.executed
       THEN /\ work' = [work EXCEPT !.executed = @ \cup {e.id},
                                    !.unpaid = e.payments,
                                    !.block.events = Append(@, e)]
            /\ UNCHANGED <<blocks, balances, next_nonces, executed_events>>
       ELSE Reject

\* One payment of the event's action.
PayRecipient ==
    /\ work # NoWork
    /\ work.unpaid # <<>>
    /\ IF Payable(work.balances, Head(work.unpaid))
       THEN /\ work' = [work EXCEPT !.balances = Paid(@, Head(work.unpaid)),
                                    !.unpaid = Tail(@)]
            /\ UNCHANGED <<blocks, balances, next_nonces, executed_events>>
       ELSE Reject

\* The end of apply_block.
InstallWithoutEvents ==
    /\ work # NoWork
    /\ work.unpaid = <<>>
    /\ blocks' = Append(blocks, work.block)
    /\ balances' = work.balances
    /\ next_nonces' = work.next_nonces
    /\ work' = NoWork
    /\ UNCHANGED executed_events

Install ==
    /\ work # NoWork
    /\ work.unpaid = <<>>
    /\ blocks' = Append(blocks, work.block)
    /\ balances' = work.balances
    /\ next_nonces' = work.next_nonces
    /\ executed_events' = work.executed
    /\ work' = NoWork

Next ==
    \/ \E producer \in Accounts, timestamp \in Timestamps :
           BeginBlock(producer, timestamp)
    \/ \E t \in Transactions : ApplyTransaction(t)
    \/ \E e \in Events : ApplyEvent(e)
    \/ PayRecipient
    \/ Install

Spec == Init /\ [][Next]_vars

-----------------------------------------------------------------------------
\* One block of the loop of verify_and_rebuild.
Rebuild(state, block) ==
    LET AfterTx(s, t) ==
            [s EXCEPT !.ok = @ /\ Executable(s.balances, s.next_nonces, t, block.producer),
                      !.balances = Transferred(@, t, block.producer),
                      !.next_nonces[t.from] = @ + 1]
        AfterPayment(s, p) == [s EXCEPT !.ok = @ /\ Payable(s.balances, p),
                                        !.balances = Paid(@, p)]
        AfterEvent(s, e) ==
            FoldLeft(AfterPayment,
                     [s EXCEPT !.ok = @ /\ e.execute_at <= block.timestamp
                                        /\ e.id \notin s.executed,
                               !.executed = @ \cup {e.id}],
                     e.payments)
    IN  FoldLeft(AfterEvent, FoldLeft(AfterTx, state, block.transactions),
                 block.events)

Rebuilt ==
    FoldLeft(Rebuild, [ok |-> TRUE, balances |-> InitialBalances,
                       next_nonces |-> [a \in Accounts |-> 0], executed |-> {}],
             blocks)

\* The units of money on the balances b.
Units(b) == UNION {{a} \X (1..b[a]) : a \in Accounts}

Supply(b) == Cardinality(Units(b))

(* No block creates or destroys money: the fees, the foundation's share of  *)
(* them, a transfer to oneself or to the producer, and the payments of the  *)
(* system events only move the initial supply, and no balance wraps.        *)
Conserved ==
    /\ balances \in [Accounts -> 0..U128Max]
    /\ Supply(balances) = Supply(InitialBalances)

(* verify_and_rebuild, from the genesis balances and the stored blocks,     *)
(* succeeds and arrives at the balances, nonces and executed events that    *)
(* apply_block maintained, rejected blocks in between included.             *)
RebuildAgrees ==
    Rebuilt = [ok |-> TRUE, balances |-> balances,
               next_nonces |-> next_nonces, executed |-> executed_events]

AllTransactions == FlattenSeq([i \in DOMAIN blocks |-> blocks[i].transactions])

AllEvents == FlattenSeq([i \in DOMAIN blocks |-> blocks[i].events])

(* The transactions of an account carry the nonces 0, 1, 2, ... in the      *)
(* order of the chain: none is executed twice and none is skipped.          *)
NoncesInOrder ==
    \A a \in Accounts :
        LET mine == SelectSeq(AllTransactions, LAMBDA t : t.from = a)
        IN  /\ next_nonces[a] = Len(mine)
            /\ \A i \in DOMAIN mine : mine[i].nonce = i - 1

(* A system event is paid at most once in the life of the chain, within a   *)
(* block and across blocks, and executed_events is what the blocks show.    *)
EventsOnce ==
    LET ids == [i \in DOMAIN AllEvents |-> AllEvents[i].id]
    IN  /\ \A i, j \in DOMAIN ids : ids[i] = ids[j] => i = j
        /\ executed_events = ToSet(ids)
=============================================================================
