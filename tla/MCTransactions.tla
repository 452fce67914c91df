--------------------------- MODULE MCTransactions ----------------------------
(***************************************************************************)
(* The life of a transaction and of a reward: Ledger, and beside it the    *)
(* mempool, the path from the mempool into a block, the decoding of a      *)
(* wallet's transaction, the relay rewards and the node emission.  These   *)
(* modules share no variable, so that interleaving their steps would only  *)
(* multiply the states: focus says which of them takes the steps of a      *)
(* behaviour.                                                              *)
(***************************************************************************)
EXTENDS Ledger

CONSTANTS
    Focuses, Faults,
    alice, bob, carol, fund,
    m1, m2, a, b,
    Signer, Stranger, Error, None

VARIABLES
    focus,
    pool,
    flowPool, next_nonce, phase, turn, pending, valid_block, taken,
    tx, signed, raw, extra, decoded,
    seen, counts, nodes, recorded, drawing, remaining, winners,
    total, time, distributed, dailyPool, paid

-----------------------------------------------------------------------------
(***************************************************************************)
(* Ledger: three accounts, one of them the foundation.  The transactions   *)
(* include a transfer to oneself, one of the whole balance, a nonce that   *)
(* comes too early and an amount that overflows the receiver; the events   *)
(* include one with two payments and one the foundation cannot always pay. *)
(* The foundation's share of a fee is one fifth, as 2000 of 10000 is.      *)
(***************************************************************************)
Transfer(from, to, amount, fee, nonce) ==
    [from |-> from, to |-> to, amount |-> amount, fee |-> fee, nonce |-> nonce]

SmallBalances == (alice :> 9) @@ (bob :> 13) @@ (fund :> 3)

SmallTransactions ==
    {Transfer(alice, bob, 1, 0, 0), Transfer(alice, alice, 2, 7, 0),
     Transfer(alice, bob, 2, 5, 0), Transfer(alice, fund, 1, 1, 1),
     Transfer(bob, alice, 4, 5, 0), Transfer(bob, alice, 0, 1, 0),
     Transfer(bob, bob, 1, 1, 1)}

Pay(address, n) == [address |-> address, amount |-> n]

SmallEvents ==
    {[id |-> "distribution", execute_at |-> 1,
      payments |-> <<Pay(alice, 1), Pay(bob, 1)>>],
     [id |-> "reward", execute_at |-> 2, payments |-> <<Pay(fund, 3)>>],
     [id |-> "compensation", execute_at |-> 1,
      payments |-> <<Pay(alice, 2), Pay(fund, 2)>>],
     [id |-> "checkpoint", execute_at |-> 1, payments |-> <<>>]}

(***************************************************************************)
(* Mempool: two senders, one of them with two nonces; fees on both sides   *)
(* of the point where a tenth becomes more than one unit; sizes that make  *)
(* the byte limit evict more than one transaction at once.                 *)
(***************************************************************************)
Tx(from, nonce, fee, size) ==
    [from |-> from, nonce |-> nonce, fee |-> fee, size |-> size]

PoolTransactions ==
    {Tx(alice, 0, 1, 1), Tx(alice, 0, 2, 2), Tx(alice, 0, 20, 1),
     Tx(alice, 0, 21, 1), Tx(alice, 0, 22, 3), Tx(alice, 1, 2, 1),
     Tx(alice, 1, 2, 2), Tx(bob, 0, 1, 2), Tx(bob, 0, 20, 4),
     Tx(bob, 0, 20, 5), Tx(bob, 1, 1, 1), Tx(bob, 1, 1, 7)}

P == INSTANCE Mempool WITH
        Transactions <- PoolTransactions, MaxTransactions <- 3, MaxBytes <- 6,
        U128Max <- 1000

\* TransactionFlow: three senders with one transaction each, and a
\* replacement of the first one's.
FlowTransactions ==
    {Tx(alice, 0, 1, 1), Tx(alice, 0, 3, 1), Tx(bob, 0, 2, 1),
     Tx(carol, 0, 1, 1)}

F == INSTANCE TransactionFlow WITH
        Transactions <- FlowTransactions, MaxTransactions <- 4, MaxBytes <- 4,
        U128Max <- 1000, Senders <- {alice, bob, carol}, BlockLimit <- 2,
        OtherBlocks <- {<<Tx(bob, 0, 2, 1)>>,
                        <<Tx(alice, 0, 1, 1), Tx(carol, 0, 1, 1)>>},
        pool <- flowPool

\* RawTransaction: numbers on both sides of a byte that stands for itself, of
\* one byte and of two, where a byte holds 0 to 36.
R == INSTANCE RawTransaction WITH
        Single <- 3, Short <- 13, Widths <- 3, AddressLen <- 2,
        ScalarLen <- 3, Parity <- 5, ChainId <- 16, Chains <- {2, 16},
        Numbers <- {0, 2, 3, 36, 37, 1369}, Scalars <- {1, 40000},
        Addresses <- {<<0, 1>>, <<3, 36>>}, Trailing <- {0, 36}

L == INSTANCE RelayRewards WITH
        Nodes <- {1, 2, 3}, Messages <- {m1, m2}, Addresses <- {a, b},
        Sizes <- {4}, MinVerifiers <- 2, MaxReceipts <- 2, MaxPoints <- 5,
        WinnerCount <- 2, Pool <- 5

\* NodeEmission: two years of two days each and a part of a third.
E == INSTANCE NodeEmission WITH
        Totals <- 0..40, Epoch <- 2, Halving <- 4, End <- 10,
        Nodes <- {1, 2, 3}, MainNodes <- {2}, Points <- {1, 4},
        pool <- dailyPool

ASSUME RewardPolicy == L!PolicyIsValid

-----------------------------------------------------------------------------
flowVars ==
    <<flowPool, next_nonce, phase, turn, pending, valid_block, taken>>
rawVars == <<tx, signed, raw, extra, decoded>>
relayVars == <<seen, counts, nodes, recorded, drawing, remaining, winners>>
emissionVars == <<total, time, distributed, dailyPool, paid>>
suiteVars == <<focus, vars, pool, flowVars, rawVars, relayVars, emissionVars>>

\* Components that take no step start in one state.
AnyTransaction == CHOOSE t \in R!WalletTransactions : TRUE

SuiteInit ==
    /\ focus \in Focuses
    /\ Init /\ P!Init /\ F!FlowInit /\ R!Init /\ L!Init /\ E!Init
    /\ focus # "flow" => turn
    /\ focus # "raw" => tx = AnyTransaction
    /\ focus # "emission" => total = 0

LedgerStep ==
    /\ focus = "ledger" /\ Next
    /\ UNCHANGED <<focus, pool, flowVars, rawVars, relayVars, emissionVars>>

MempoolStep ==
    /\ focus = "mempool" /\ P!Next
    /\ UNCHANGED <<focus, vars, flowVars, rawVars, relayVars, emissionVars>>

FlowStep ==
    /\ focus = "flow" /\ F!FlowNext
    /\ UNCHANGED <<focus, vars, pool, rawVars, relayVars, emissionVars>>

RawStep ==
    /\ focus = "raw" /\ R!Next
    /\ UNCHANGED <<focus, vars, pool, flowVars, relayVars, emissionVars>>

RelayStep ==
    /\ focus = "relay" /\ L!Next
    /\ UNCHANGED <<focus, vars, pool, flowVars, rawVars, emissionVars>>

EmissionStep ==
    /\ focus = "emission" /\ E!Next
    /\ UNCHANGED <<focus, vars, pool, flowVars, rawVars, relayVars>>

SuiteNext ==
    \/ LedgerStep \/ MempoolStep \/ FlowStep
    \/ RawStep \/ RelayStep \/ EmissionStep

SuiteSpec == SuiteInit /\ [][SuiteNext]_suiteVars
-----------------------------------------------------------------------------
(* The blocks are the only source of the ledger: replaying them gives the    *)
(* stored balances and nonces, every account's transactions were executed in *)
(* the order of their nonces without a gap, and every scheduled event once,  *)
(* although apply_block can stop half way through a block.                   *)
HistoryIsSound == RebuildAgrees /\ NoncesInOrder /\ EventsOnce


(* A transaction that the consensus tick drained for a proposal is executed, *)
(* in the candidate or the locked block, or back in the mempool.             *)
DrainedIsRestored == focus = "flow" => F!DrainedIsRestored

(* decode_legacy gives the ledger exactly the transfer that the wallet       *)
(* signed and its signer, whatever lengths the RLP numbers have, and accepts *)
(* nothing signed for another chain and no list with bytes after its end.    *)
DecodesExactly == focus = "raw" => R!DecodesAsSigned /\ R!NothingElseDecodes

(* record_receipt gives a node no more points than its verifiers' receipts   *)
(* are worth, each counted once; draw_lottery draws a node at most once,     *)
(* only one that enough other nodes confirmed for the address that is paid,  *)
(* and its winners together never get more than the pool.                    *)
RewardsAreBacked ==
    focus = "relay" =>
        L!PointsAreBacked /\ L!WinnersAreConfirmed /\ L!PoolIsNeverExceeded

(* The budgets of annual_budget add up to the cap, whatever the divisions    *)
(* lose; settle_daily_rewards never pays out of the budget of a later year,  *)
(* and pays exactly its pool, whatever the shares lose by rounding.          *)
WithinBudgets ==
    focus = "emission" =>
        E!BudgetsSumToCap /\ E!WithinYearlyBudgets /\ E!PoolIsSpent
=============================================================================
