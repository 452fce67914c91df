---------------------------- MODULE NodeEmission -----------------------------
(***************************************************************************)
(* The emission of node rewards, node_emission.rs: a cap that is split     *)
(* into yearly budgets that halve, daily budgets, and the settlement that  *)
(* splits a day's pool over the eligible nodes by weight.                  *)
(*                                                                         *)
(* Time starts at REWARD_ACTIVATION_UNIX, when the activation height is    *)
(* also reached.  The settlement runs at most once a day; its caller (not  *)
(* in the repository) adds up what it distributed.                         *)
(***************************************************************************)
EXTENDS Naturals, FiniteSetsExt

CONSTANTS
    Totals,     \* the values of TOTAL_NODE_EMISSION to check
    Epoch,      \* REWARD_EPOCH_SECONDS
    Halving,    \* HALVING_SECONDS
    End,        \* REWARD_END_UNIX - REWARD_ACTIVATION_UNIX
    Nodes,      \* eligible nodes, as numbers in the order of peer_id
    MainNodes,  \* the nodes of MAIN_NODE_PEER_IDS
    Points      \* the points a node may have, 0 excluded by max(1)

\* Halving is a multiple of Epoch, as 1,460 days are of a day.

VARIABLES
    total,        \* TOTAL_NODE_EMISSION, fixed
    time,         \* of the next settlement
    distributed,  \* the caller's already_distributed
    pool,         \* of the last settlement
    paid          \* its payments, a function of nodes

vars == <<total, time, distributed, pool, paid>>

Years == End \div Halving + 1

SumOver(S, f(_)) == MapThenSumSet(f, S)

\* Of the years before the last.
HalvedShare(y) == (total * 2^(Years - y - 1)) \div (2^Years - 1)

\* annual_budget: the last year takes what the divisions left.
AnnualBudget(y) ==
    IF y >= Years THEN 0
    ELSE IF y + 1 = Years
         THEN total - SumOver(0..(y - 1), HalvedShare)
         ELSE HalvedShare(y)

DivCeil(a, b) == (a + b - 1) \div b

DaysOf(y) ==
    LET start == y * Halving
    IN  DivCeil(Min({start + Halving - 1, End}) - start + 1, Epoch)

\* Rounds up.
DailyBudgetCeil(t) ==
    IF t > End THEN 0
    ELSE DivCeil(AnnualBudget(t \div Halving), DaysOf(t \div Halving))

\* daily_budget.
DailyBudget(t) ==
    IF t > End THEN 0
    ELSE AnnualBudget(t \div Halving) \div DaysOf(t \div Halving)

\* remaining_budget.
Remaining == total - Min({distributed, total})

\* MAIN_NODE_WEIGHT_BPS is 1.5 times NORMAL_NODE_WEIGHT_BPS.
Weight(points, n) == points[n] * (IF n \in MainNodes THEN 3 ELSE 2)

\* The last node in the order takes the rest.
Payments(points, p) ==
    LET W(n) == Weight(points, n)
        Share(n) == (p * W(n)) \div SumOver(DOMAIN points, W)
        last == Max(DOMAIN points)
    IN  [n \in DOMAIN points |->
            IF n = last
            THEN p - SumOver(DOMAIN points \ {last}, Share)
            ELSE Share(n)]

-----------------------------------------------------------------------------
Init ==
    /\ total \in Totals
    /\ time = 0
    /\ distributed = 0
    /\ pool = 0
    /\ paid = [n \in {} |-> 0]

\* settle_daily_rewards of the eligible nodes, a set that may be empty.
Settle(points) ==
    LET p == Min({DailyBudget(time), Remaining})
    IN  /\ time <= End
        /\ DOMAIN points # {} /\ p > 0
        /\ pool' = p
        /\ paid' = Payments(points, p)
        /\ distributed' =
               distributed + SumOver(DOMAIN points, LAMBDA n : paid'[n])
        /\ time' = time + Epoch
        /\ UNCHANGED total

\* A day that pays nothing: no node, no pool, or the period is over.
Skip ==
    /\ time <= End
    /\ time' = time + Epoch
    /\ pool' = 0
    /\ paid' = [n \in {} |-> 0]
    /\ UNCHANGED <<total, distributed>>

Next ==
    \/ \E S \in SUBSET Nodes : \E points \in [S -> Points] : Settle(points)
    \/ Skip

Spec == Init /\ [][Next]_vars

-----------------------------------------------------------------------------
(* The comment of annual_budget: the yearly budgets add up to the cap to the *)
(* unit, whatever the divisions lose.                                        *)
BudgetsSumToCap == SumOver(0..(Years - 1), AnnualBudget) = total

(* What was distributed stays within the budgets of the years that began,    *)
(* so a year never pays out the money of the next, also in a last year that  *)
(* is not a whole number of days.                                            *)
WithinYearlyBudgets ==
    LET last == (IF time = 0 THEN 0 ELSE time - Epoch) \div Halving
    IN  distributed <= SumOver(0..last, AnnualBudget)

(* A settlement pays exactly its pool: the rounding of the shares neither    *)
(* loses nor creates units.                                                  *)
PoolIsSpent ==
    SumOver(DOMAIN paid, LAMBDA n : paid[n]) = pool
=============================================================================
