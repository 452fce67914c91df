---------------------------- MODULE RelayRewards -----------------------------
(***************************************************************************)
(* The relay rewards of traffic_rewards.rs: ContributionLedger counts the  *)
(* receipts that verifiers give for relayed messages in one epoch, and     *)
(* draw_lottery shares the pool among winners drawn from the eligible      *)
(* nodes.                                                                  *)
(*                                                                         *)
(* A receipt is [relay, verifier, message, address, size]; size stands for *)
(* payload_bytes in units of 64 KiB.  Receipts of another epoch, of a node *)
(* that is up too short, of no payload or with a malformed address are     *)
(* refused before any change and left out.  The hash that draws a winner   *)
(* is any number.                                                          *)
(***************************************************************************)
EXTENDS Naturals, FiniteSetsExt, Functions, TLC

CONSTANTS
    Nodes,          \* peers, as numbers in the order of peer_id
    Messages,
    Addresses,
    Sizes,
    MinVerifiers,   \* minimum_distinct_verifiers
    MaxReceipts,    \* maximum_receipts_per_verifier
    MaxPoints,      \* maximum_points_per_node
    WinnerCount,
    Pool

PolicyIsValid ==
    /\ Nodes \subseteq Nat
    /\ Sizes \subseteq Nat \ {0}
    /\ MinVerifiers >= 2
    /\ MaxReceipts > 0 /\ MaxPoints > 0 /\ WinnerCount > 0

VARIABLES
    seen,       \* {<<verifier, message>>}
    counts,     \* verifier -> verifier_counts
    nodes,      \* partial function: relay -> [address, points, verifiers]
    recorded,   \* the receipts that returned Ok(true), a history
    drawing,    \* draw_lottery was called
    remaining,  \* the nodes still in the draw
    winners     \* the winners in their order

vars == <<seen, counts, nodes, recorded, drawing, remaining, winners>>

Receipts == [relay : Nodes, verifier : Nodes, message : Messages,
             address : Addresses, size : Sizes]

Init ==
    /\ seen = {}
    /\ counts = [v \in Nodes |-> 0]
    /\ nodes = << >>
    /\ recorded = {}
    /\ drawing = FALSE
    /\ remaining = {}
    /\ winners = {}

\* 1 to 16 points for a receipt.
PointsOf(r) == Min({r.size, 16})

\* The contribution of the relay, created by its first counted receipt.
Entry(r) ==
    IF r.relay \in DOMAIN nodes THEN nodes[r.relay]
    ELSE [address |-> r.address, points |-> 0, verifiers |-> {}]

Contribution(r) ==
    [Entry(r) EXCEPT !.points = Min({@ + PointsOf(r), MaxPoints}),
                     !.verifiers = @ \cup {r.verifier}]

\* Forgets which messages were counted.
ForgetfulRecord(r) ==
    /\ ~drawing
    /\ r.relay # r.verifier
    /\ counts[r.verifier] < MaxReceipts
    /\ counts' = [counts EXCEPT ![r.verifier] = @ + 1]
    /\ Entry(r).address = r.address
    /\ nodes' = (r.relay :> Contribution(r)) @@ nodes
    /\ recorded' = recorded \cup {r}
    /\ UNCHANGED <<seen, drawing, remaining, winners>>

\* record_validated of a receipt that is counted.
Record(r) ==
    /\ ~drawing
    /\ r.relay # r.verifier
    /\ <<r.verifier, r.message>> \notin seen
    /\ counts[r.verifier] < MaxReceipts
    /\ seen' = seen \cup {<<r.verifier, r.message>>}
    /\ counts' = [counts EXCEPT ![r.verifier] = @ + 1]
    /\ Entry(r).address = r.address
    /\ nodes' = (r.relay :> Contribution(r)) @@ nodes
    /\ recorded' = recorded \cup {r}
    /\ UNCHANGED <<drawing, remaining, winners>>

\* Of one with another address than the first: it uses up the message and
\* the verifier's count before it is refused.
RecordMismatch(r) ==
    /\ ~drawing
    /\ r.relay # r.verifier
    /\ <<r.verifier, r.message>> \notin seen
    /\ counts[r.verifier] < MaxReceipts
    /\ seen' = seen \cup {<<r.verifier, r.message>>}
    /\ counts' = [counts EXCEPT ![r.verifier] = @ + 1]
    /\ Entry(r).address # r.address
    /\ UNCHANGED <<nodes, recorded, drawing, remaining, winners>>

\* Of one beyond the verifier's limit.
RecordOverLimit(r) ==
    /\ ~drawing
    /\ r.relay # r.verifier
    /\ <<r.verifier, r.message>> \notin seen
    /\ counts[r.verifier] >= MaxReceipts
    /\ seen' = seen \cup {<<r.verifier, r.message>>}
    /\ UNCHANGED <<counts, nodes, recorded, drawing, remaining, winners>>

-----------------------------------------------------------------------------
\* eligible_nodes.
Eligible == {n \in DOMAIN nodes : Cardinality(nodes[n].verifiers) >= MinVerifiers}

\* integer_sqrt, the bisection as its result.
IntegerSqrt(x) == CHOOSE r \in 0..x : r * r <= x /\ (r + 1) * (r + 1) > x

Weight(n) == IntegerSqrt(Max({nodes[n].points, 1}))

SumWeights(S) == MapThenSumSet(Weight, S)

\* The node the cursor falls on, in the order of peer_id.
Hit(S, cursor) ==
    CHOOSE n \in S :
        LET below == SumWeights({k \in S : k < n})
        IN  below <= cursor /\ cursor < below + Weight(n)

Draws == Min({WinnerCount, Cardinality(Eligible)})

\* The epoch ends: draw_lottery with the eligible nodes.
BeginDraw ==
    /\ ~drawing
    /\ Eligible # {} /\ Pool \div Draws > 0
    /\ drawing' = TRUE
    /\ remaining' = Eligible
    /\ UNCHANGED <<seen, counts, nodes, recorded, winners>>

\* One round of draw_lottery.
Draw(cursor) ==
    /\ drawing
    /\ Cardinality(winners) < Draws
    /\ cursor < SumWeights(remaining)
    /\ LET n == Hit(remaining, cursor)
       IN  /\ winners' = winners \cup
                  {[round |-> Cardinality(winners), node |-> n,
                    amount |-> Pool \div Draws]}
           /\ remaining' = remaining \ {n}
    /\ UNCHANGED <<seen, counts, nodes, recorded, drawing>>

Next ==
    \/ \E r \in Receipts :
           Record(r) \/ RecordMismatch(r) \/ RecordOverLimit(r)
    \/ BeginDraw
    \/ \E cursor \in 0..(Cardinality(Nodes) * MaxPoints) : Draw(cursor)

Spec == Init /\ [][Next]_vars

-----------------------------------------------------------------------------
(* A verifier counts a message once and stays within its limit, so the       *)
(* points of a node are worth no more than what its verifiers may give.      *)
PointsAreBacked ==
    /\ \A r, s \in recorded :
           r.verifier = s.verifier /\ r.message = s.message => r = s
    /\ \A n \in DOMAIN nodes :
           nodes[n].points <=
               MapThenSumSet(PointsOf, {r \in recorded : r.relay = n})

(* A winner was confirmed by enough other nodes, all for the address that is *)
(* paid, and wins once.                                                      *)
WinnersAreConfirmed ==
    \A w \in winners :
        /\ \A u \in winners : u.node = w.node => u = w
        /\ LET given == {r \in recorded : r.relay = w.node
                             /\ r.address = nodes[w.node].address}
           IN  Cardinality({r.verifier : r \in given} \ {w.node})
                   >= MinVerifiers

(* The winners together never get more than the pool.                        *)
PoolIsNeverExceeded ==
    MapThenSumSet(LAMBDA w : w.amount, winners) <= Pool
=============================================================================
