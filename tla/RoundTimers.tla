----------------------------- MODULE RoundTimers -----------------------------
(***************************************************************************)
(* The pace of one height: the 500 ms consensus_tick of every validator,   *)
(* the phase deadlines, the transaction that wakes the validators up, the  *)
(* rotation of the proposer, and the votes that overtake their proposal    *)
(* and are deferred (main.rs, consensus_runtime.rs), until the first       *)
(* validator finalizes a block.                                            *)
(*                                                                         *)
(* Time is counted in ticks.  The intervals of the validators have one     *)
(* period and start at different instants, so they tick in a fixed cyclic  *)
(* order, and the network is faster than the gap between two ticks.        *)
(* Signatures, powers and certificates belong to BftConsensus: here every  *)
(* validator has power one and none is Byzantine, so that a round has one  *)
(* proposal and a vote stands for a vote for it.  Rounds are counted       *)
(* modulo Span, a multiple of the number of validators.                    *)
(***************************************************************************)
EXTENDS Naturals, FiniteSets

CONSTANTS
    N,               \* number of validators
    Orders,          \* the cyclic orders in which the validators may tick
    ProposeTimeout, PrevoteTimeout, PrecommitTimeout,  \* in ticks
    Running,         \* the sets of validators that may run at first
    MaxCrashes,      \* bound: how many validators stop
    MaxReturns,      \* bound: how many start again
    Span,            \* bound: rounds are counted modulo Span
    None

Nodes == 0..N - 1
BlockIds == 0..N

\* Span is a multiple of N, so that the proposer of a round is that of its
\* rest modulo Span.

VARIABLES
    node,     \* the ConsensusRuntime of each validator, and its loop's state
    net,      \* published messages and the validators still to get them
    order,    \* the order of the ticks
    turn,     \* the next to tick is order[turn]
    live,     \* validators whose process runs
    crashes, returns

vars == <<node, net, order, turn, live, crashes, returns>>

Quorum(S) == 3 * Cardinality(S) > 2 * N

Timeout(phase) ==
    CASE phase = "Propose" -> ProposeTimeout
      [] phase = "Prevote" -> PrevoteTimeout
      [] OTHER -> PrecommitTimeout

ByHeightOnly(round) == 0

ExpectedProposer(round) == round % N

\* A runtime as the process makes it.  left counts the ticks before the one
\* that finds the deadline passed; holds says that the transaction is in the
\* pool or in the pending block, from where a timeout restores it.
Fresh ==
    [round |-> 0, phase |-> "Propose", left |-> 0, wasActive |-> FALSE,
     holds |-> FALSE, pending |-> None, locked |-> None,
     prevotes |-> {}, precommits |-> {}, deferred |-> {}]

----------------------------------------------------------------------------
(* What a validator, me, does with a vote in state s.                       *)

CountPrecommit(s, n) ==
    LET voters == s.precommits \cup {n} IN
    [s EXCEPT !.precommits = voters,
              !.phase = IF Quorum(voters) THEN "Finalized" ELSE @]

\* The quorum of prevotes locks the block, and the own precommit is fed back
\* at once.
CountPrevote(s, n, me) ==
    LET voters == s.prevotes \cup {n} IN
    IF s.phase = "Prevote" /\ Quorum(voters)
      THEN CountPrecommit([s EXCEPT !.prevotes = voters,
                                    !.phase = "Precommit",
                                    !.locked = s.pending,
                                    !.left = PrecommitTimeout], me)
      ELSE [s EXCEPT !.prevotes = voters]

\* handle refuses the vote with the error of is_deferable_vote_error.
Deferable(s, vote) ==
    \/ s.phase = "Propose"
    \/ s.phase = "Prevote" /\ vote.kind = "Precommit"

\* A vote of another round is refused for good.
ReceiveVote(s, vote, me) ==
    IF vote.round # s.round THEN s
    ELSE IF Deferable(s, vote) THEN [s EXCEPT !.deferred = @ \cup {vote}]
    ELSE IF vote.kind = "Prevote" THEN CountPrevote(s, vote.from, me)
    ELSE CountPrecommit(s, vote.from)

DeferredVoters(s, kind) == {v.from : v \in {w \in s.deferred : w.kind = kind}}

NoReplay(s, me) == s

\* replay_deferred_votes goes round until a pass counts nothing: the
\* prevotes first, which may open the way for the precommits.
ReplayDeferredVotes(s, me) ==
    LET prevoted ==
          IF s.phase # "Prevote" THEN s
          ELSE CountPrevote(
                 [s EXCEPT !.prevotes = @ \cup DeferredVoters(s, "Prevote"),
                           !.deferred = {v \in @ : v.kind = "Precommit"}],
                 me, me)
    IN IF prevoted.phase \in {"Propose", "Prevote"} THEN prevoted
       ELSE CountPrecommit(
              [prevoted EXCEPT
                 !.precommits = @ \cup DeferredVoters(prevoted, "Precommit"),
                 !.deferred = {}], me)

\* receive_proposal of an acceptable block, with the own prevote.
AcceptProposal(s, block, me) ==
    CountPrevote([s EXCEPT !.pending = block, !.phase = "Prevote",
                           !.left = PrevoteTimeout], me, me)

Message(n, kind, round, block) ==
    [from |-> n, kind |-> kind, round |-> round, block |-> block]

\* The votes to publish when a handler takes me from state s to state t.
Votes(s, t, me) ==
    {Message(me, kind, t.round, None) : kind \in
        {k \in {"Prevote", "Precommit"} :
            \/ /\ k = "Prevote"
               /\ s.phase = "Propose" /\ t.phase # "Propose"
            \/ /\ k = "Precommit"
               /\ s.phase \in {"Propose", "Prevote"}
               /\ t.phase \in {"Precommit", "Finalized"}}}

Send(messages, me) ==
    {[to |-> n, msg |-> m] : n \in live \ {me}, m \in messages}

----------------------------------------------------------------------------
(* The tick.                                                                *)

\* consensus_is_active
Active(s) == s.phase # "Propose" \/ s.holds

RestartPhaseTimeout(s) ==
    IF Active(s) /\ ~s.wasActive
      THEN [s EXCEPT !.left = Timeout(s.phase)]
      ELSE s

\* timeout_if_due and the restored transactions.  The deferred votes are of
\* the round that ends and will be refused, so they are dropped here.
TimeoutIfDue(s) ==
    IF s.left > 0 THEN [s EXCEPT !.left = @ - 1]
    ELSE IF ~Active(s) THEN s
    ELSE [s EXCEPT !.round = (@ + 1) % Span, !.phase = "Propose",
                   !.pending = None, !.holds = TRUE, !.prevotes = {},
                   !.precommits = {}, !.deferred = {},
                   !.left = ProposeTimeout - 1]

\* The hash of a new block covers its proposer and the time: nobody has it.
NewBlock ==
    CHOOSE b \in BlockIds :
        \A n \in Nodes : b \notin {node[n].pending, node[n].locked}

\* The proposer proposes what it is locked on, or a new block; any other
\* validator announces its transactions, which tells those who lack them.
ConsensusTick ==
    LET n == order[turn]
        timed == TimeoutIfDue(RestartPhaseTimeout(node[n]))
        s == [timed EXCEPT !.wasActive = Active(node[n])]
        canPropose == s.phase = "Propose" /\ ExpectedProposer(s.round) = n
        block == IF s.locked = None THEN NewBlock ELSE s.locked
        proposed == AcceptProposal(s, block, n)
        proposal == Message(n, "Proposal", s.round, block)
    IN /\ net = {}
       /\ n \in live
       /\ turn' = (turn + 1) % N
       /\ \/ /\ canPropose /\ s.holds
             /\ node' = [node EXCEPT ![n] = proposed]
             /\ net' = Send({proposal} \cup Votes(s, proposed, n), n)
          \/ /\ ~(canPropose /\ s.holds)
             /\ node' = [node EXCEPT ![n] = s]
             /\ net' = {m \in Send({Message(n, "Transaction", 0, None)}, n) :
                           s.holds /\ ~node[m.to].holds}
       /\ UNCHANGED <<order, live, crashes, returns>>

\* The turn of a validator that does not run passes.
TickOfStopped ==
    /\ net = {}
    /\ order[turn] \notin live
    /\ turn' = (turn + 1) % N
    /\ UNCHANGED <<node, net, order, live, crashes, returns>>

----------------------------------------------------------------------------
(* The network's events.                                                    *)

TransactionReceived(m) ==
    /\ m.msg.kind = "Transaction"
    /\ node' = [node EXCEPT ![m.to].holds = TRUE]
    /\ net' = net \ {m}

\* A proposal of another round, a second one, and a block other than the
\* locked one are refused for good: valid_value is always the locked block,
\* so that the condition for unlocking is never met.
ProposalReceived(m) ==
    LET s == node[m.to]
        accepted == /\ m.msg.round = s.round
                    /\ s.phase = "Propose"
                    /\ s.locked \in {None, m.msg.block}
        t == IF accepted
               THEN ReplayDeferredVotes(
                      AcceptProposal(s, m.msg.block, m.to), m.to)
               ELSE s
    IN /\ m.msg.kind = "Proposal"
       /\ node' = [node EXCEPT ![m.to] = t]
       /\ net' = (net \ {m}) \cup Send(Votes(s, t, m.to), m.to)

ConsensusReceived(m) ==
    LET s == node[m.to]
        t == ReplayDeferredVotes(ReceiveVote(s, m.msg, m.to), m.to)
    IN /\ m.msg.kind \in {"Prevote", "Precommit"}
       /\ node' = [node EXCEPT ![m.to] = t]
       /\ net' = (net \ {m}) \cup Send(Votes(s, t, m.to), m.to)

\* Validators empty their queues in turn; a queue is read in any order.
Receive(m) ==
    /\ \A k \in net : m.to <= k.to
    /\ TransactionReceived(m) \/ ProposalReceived(m) \/ ConsensusReceived(m)
    /\ UNCHANGED <<order, turn, live, crashes, returns>>

Crash(n) ==
    /\ n \in live
    /\ crashes < MaxCrashes
    /\ crashes' = crashes + 1
    /\ live' = live \ {n}
    /\ net' = {m \in net : m.to # n}
    /\ UNCHANGED <<node, order, turn, returns>>

\* A new process begins the height at round 0, with an empty pool.
Return(n) ==
    /\ n \notin live
    /\ returns < MaxReturns
    /\ returns' = returns + 1
    /\ live' = live \cup {n}
    /\ node' = [node EXCEPT ![n] = Fresh]
    /\ UNCHANGED <<net, order, turn, crashes>>

----------------------------------------------------------------------------
\* The transaction has reached one validator.
Init ==
    /\ live \in Running
    /\ \E first \in live :
         node = [n \in Nodes |-> [Fresh EXCEPT !.holds = (n = first)]]
    /\ net = {}
    /\ order \in Orders
    /\ turn = 0
    /\ crashes = 0 /\ returns = 0

Undecided == \A n \in Nodes : node[n].phase # "Finalized"

Run ==
    /\ Undecided
    /\ \/ ConsensusTick
       \/ TickOfStopped
       \/ \E m \in net : Receive(m)

ComeBack == Undecided /\ \E n \in Nodes : Return(n)

Next ==
    \/ Run
    \/ ComeBack
    \/ Undecided /\ \E n \in Nodes : Crash(n)

Spec == Init /\ [][Next]_vars

----------------------------------------------------------------------------
\* How far round r is ahead of round q.
Ahead(r, q) == (r + Span - q) % Span

\* With the deadlines of consensus_runtime.rs the rounds of the validators
\* that have run from the beginning never drift more than one apart,
\* whoever has proposed, locked or stopped in between.
RoundsStayTogether ==
    returns = 0 =>
      \A m, n \in live :
         \/ Ahead(node[m].round, node[n].round) <= 1
         \/ Ahead(node[n].round, node[m].round) <= 1

\* A vote that overtook its proposal, or the quorum before it, is not lost:
\* no validator waits in a phase for a quorum it has already been sent,
\* deferred_votes included.
NoVoteStranded ==
    \A n \in live :
        LET s == node[n] IN
        /\ s.phase = "Prevote" =>
             ~Quorum(s.prevotes \cup DeferredVoters(s, "Prevote"))
        /\ s.phase = "Precommit" =>
             ~Quorum(s.precommits \cup DeferredVoters(s, "Precommit"))

\* While some running validator has the transaction or a candidate block,
\* the height is decided: the rotation of the proposers and the timeouts
\* bring a quorum of validators into one round.
Decides == <>[](\E n \in live : Active(node[n])) => <>~Undecided
=============================================================================
