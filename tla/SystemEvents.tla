---------------------------- MODULE SystemEvents -----------------------------
(***************************************************************************)
(* Scheduled events: EventSchedule of scheduled_event.rs, the due events a *)
(* proposer puts into its block (main.rs), what the other validators       *)
(* accept (ConsensusRuntime::validate_scheduled_block), and the milestone  *)
(* reward for registered nodes.                                            *)
(*                                                                         *)
(* Every validator loads the same schedule and has a clock of its own.  A  *)
(* block is its events and its timestamp: the due ones, the reward of the  *)
(* first validators and the milestone's.  A proposal that every validator  *)
(* accepts becomes final, one that is rejected changes nothing.  Event ids *)
(* are numbers in their order; Ledger has the payments.                    *)
(***************************************************************************)
EXTENDS Integers, FiniteSets, SequencesExt

CONSTANTS
    Validators,
    Events,         \* ids of the configured events
    ExecuteAt,      \* Events -> time
    Nodes,          \* peers that register for the milestone reward
    AddressOf,      \* Nodes -> reward address
    MilestoneSize,  \* 100
    Milestone,      \* the id "ieum-node-100-reward-v1"
    FirstReward,    \* the id "ieum-bootstrap-validator-reward-v1"
    MaxDrift,       \* MAX_CLOCK_DRIFT_SECONDS
    Skew,           \* clocks differ by at most this
    MaxClock        \* bound, for model checking

\* Milestone and FirstReward are not in Events.

VARIABLES
    clock,       \* Validators -> time
    last,        \* the timestamp of the last block
    executed,    \* history: the events of the chain, in order
    registered,  \* Validators -> nodes in node_reward_registrations
    proofs       \* Validators -> validators whose registration it has

vars == <<clock, last, executed, registered, proofs>>

Init ==
    /\ clock = [v \in Validators |-> 0]
    /\ last = 0
    /\ executed = <<>>
    /\ registered = [v \in Validators |-> {}]
    /\ proofs = [v \in Validators |-> {v}]

Done == ToSet(executed)

\* EventSchedule::due.
Due(timestamp) ==
    SetToSortSeq({e \in Events \ Done : ExecuteAt[e] <= timestamp},
                 LAMBDA d, e : \/ ExecuteAt[d] < ExecuteAt[e]
                               \/ ExecuteAt[d] = ExecuteAt[e] /\ d < e)

\* The first MilestoneSize registrations in the order of the BTreeMap.
FirstNodes(S) ==
    {n \in S : Cardinality({m \in S : m < n}) < MilestoneSize}

\* The nodes of the milestone event v would propose; none without one.
MilestoneNodes(v) ==
    IF Milestone \notin Done /\ Cardinality(registered[v]) >= MilestoneSize
    THEN FirstNodes(registered[v]) ELSE {}

\* ScheduledEvent::validate of the milestone: as many addresses as nodes.
ValidMilestone(nodes) ==
    Cardinality({AddressOf[n] : n \in nodes}) = Cardinality(nodes)

\* The validators v would reward: all of them, or none yet or any more.
Rewarded(v) ==
    IF FirstReward \notin Done /\ proofs[v] = Validators THEN proofs[v] ELSE {}

Built(id, proof) == IF proof = {} THEN <<>> ELSE <<id>>


\* validate_scheduled_block of validator w.
Accepts(w, timestamp, events, first, nodes) ==
    /\ last <= timestamp
    /\ timestamp <= clock[w] + MaxDrift
    /\ events = Due(timestamp)
    /\ first \in {{}, Validators}
    /\ ValidMilestone(nodes)

\* The consensus tick of a proposer with something to propose.
Propose(v) ==
    LET due   == Due(clock[v])
        first == Rewarded(v)
        nodes == MilestoneNodes(v)
    IN  /\ due # <<>> \/ first # {} \/ nodes # {}
        /\ \A w \in Validators : Accepts(w, clock[v], due, first, nodes)
        /\ executed' = executed \o due \o Built(FirstReward, first)
                                     \o Built(Milestone, nodes)
        /\ last' = clock[v]
        /\ UNCHANGED <<clock, registered, proofs>>

\* NodeRewardRegistrationReceived, with valid signatures.
RegisterNode(v, n) ==
    /\ n \notin registered[v]
    /\ registered' = [registered EXCEPT ![v] = @ \cup {n}]
    /\ UNCHANGED <<clock, last, executed, proofs>>

\* ValidatorRegistrationReceived of a member of the set.
RegisterValidator(v, w) ==
    /\ w \notin proofs[v]
    /\ proofs' = [proofs EXCEPT ![v] = @ \cup {w}]
    /\ UNCHANGED <<clock, last, executed, registered>>

Tick(v) ==
    /\ clock[v] < MaxClock
    /\ \A w \in Validators : clock[v] + 1 - clock[w] <= Skew
    /\ clock' = [clock EXCEPT ![v] = @ + 1]
    /\ UNCHANGED <<last, executed, registered, proofs>>

Next ==
    \/ \E v \in Validators : Propose(v) \/ Tick(v)
    \/ \E v \in Validators, n \in Nodes : RegisterNode(v, n)
    \/ \E v, w \in Validators : RegisterValidator(v, w)

Spec == Init /\ [][Next]_vars

-----------------------------------------------------------------------------
(* The events of the chain are in the order of their times and ids, whatever *)
(* the clocks of the proposers: an earlier event is never overtaken.         *)
ScheduleOrder ==
    \A i, j \in DOMAIN executed :
        i < j /\ executed[i] \in Events /\ executed[j] \in Events
        => \/ ExecuteAt[executed[i]] < ExecuteAt[executed[j]]
           \/ /\ ExecuteAt[executed[i]] = ExecuteAt[executed[j]]
              /\ executed[i] < executed[j]

(* Every event, and the first reward, is executed in the end: clocks within  *)
(* the skew never make the validators reject each other's blocks for good.   *)
EventsExecuted == \A e \in Events \cup {FirstReward} : <>(e \in Done)

(* The documents: when 100 different nodes have registered, each is paid.    *)
MilestonePaid == <>(Milestone \in Done)
=============================================================================
