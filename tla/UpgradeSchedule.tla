--------------------------- MODULE UpgradeSchedule ---------------------------
(***************************************************************************)
(* The protocol upgrades of config/upgrades.json (upgrade.rs) and the two  *)
(* places where a validator compares them with the version it supports:    *)
(* at start, and at the beginning of every consensus_tick (main.rs).       *)
(*                                                                         *)
(* A height is reduced to its proposal, the votes for it and the quorum    *)
(* that finalizes it; rounds, blocks and locks belong to BftConsensus.     *)
(***************************************************************************)
EXTENDS Naturals, FiniteSets

CONSTANTS
    N,            \* number of validators
    Files,        \* contents of upgrades.json: sets of [height, version]
    Versions,     \* versions a binary may support
    MaxHeight,    \* bound on the heights
    MaxInstalls   \* bound on the installations of a newer binary

Nodes == 0..N - 1

VARIABLES
    upgrades,   \* the loaded schedule, the same file at every validator
    supported,  \* SUPPORTED_PROTOCOL_VERSION of each validator's binary
    running,    \* validators whose process runs
    tip,        \* tip_height of each validator
    proposals,  \* proposed heights and the version the proposer supported
    votes,      \* likewise the votes
    installs

vars == <<upgrades, supported, running, tip, proposals, votes, installs>>

\* load: two upgrades at one height are refused.
Loads(file) == \A u, v \in file : u.height = v.height => u = v

Latest(s) == CHOOSE u \in s : \A v \in s : v.height <= u.height

\* The last of the upgrades, sorted by height, that is active.
VersionAt(height) ==
    LET active == {u \in upgrades : u.height <= height}
    IN IF active = {} THEN 1 ELSE Latest(active).version

EnsureSupported(n, height) == VersionAt(height) <= supported[n]

Quorum(S) == 3 * Cardinality(S) > 2 * N

Proposer(height) == (height - 1) % N

By(n, height) == [height |-> height, by |-> n, version |-> supported[n]]

Init ==
    /\ upgrades \in {f \in Files : Loads(f)}
    /\ supported \in [Nodes -> Versions]
    /\ running = {}
    /\ tip = [n \in Nodes |-> 0]
    /\ proposals = {} /\ votes = {}
    /\ installs = 0

Start(n) ==
    /\ n \notin running
    /\ EnsureSupported(n, tip[n] + 1)
    /\ running' = running \cup {n}
    /\ UNCHANGED <<upgrades, supported, tip, proposals, votes, installs>>

\* The operator installs a binary that supports a newer version.
Install(n, v) ==
    /\ n \notin running
    /\ installs < MaxInstalls
    /\ v > supported[n]
    /\ supported' = [supported EXCEPT ![n] = v]
    /\ installs' = installs + 1
    /\ UNCHANGED <<upgrades, running, tip, proposals, votes>>

\* The check comes before the proposal; its error ends the process.
ConsensusTick(n) ==
    LET h == tip[n] + 1 IN
    /\ n \in running
    /\ \/ /\ ~EnsureSupported(n, h)
          /\ running' = running \ {n}
          /\ UNCHANGED <<proposals, votes>>
       \/ /\ EnsureSupported(n, h)
          /\ h <= MaxHeight /\ Proposer(h) = n
          /\ \A p \in proposals : p.height # h
          /\ proposals' = proposals \cup {By(n, h)}
          /\ votes' = votes \cup {By(n, h)}
          /\ UNCHANGED running
    /\ UNCHANGED <<upgrades, supported, tip, installs>>

\* ProposalReceived does not look at the schedule.
ProposalReceived(n) ==
    /\ n \in running
    /\ \E p \in proposals : p.height = tip[n] + 1
    /\ \A v \in votes : ~(v.by = n /\ v.height = tip[n] + 1)
    /\ votes' = votes \cup {By(n, tip[n] + 1)}
    /\ UNCHANGED <<upgrades, supported, running, tip, proposals, installs>>

\* The last vote of a quorum, or a certificate of one that is synced.
Finalize(n) ==
    /\ n \in running
    /\ Quorum({v.by : v \in {w \in votes : w.height = tip[n] + 1}})
    /\ tip' = [tip EXCEPT ![n] = @ + 1]
    /\ UNCHANGED <<upgrades, supported, running, proposals, votes, installs>>

Next ==
    \E n \in Nodes :
        \/ Start(n)
        \/ \E v \in Versions : Install(n, v)
        \/ ConsensusTick(n)
        \/ ProposalReceived(n)
        \/ Finalize(n)

Spec == Init /\ [][Next]_vars

----------------------------------------------------------------------------
Required(height) ==
    LET active == {u \in upgrades : u.height <= height}
    IN {u.version :
          u \in {a \in active : \A b \in active : b.height <= a.height}}

(* From the height on at which an upgrade is active until the next one, only *)
(* validators that support its version have proposed, whatever they          *)
(* supported earlier and whenever they were restarted: ensure_supported at   *)
(* start and at the beginning of consensus_tick.                             *)
ProposedIsSupported ==
    \A p \in proposals : \A v \in Required(p.height) : v <= p.version
=============================================================================
