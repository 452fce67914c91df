----------------------------- MODULE MCConsensus -----------------------------
(***************************************************************************)
(* Who the validators are and which round they are in: the round-change    *)
(* certificate and the log of a validator's votes, and beside them the     *)
(* timers of the rounds, the first common validator set, the eras, the     *)
(* upgrades, the selection of validators and that of peers.                *)
(* These modules share no variable; focus says which of them takes the     *)
(* steps of a behaviour.                                                   *)
(***************************************************************************)
EXTENDS RoundChange, ConsensusWal, TLC

CONSTANTS Focuses, v1, v2, v3, v4, m1, m2, m3

VARIABLES
    focus,
    node, net, order, turn, live, crashes, returns,
    registrations, validators, saved, saving, pending, tip, running, restarts,
    height, active, updates, requests,
    upgrades, supported, started, heights, proposals, upgradeVotes, installs,
    list,
    known

-----------------------------------------------------------------------------
OneEach == [v \in Validators |-> 1]

\* RoundTimers: four validators in every cyclic order of their ticks; 0 may be
\* taken to tick first.
T == INSTANCE RoundTimers WITH
        N <- 4,
        Orders <- {o \in [0..3 -> 0..3] :
                      o[0] = 0 /\ \A i, j \in 0..3 : i # j => o[i] # o[j]},
        ProposeTimeout <- 6, PrevoteTimeout <- 4, PrecommitTimeout <- 4,
        Running <- {0..3}, MaxCrashes <- 1, MaxReturns <- 1, Span <- 8

\* ValidatorBootstrap: three servers for a set of two.  Servers 1 and 2 start
\* alone, server 3 with an old configuration of two.
B == INSTANCE ValidatorBootstrap WITH
        Servers <- 1..3, BootstrapSize <- 2, MaxRestarts <- 1,
        Genesis <- <<{1}, {2}, {2, 3}>>

E == INSTANCE ConsensusEras WITH
        Members <- {m1, m2, m3}, MinSize <- 2, Genesis <- {m1, m2},
        EraLength <- 3, ActivationDelay <- 2, MaxHeight <- 10,
        MaxRequests <- 3, pending <- updates

\* UpgradeSchedule: no upgrade, one, two in a row, one that goes back, and a
\* file that is refused.
Up(h, v) == [height |-> h, version |-> v]

G == INSTANCE UpgradeSchedule WITH
        N <- 3, Versions <- 1..3, MaxHeight <- 3, MaxInstalls <- 1,
        Files <- {{}, {Up(2, 2)}, {Up(1, 2), Up(3, 3)}, {Up(1, 3), Up(2, 1)},
                  {Up(2, 2), Up(2, 3)}},
        running <- started, tip <- heights, votes <- upgradeVotes

\* ValidatorPolicy: a large holder, two equal ones of a country, an approved
\* one without stake, one with a bad uptime, and one that shares an account.
Candidate(id, account, stake, country, uptime, approved) ==
    [id |-> id, account |-> account, stake |-> stake, country |-> country,
     blocked |-> FALSE, proof |-> TRUE, endpoint |-> TRUE,
     observed |-> IF uptime = 0 THEN 0 ELSE 1, uptime |-> uptime,
     approved |-> approved]

V == INSTANCE ValidatorPolicy WITH
        Candidates <- {Candidate(1, 11, 30, "none", 95, FALSE),
                       Candidate(2, 12, 5, "kr", 0, FALSE),
                       Candidate(3, 13, 5, "kr", 99, FALSE),
                       Candidate(4, 14, 0, "none", 0, TRUE),
                       Candidate(5, 15, 40, "kr", 90, TRUE),
                       Candidate(6, 11, 20, "us", 0, FALSE),
                       Candidate(7, 17, 4, "us", 0, FALSE)},
        Supply <- 200, Denominator <- 100, MinStakeBps <- 10,
        CountryRankLimit <- 1, MinValidators <- 2, MaxValidators <- 3,
        MinUptime <- 95, PowerScale <- 20, MaxCandidates <- 4

\* PeerSelection: two bootstrap nodes, near nodes of a country and a network,
\* a far one, an unreliable one.
Peer(id, country, asn, latency, uptime, load, bootstrap) ==
    [id |-> id, country |-> country, asn |-> asn, latency |-> latency,
     uptime |-> uptime, load |-> load, bootstrap |-> bootstrap]

P == INSTANCE PeerSelection WITH
        Candidates <- {Peer(1, "kr", 1, 1, 10, 9, TRUE),
                       Peer(2, "us", 2, 9, 10, 0, TRUE),
                       Peer(3, "kr", 1, 2, 9, 5, FALSE),
                       Peer(4, "kr", 3, 2, 9, 5, FALSE),
                       Peer(5, "jp", 4, 5, 8, 1, FALSE),
                       Peer(6, "jp", 4, 1, 3, 0, FALSE)},
        NearbySlots <- 2, DiversitySlots <- 1, LowLoadSlots <- 1,
        MaxPerCountry <- 2, MaxPerAsn <- 1, MaxBootstrap <- 1,
        MinUptime <- 6, MaxUptime <- 10

ASSUME ValidatorPolicyIsValid == V!PolicyIsValid
ASSUME TrafficPolicyIsValid == P!PolicyIsValid

-----------------------------------------------------------------------------
timerVars == <<node, net, order, turn, live, crashes, returns>>
bootstrapVars ==
    <<registrations, validators, saved, saving, pending, tip, running,
      restarts>>
eraVars == <<height, active, updates, requests>>
upgradeVars ==
    <<upgrades, supported, started, heights, proposals, upgradeVotes, installs>>
suiteVars ==
    <<focus, precommits, walVars, timerVars, bootstrapVars, eraVars,
      upgradeVars, list, known>>

\* Without the focus the timers and the upgrades start in one state.
SuiteInit ==
    /\ focus \in Focuses
    /\ Init /\ WalInit /\ T!Init /\ B!Init /\ E!Init /\ G!Init
    /\ V!Init /\ P!Init
    /\ focus # "timers" => node[0].holds /\ order = [i \in 0..3 |-> i]
    /\ focus # "upgrades" => upgrades = {} /\ supported = [n \in 0..2 |-> 1]

RoundChangeStep ==
    /\ focus = "round change" /\ Next
    /\ UNCHANGED <<focus, walVars, timerVars, bootstrapVars, eraVars,
                   upgradeVars, list, known>>

WalStep ==
    /\ focus = "wal" /\ WalNext
    /\ UNCHANGED <<focus, precommits, timerVars, bootstrapVars, eraVars,
                   upgradeVars, list, known>>

TimersStep ==
    /\ focus = "timers" /\ T!Next
    /\ UNCHANGED <<focus, precommits, walVars, bootstrapVars, eraVars,
                   upgradeVars, list, known>>

BootstrapStep ==
    /\ focus = "bootstrap" /\ B!Next
    /\ UNCHANGED <<focus, precommits, walVars, timerVars, eraVars,
                   upgradeVars, list, known>>

EraStep ==
    /\ focus = "eras" /\ E!Next
    /\ UNCHANGED <<focus, precommits, walVars, timerVars, bootstrapVars,
                   upgradeVars, list, known>>

UpgradeStep ==
    /\ focus = "upgrades" /\ G!Next
    /\ UNCHANGED <<focus, precommits, walVars, timerVars, bootstrapVars,
                   eraVars, list, known>>

PolicyStep ==
    /\ focus = "policy" /\ V!Next
    /\ UNCHANGED <<focus, precommits, walVars, timerVars, bootstrapVars,
                   eraVars, upgradeVars, known>>

PeersStep ==
    /\ focus = "peers" /\ P!Next
    /\ UNCHANGED <<focus, precommits, walVars, timerVars, bootstrapVars,
                   eraVars, upgradeVars, list>>

SuiteNext ==
    \/ RoundChangeStep \/ WalStep \/ TimersStep \/ BootstrapStep
    \/ EraStep \/ UpgradeStep \/ PolicyStep \/ PeersStep

SuiteSpec == SuiteInit /\ [][SuiteNext]_suiteVars

-----------------------------------------------------------------------------
(* With the deadlines of consensus_runtime.rs the rounds of validators that  *)
(* ran from the beginning never drift more than one apart, and none of them  *)
(* waits for a quorum of votes that it was already sent: votes that overtook *)
(* their proposal are kept in deferred_votes.                                *)
RoundsKeepPace == focus = "timers" => T!RoundsStayTogether /\ T!NoVoteStranded

(* Servers that know the same registrations and have no block yet run with   *)
(* the same validators, in whatever order ValidatorRegistered came, and a    *)
(* first block is finalized only by the validators.json that a restart will  *)
(* load.                                                                     *)
ServersAgree ==
    focus = "bootstrap" => B!SameRegistrationsSameSet /\ B!FinalSetIsSaved

(* What is in force at a height is what was scheduled for it. The set of     *)
(* EraManager is the one asked for last among the requests whose boundary    *)
(* has come, and it changes only between two eras; only validators that      *)
(* support the protocol version of a height have proposed there.             *)
InForceAsScheduled ==
    /\ [](focus = "eras" => E!ActiveAsRequested)
    /\ E!ChangesAtBoundary
    /\ [](focus = "upgrades" => G!ProposedIsSupported)

=============================================================================
