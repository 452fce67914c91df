----------------------------- MODULE MCLiveness ------------------------------
(***************************************************************************)
(* What must happen in the end: a node catches up and reconnects, its main *)
(* loop gets on, a snapshot arrives and is resumed, the validators decide, *)
(* scheduled events are paid and a release comes to run.  The modules      *)
(* share no variable; focus says which of them takes the steps of a        *)
(* behaviour, and its fairness is the one that counts.                     *)
(***************************************************************************)
EXTENDS Naturals, Sequences, TLC

CONSTANTS Focuses, s1, s2, p, good, flaky, c1, c2, c3, v1, v2, a, b, None, Torn

VARIABLES
    focus,
    serverTip, serverBase, tip, base, votes, highest, up, requests, answers,
    connected, reported,
    connections, dialing, sameLan, book, queue, peerCount, onceLan,
    events, commands, burst, outgoing,
    pending, inFlight, failures, cursor, asked, fetched,
    progressFile, chunkFiles, received, writing, status, arrived, dlCrashes,
    node, net, order, turn, live, crashes, returns,
    clock, last, executed, registered, proofs,
    current, next, previous, running, target, pc, published, ran

-----------------------------------------------------------------------------
S == INSTANCE ChainSync WITH
        Servers <- {s1, s2}, Forwarders <- [s \in {s1, s2} |-> {s}],
        MinimumPeers <- 2, MaxBatch <- 1, StartHeight <- 3, MaxHeight <- 3,
        ServersRestart <- FALSE, RequesterRestarts <- FALSE

C == INSTANCE PeerConnections WITH
        Peers <- {s1, p}, Bootstrap <- {s1}, Listed <- {}, Announced <- {},
        DnsAnswers <- {"public"}, MaxConnections <- 2, MaxQueue <- 3

H == INSTANCE NetworkChannels WITH
        CommandCapacity <- 3, EventCapacity <- 2, MaxBurst <- 5,
        MaxDiscovered <- 2

\* SnapshotScheduler: three chunks and two peers, one of which is reliable.
D == INSTANCE SnapshotScheduler WITH
        Chunks <- <<c1, c2, c3>>, Peers <- <<flaky, good>>,
        Reliable <- {good}, MaxInFlight <- 2, MaxPeerRetries <- 2,
        received <- fetched

R == INSTANCE SnapshotDownload WITH
        ChunkCount <- 3, MaxCrashes <- 2, crashes <- dlCrashes

\* RoundTimers: one of four validators is down.
T == INSTANCE RoundTimers WITH
        N <- 4,
        Orders <- {o \in [0..3 -> 0..3] :
                      o[0] = 0 /\ \A i, j \in 0..3 : i # j => o[i] # o[j]},
        ProposeTimeout <- 6, PrevoteTimeout <- 4, PrecommitTimeout <- 4,
        Running <- {(0..3) \ {n} : n \in 0..3},
        MaxCrashes <- 0, MaxReturns <- 0, Span <- 8

\* SystemEvents: the order of the times is not that of the ids.
E == INSTANCE SystemEvents WITH
        Validators <- {v1, v2}, Events <- 1..3, ExecuteAt <- <<2, 1, 2>>,
        Nodes <- 1..2, AddressOf <- <<a, b>>, MilestoneSize <- 2,
        Milestone <- 9, FirstReward <- 8, MaxDrift <- 1, Skew <- 2,
        MaxClock <- 3

U == INSTANCE Updater WITH
        Versions <- {<<0, 9>>, <<0, 9, 0>>, <<0, 10>>, <<0, 10, 1>>,
                     <<1, 0, 2>>},
        First <- <<0, 9>>

ASSUME SchedulerIsValid == D!SchedulerIsValid

-----------------------------------------------------------------------------
syncVars ==
    <<serverTip, serverBase, tip, base, votes, highest, up, requests, answers,
      connected, reported>>
connectionVars ==
    <<connections, dialing, sameLan, book, queue, peerCount, onceLan>>
channelVars == <<events, commands, burst, outgoing>>
schedulerVars == <<pending, inFlight, failures, cursor, asked, fetched>>
downloadVars ==
    <<progressFile, chunkFiles, received, writing, status, arrived, dlCrashes>>
timerVars == <<node, net, order, turn, live, crashes, returns>>
eventVars == <<clock, last, executed, registered, proofs>>
updateVars ==
    <<current, next, previous, running, target, pc, published, ran>>
suiteVars ==
    <<focus, syncVars, connectionVars, channelVars, schedulerVars,
      downloadVars, timerVars, eventVars, updateVars>>

\* Without the focus the timers start in one state.
SuiteInit ==
    /\ focus \in Focuses
    /\ S!Init /\ C!Init /\ H!Init /\ D!Init /\ R!Init /\ T!Init /\ E!Init
    /\ U!Init
    /\ focus # "timers" =>
         live = 0..2 /\ node[0].holds /\ order = [i \in 0..3 |-> i]

SyncStep ==
    /\ focus = "sync" /\ S!Next
    /\ UNCHANGED <<focus, connectionVars, channelVars, schedulerVars,
                   downloadVars, timerVars, eventVars, updateVars>>

ConnectionStep ==
    /\ focus = "connections" /\ C!Next
    /\ UNCHANGED <<focus, syncVars, channelVars, schedulerVars, downloadVars,
                   timerVars, eventVars, updateVars>>

ChannelStep ==
    /\ focus = "channels" /\ H!Next
    /\ UNCHANGED <<focus, syncVars, connectionVars, schedulerVars,
                   downloadVars, timerVars, eventVars, updateVars>>

SchedulerStep ==
    /\ focus = "scheduler" /\ D!Next
    /\ UNCHANGED <<focus, syncVars, connectionVars, channelVars, downloadVars,
                   timerVars, eventVars, updateVars>>

DownloadStep ==
    /\ focus = "download" /\ R!Next
    /\ UNCHANGED <<focus, syncVars, connectionVars, channelVars,
                   schedulerVars, timerVars, eventVars, updateVars>>

TimersStep ==
    /\ focus = "timers" /\ T!Next
    /\ UNCHANGED <<focus, syncVars, connectionVars, channelVars,
                   schedulerVars, downloadVars, eventVars, updateVars>>

EventsStep ==
    /\ focus = "events" /\ E!Next
    /\ UNCHANGED <<focus, syncVars, connectionVars, channelVars,
                   schedulerVars, downloadVars, timerVars, updateVars>>

UpdateStep ==
    /\ focus = "update" /\ U!UpdateNext
    /\ UNCHANGED <<focus, syncVars, connectionVars, channelVars,
                   schedulerVars, downloadVars, timerVars, eventVars>>

SuiteNext ==
    \/ SyncStep \/ ConnectionStep \/ ChannelStep \/ SchedulerStep
    \/ DownloadStep \/ TimersStep \/ EventsStep \/ UpdateStep

\* The select loop of a node serves its network events, and the mesh delivers
\* what was published: a connection, the answers and their delivery are fair.
\* That a server finalizes is not.
SyncFairness ==
    /\ WF_syncVars(focus = "sync" /\ S!PeerConnected)
    /\ \A s \in {s1, s2}, from \in 1..4 :
           WF_syncVars(focus = "sync" /\ S!Answer(s, from, s))
    /\ WF_syncVars(focus = "sync" /\ \E m \in answers : S!SyncReceived(m))

\* The redial timer fires, events are handled, and a bootstrap peer that is
\* dialed again and again is reached in the end.
ConnectionFairness ==
    /\ WF_connectionVars(focus = "connections" /\ C!Redial)
    /\ WF_connectionVars(focus = "connections" /\ C!HandleEvent)
    /\ SF_connectionVars(focus = "connections" /\ s1 \in dialing
                             /\ C!ConnectionEstablished(s1))

\* The runtime runs a task that can run, and select! polls its ready branches
\* in random order: a command is taken, and an event handled, in the end.
ChannelFairness ==
    /\ WF_channelVars(focus = "channels" /\ H!SendCommand)
    /\ WF_channelVars(focus = "channels" /\ H!SendEvent)
    /\ SF_channelVars(focus = "channels" /\ H!TakeCommand)
    /\ SF_channelVars(focus = "channels" /\ H!HandleEvent)

\* The download calls assign again and again, reliable peers answer, and the
\* requests of the other peers end by an answer or by the timeout.
SchedulerFairness ==
    /\ WF_schedulerVars(focus = "scheduler" /\ D!Assign(<<>>))
    /\ \A c \in {c1, c2, c3} :
        /\ WF_schedulerVars(focus = "scheduler" /\ D!Complete(good, c))
        /\ WF_schedulerVars(focus = "scheduler" /\ c \in D!Overdue
                               /\ D!Assign(<<c>>))

\* The caller goes on: it opens the download, asks for what is missing and
\* gets it, and finishes.  Chunks that come twice do not keep it from that.
DownloadFairness ==
    /\ WF_downloadVars(focus = "download" /\ R!Open)
    /\ WF_downloadVars(focus = "download" /\ R!PersistOpened)
    /\ WF_downloadVars(focus = "download" /\ R!RecordChunk)
    /\ SF_downloadVars(focus = "download" /\ R!Finish)
    /\ SF_downloadVars(focus = "download"
                          /\ \E index \in R!Missing : R!Accept(index, TRUE))

\* The loops of the running processes go on.
TimerFairness == WF_timerVars(focus = "timers" /\ T!Run)

\* Clocks advance, registrations are announced every minute, and the proposer
\* role comes around to every validator.
EventFairness ==
    \A v \in {v1, v2} :
        /\ WF_eventVars(focus = "events" /\ E!Tick(v))
        /\ WF_eventVars(focus = "events" /\ E!Propose(v))
        /\ \A n \in 1..2 : WF_eventVars(focus = "events" /\ E!RegisterNode(v, n))
        /\ \A w \in {v1, v2} :
               WF_eventVars(focus = "events" /\ E!RegisterValidator(v, w))

\* The timer checks again, a rename that fails does not fail for ever, and the
\* service manager restarts.
UpdateFairness ==
    /\ WF_updateVars(focus = "update" /\ U!Step)
    /\ SF_updateVars(focus = "update" /\ U!Swap)
    /\ WF_updateVars(focus = "update" /\ U!Start)

SuiteFairSpec ==
    /\ SuiteInit /\ [][SuiteNext]_suiteVars
    /\ SyncFairness /\ ConnectionFairness /\ ChannelFairness
    /\ SchedulerFairness /\ DownloadFairness /\ TimerFairness
    /\ EventFairness /\ UpdateFairness

-----------------------------------------------------------------------------

(* However full the event and command channels get, the main loop comes back *)
(* to its select, unless it and the network task wait for each other.        *)
OnlyMutualWaitStalls == focus = "channels" => H!OnlyMutualWaitStalls

(* A chunk waits once in SnapshotScheduler, is in flight or received,        *)
(* whichever of timeout, failure and late answer comes first, and with one   *)
(* reliable peer every chunk is received.                                    *)
ChunksArrive ==
    /\ [](focus = "scheduler" => D!ChunkInOnePlace)
    /\ focus = "scheduler" => D!EventuallyReceived

(* A chunk that resume.json lists is on the disk, what                       *)
(* SnapshotDownload::accept has confirmed survives every crash, and a        *)
(* download that is resumed after each crash finishes.                       *)
DownloadFinishes ==
    /\ [](focus = "download" => R!ListedChunksExist /\ R!ProgressKept)
    /\ focus = "download" => R!Finishes

(* With one of four validators down, round timeouts and the rotation of the  *)
(* proposers bring the others to a decision while one holds a transaction.   *)
Decides == focus = "timers" => T!Decides


=============================================================================
