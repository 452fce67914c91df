------------------------------ MODULE MCNetwork ------------------------------
(***************************************************************************)
(* A node and its peers: synchronization, connections and addresses, the   *)
(* ban of a peer and the signals of the communication service.  These      *)
(* modules share no variable; focus says which of them takes the steps of  *)
(* a behaviour.                                                            *)
(***************************************************************************)
EXTENDS Naturals, TLC

CONSTANTS
    Focuses,
    ServersMayRestart,
    s1, s2, s3, p, g1, g2, g3, None

VARIABLES
    focus,
    serverTip, serverBase, tip, base, votes, highest, up, requests, answers,
    connected, reported,
    connections, dialing, sameLan, book, queue, peerCount, onceLan,
    record, clock, lastOffence, messages,
    outbox, wire, events, inbox, running, accepted, time, sends, restarts

-----------------------------------------------------------------------------
\* ChainSync: three servers that the node is connected to.
S == INSTANCE ChainSync WITH
        Servers <- {s1, s2, s3}, Forwarders <- [s \in {s1, s2, s3} |-> {s}],
        MinimumPeers <- 2, MaxBatch <- 1, StartHeight <- 1, MaxHeight <- 2,
        ServersRestart <- ServersMayRestart, RequesterRestarts <- FALSE

\* Two servers; they and the node restart.
SR == INSTANCE ChainSync WITH
        Servers <- {s1, s2}, Forwarders <- [s \in {s1, s2} |-> {s}],
        MinimumPeers <- 2, MaxBatch <- 1, StartHeight <- 1, MaxHeight <- 2,
        ServersRestart <- TRUE, RequesterRestarts <- TRUE

\* PeerConnections: server s1 is the bootstrap peer, p a peer of the LAN or of
\* another one.
C == INSTANCE PeerConnections WITH
        Peers <- {s1, p}, Bootstrap <- {s1},
        Listed <- {<<"lan", p>>, <<"local">>, <<"public", s1, "circuit", p>>,
                   <<"public", s1, "circuit", s1, "circuit", p>>, <<"dns">>},
        Announced <- {<<"lan", p>>, <<"local">>},
        DnsAnswers <- {"public", "lan"}, MaxConnections <- 2, MaxQueue <- 2

G == INSTANCE PeerGuard WITH
        Peers <- {s1, p}, BanDuration <- 2, MaxClock <- 5, MaxMessages <- 5

\* Communication: the second signal has no time to spare.
M == INSTANCE Communication WITH
        Signals <- {g1, g2, g3}, Expiry <- (g1 :> 1) @@ (g2 :> 0) @@ (g3 :> 1),
        MaxPending <- 2, MaxSeen <- 2, MaxClock <- 1, MaxSends <- 4,
        MaxRestarts <- 1, queue <- events, clock <- time

-----------------------------------------------------------------------------
syncVars ==
    <<serverTip, serverBase, tip, base, votes, highest, up, requests, answers,
      connected, reported>>
connectionVars ==
    <<connections, dialing, sameLan, book, queue, peerCount, onceLan>>
guardVars == <<record, clock, lastOffence, messages>>
communicationVars ==
    <<outbox, wire, events, inbox, running, accepted, time, sends, restarts>>
suiteVars ==
    <<focus, syncVars, connectionVars, guardVars, communicationVars>>

SuiteInit ==
    /\ focus \in Focuses
    /\ IF focus = "sync restarts" THEN SR!Init ELSE S!Init
    /\ C!Init /\ G!Init /\ M!Init

SyncStep ==
    /\ focus = "sync" /\ S!Next
    /\ UNCHANGED <<focus, connectionVars, guardVars, communicationVars>>

SyncRestartsStep ==
    /\ focus = "sync restarts" /\ SR!Next
    /\ UNCHANGED <<focus, connectionVars, guardVars, communicationVars>>

ConnectionStep ==
    /\ focus = "connections" /\ C!Next
    /\ UNCHANGED <<focus, syncVars, guardVars, communicationVars>>

GuardStep ==
    /\ focus = "guard" /\ G!Next
    /\ UNCHANGED <<focus, syncVars, connectionVars, communicationVars>>

CommunicationStep ==
    /\ focus = "communication" /\ M!Next
    /\ UNCHANGED <<focus, syncVars, connectionVars, guardVars>>

SuiteNext ==
    \/ SyncStep \/ SyncRestartsStep \/ ConnectionStep
    \/ GuardStep \/ CommunicationStep

SuiteSpec == SuiteInit /\ [][SuiteNext]_suiteVars

-----------------------------------------------------------------------------
(* No answer ends the node that synchronizes: certificates_from and          *)
(* apply_sync_certificates fit together, in whatever order answers arrive.   *)
SyncNeverFails == focus = "sync" => S!SyncNeverFails



(* A ban of PeerGuard is temporary: a peer that was not penalized for the    *)
(* ban duration is not blocked.                                              *)
BanLapses == focus = "guard" => G!BanLapses

(* CommunicationInbox recognises a repeated signal as long as its window of  *)
(* seen ids promises, through resends and restarts of the sender, and when   *)
(* full it loses its oldest signal and nothing else.                         *)
SignalsAreKept == focus = "communication" => M!SeenWindow /\ M!InboxIsNewest
=============================================================================
