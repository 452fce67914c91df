------------------------------ MODULE ChainSync ------------------------------
(***************************************************************************)
(* How a node that is behind catches up: it asks when a peer connects,     *)
(* servers answer with their tip and a batch of finality certificates,     *)
(* TipQuorum cross-checks the tips of several peers, and the certificates  *)
(* are applied one height at a time (main.rs, consensus_runtime.rs,        *)
(* snapshot_sync.rs).  Messages are gossip: delayed, reordered or lost,    *)
(* and delivered by whichever peer forwarded them.                         *)
(*                                                                         *)
(* The validators agree on the chain, so a block, its certificate and a    *)
(* tip are heights.  One node, the requester, synchronizes; the servers    *)
(* finalize blocks among themselves.  A node keeps the blocks since its    *)
(* last start in memory; the first of them is its base.                    *)
(***************************************************************************)
EXTENDS Naturals, Sequences, FiniteSets, SequencesExt

CONSTANTS
    Servers,
    Forwarders,       \* which peers may hand over a server's answer
    MinimumPeers,     \* sync_quorum_peers
    MaxBatch,         \* certificates in an answer: 128, or 1.5 MB
    StartHeight,      \* height of the servers at the beginning
    MaxHeight,        \* bound on the heights, for model checking
    ServersRestart, RequesterRestarts,  \* which nodes may restart
    None

\* MinimumPeers is 2 or 3 (parse_sync_quorum_peers), MaxBatch at least 1, and
\* Forwarders a function from Servers to sets of them.

VARIABLES
    serverTip, serverBase,  \* of each server
    tip, base,              \* of the requester
    votes,                  \* TipQuorum.votes: by the peer that forwarded it
    highest,                \* sync_highest, what RPC reports as the target
    up,                     \* the requester's process runs
    requests,               \* <<server, from_height>>: requests on their way
    answers,                \* the answers on their way
    connected,              \* the requester has seen PeerConnected
    reported                \* history: <<server, tip>> of the answers received

vars == <<serverTip, serverBase, tip, base, votes, highest, up, requests,
          answers, connected, reported>>

requester == <<tip, base, votes, highest, up, connected, reported>>

Init ==
    /\ serverTip = [s \in Servers |-> StartHeight]
    /\ serverBase = [s \in Servers |-> 0]
    /\ tip = 0 /\ base = 0
    /\ votes = [s \in Servers |-> None]
    /\ highest = 0
    /\ up = TRUE
    /\ requests = {}
    /\ answers = {}
    /\ connected = FALSE
    /\ reported = {}

\* A server finalizes the next block.
Finalize(s) ==
    /\ serverTip[s] < MaxHeight
    /\ serverTip' = [serverTip EXCEPT ![s] = @ + 1]
    /\ UNCHANGED <<serverBase, requester, requests, answers>>

\* A restarted server has the state of its tip, and import_certificate_history
\* keeps the certificates of the blocks it has in memory: the tip's.
RestartServer(s) ==
    /\ ServersRestart
    /\ serverBase[s] < serverTip[s]
    /\ serverBase' = [serverBase EXCEPT ![s] = serverTip[s]]
    /\ UNCHANGED <<serverTip, requester, requests, answers>>


\* NetworkCommand::RequestSync, gossiped to all servers.
Request == requests' = requests \cup (Servers \X {tip' + 1})

PeerConnected ==
    /\ up /\ ~connected
    /\ connected' = TRUE
    /\ UNCHANGED <<tip, base, votes, highest, up, reported>>
    /\ Request
    /\ UNCHANGED <<serverTip, serverBase, answers>>

\* certificates_from: the certificates a server holds start at its base, or
\* at 1 if it was never restarted.
CertificatesFrom(s, from) ==
    LET lowest == IF serverBase[s] = 0 THEN 1 ELSE serverBase[s]
        first  == Max({from, lowest})
        last   == Min({serverTip[s], first + MaxBatch - 1})
    IN  [i \in 1..(last + 1 - Min({first, last + 1})) |-> first + i - 1]

\* SyncRequested: the answer travels through some forwarder.
Answer(s, from, via) ==
    /\ <<s, from>> \in requests
    /\ requests' = requests \ {<<s, from>>}
    /\ answers' = answers \cup
           {[server |-> s, via |-> via, tip |-> serverTip[s],
             certificates |-> CertificatesFrom(s, from)]}
    /\ UNCHANGED <<serverTip, serverBase, requester>>

-----------------------------------------------------------------------------

\* TipQuorum::observe, after the vote was stored: the highest tip that enough
\* peers report.
Agreed(reports) ==
    LET Backed == {h \in 0..MaxHeight :
                      Cardinality({p \in Servers : reports[p] = h})
                          >= MinimumPeers}
    IN  IF Backed = {} THEN None ELSE Max(Backed)

\* apply_sync_certificates for one certificate, on a record with the tip and
\* whether an error occurred.  A known height must be in memory, a later one
\* than the next is a gap.
Applied(node, h) ==
    CASE node.failed -> node
      [] h <= node.tip -> [node EXCEPT !.failed = h < base]
      [] h > node.tip + 1 -> [node EXCEPT !.failed = TRUE]
      [] OTHER -> [node EXCEPT !.tip = h]


\* The node asks on while it makes progress or has not reached the target.
FollowUp(agreed) ==
    IF tip' > tip \/ tip' < agreed THEN Request ELSE UNCHANGED requests

\* SyncReceived.  The error of a certificate leaves the loop of main.rs, which
\* ends the process; the blocks applied before it are installed.
SyncReceived(a) ==
    /\ up
    /\ a \in answers
    /\ answers' = answers \ {a}
    /\ reported' = reported \cup {<<a.server, a.tip>>}
    /\ votes' = [votes EXCEPT ![a.via] = a.tip]
    /\ LET agreed == Agreed(votes')
           after  == FoldLeft(Applied, [tip |-> tip, failed |-> FALSE],
                              a.certificates)
       IN  IF agreed = None
           THEN UNCHANGED <<tip, highest, up, requests>>
           ELSE /\ highest' = Max({highest, agreed})
                /\ tip' = after.tip
                /\ up' = ~after.failed
                /\ IF after.failed THEN UNCHANGED requests
                                   ELSE FollowUp(agreed)
    /\ UNCHANGED <<serverTip, serverBase, base, connected>>

\* The requester is stopped and started again: its state is that of its tip,
\* the votes are gone, and what was sent to it still arrives.
RestartRequester ==
    /\ RequesterRestarts
    /\ base < tip
    /\ base' = tip
    /\ votes' = [s \in Servers |-> None]
    /\ highest' = tip
    /\ up' = TRUE
    /\ connected' = FALSE
    /\ UNCHANGED <<serverTip, serverBase, tip, requests, answers, reported>>

Next ==
    \/ \E s \in Servers : Finalize(s) \/ RestartServer(s)
    \/ PeerConnected
    \/ \E r \in requests :
           \E via \in Forwarders[r[1]] : Answer(r[1], r[2], via)
    \/ \E a \in answers : SyncReceived(a)
    \/ RestartRequester

Spec == Init /\ [][Next]_vars

-----------------------------------------------------------------------------
(* No answer ends the requester: certificates_from and apply_sync_           *)
(* certificates fit together, in whatever order the answers arrive.          *)
SyncNeverFails == up


=============================================================================
