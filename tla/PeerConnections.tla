-------------------------- MODULE PeerConnections ----------------------------
(***************************************************************************)
(* The network task's peers: the connections it opens and loses, the       *)
(* addresses it learns from mDNS and Identify, its redial of the bootstrap *)
(* peers, and the peer count it reports to the main loop.                  *)
(*                                                                         *)
(* An address is a sequence of protocols, each a kind of IP ("public",     *)
(* "lan", "local"), "dns", "circuit" or a PeerId; ports and transports are *)
(* left out.  A bootstrap peer's own address is "dns".                     *)
(***************************************************************************)
EXTENDS Naturals, FiniteSets, SequencesExt

CONSTANTS
    Peers,
    Bootstrap,       \* the peers of bootstrap_peers
    Listed,          \* the addresses peers list in Identify
    Announced,       \* the ones mDNS finds them at
    DnsAnswers,      \* what a domain resolves to
    MaxConnections,  \* bounds, for model checking
    MaxQueue

VARIABLES
    connections,    \* Peers -> number of open connections
    dialing,        \* peers being dialed
    sameLan,        \* same_lan_peers; also gossipsub's explicit peers
    book,           \* Kademlia's addresses of each peer
    queue,          \* unique_peers of the connection events on their way
    peerCount,      \* RpcState.peer_count
    onceLan         \* history: peers mDNS has found

vars == <<connections, dialing, sameLan, book, queue, peerCount, onceLan>>

Unique(c) == Cardinality({p \in Peers : c[p] > 0})

-----------------------------------------------------------------------------
(* Addresses.                                                              *)

\* resolve_dns4_addresses; an empty answer is an error, and the address is
\* passed over.
Resolved(a) ==
    IF Contains(a, "dns")
    THEN {[i \in DOMAIN a |-> IF a[i] = "dns" THEN ip ELSE a[i]]
             : ip \in DnsAnswers}
    ELSE {a}

Circuits(a) == {i \in DOMAIN a : a[i] = "circuit"}

WithoutTarget(a, p) ==
    IF a # <<>> /\ Last(a) = p THEN Front(a) ELSE a

\* normalize_learned_address, as the set of no or one address.
Normalized(a, p) ==
    LET path == WithoutTarget(a, p)
    IN  IF \/ path = <<>>
           \/ Cardinality(Circuits(a)) > 1
           \/ \E i \in Circuits(path), j \in DOMAIN path : i < j /\ path[j] \in Peers
        THEN {} ELSE {path}

\* accepts_learned_address.
AcceptsLearnedAddress(a, lan) ==
    \A i \in DOMAIN a : a[i] # "local" /\ (a[i] = "lan" => lan)

\* The book when p's addresses are learned: the ones not accepted are removed.
Learned(p, addresses, lan) ==
    LET ok == {a \in addresses : AcceptsLearnedAddress(a, lan)}
    IN  [book EXCEPT ![p] = (@ \ (addresses \ ok)) \cup ok]

-----------------------------------------------------------------------------
\* start: each bootstrap address is resolved, entered and dialed.
Init ==
    /\ connections = [p \in Peers |-> 0]
    /\ dialing = Bootstrap
    /\ sameLan = {}
    /\ book = [p \in Peers |-> IF p \in Bootstrap THEN Resolved(<<"dns">>)
                                                  ELSE {}]
    /\ queue = <<>>
    /\ peerCount = 0
    /\ onceLan = {}

\* mDNS finds a peer at an address.
Discovered(p, a) ==
    /\ book' = Learned(p, {a}, TRUE)
    /\ sameLan' = IF AcceptsLearnedAddress(a, TRUE) THEN sameLan \cup {p}
                                                    ELSE sameLan
    /\ onceLan' = onceLan \cup sameLan'
    /\ UNCHANGED <<connections, dialing, queue, peerCount>>

\* mDNS has not heard of it for a while; its addresses stay in the book.
Expired(p) ==
    /\ p \in sameLan
    /\ sameLan' = sameLan \ {p}
    /\ UNCHANGED <<connections, dialing, book, queue, peerCount, onceLan>>

\* A connected peer lists its addresses.
IdentifyReceived(p, addresses) ==
    /\ connections[p] > 0
    /\ book' = Learned(p, UNION {Resolved(a) : a \in
                   UNION {Normalized(b, p) : b \in addresses}}, p \in sameLan)
    /\ UNCHANGED <<connections, dialing, sameLan, queue, peerCount, onceLan>>

\* A dial ends in a connection, or a peer connects; a peer may have several.
ConnectionEstablished(p) ==
    /\ connections[p] < MaxConnections
    /\ Len(queue) < MaxQueue
    /\ connections' = [connections EXCEPT ![p] = @ + 1]
    /\ dialing' = dialing \ {p}
    /\ queue' = Append(queue, Unique(connections'))
    /\ UNCHANGED <<sameLan, book, peerCount, onceLan>>


ConnectionClosed(p) ==
    /\ connections[p] > 0
    /\ Len(queue) < MaxQueue
    /\ connections' = [connections EXCEPT ![p] = @ - 1]
    /\ queue' = Append(queue, Unique(connections'))
    /\ UNCHANGED <<dialing, sameLan, book, peerCount, onceLan>>

\* OutgoingConnectionError: logged only.
DialFails(p) ==
    /\ p \in dialing
    /\ dialing' = dialing \ {p}
    /\ UNCHANGED <<connections, sameLan, book, queue, peerCount, onceLan>>

\* bootstrap_redial_tick, every 60 seconds.
Redial ==
    /\ Unique(connections) = 0
    /\ dialing' = dialing \cup Bootstrap
    /\ UNCHANGED <<connections, sameLan, book, queue, peerCount, onceLan>>

\* PeerConnected or PeerDisconnected in the main loop: set_peer_count.
HandleEvent ==
    /\ queue # <<>>
    /\ peerCount' = Head(queue)
    /\ queue' = Tail(queue)
    /\ UNCHANGED <<connections, dialing, sameLan, book, onceLan>>

Next ==
    \/ \E p \in Peers : \/ Expired(p)
                        \/ ConnectionEstablished(p)
                        \/ ConnectionClosed(p)
                        \/ DialFails(p)
    \/ \E p \in Peers, a \in Announced : Discovered(p, a)
    \/ \E p \in Peers, addresses \in SUBSET Listed :
           IdentifyReceived(p, addresses)
    \/ Redial
    \/ HandleEvent

Spec == Init /\ [][Next]_vars

-----------------------------------------------------------------------------
(* The addresses a node may dial later are worth dialing: a private address  *)
(* only of a peer that mDNS has found on this LAN, never a local one, and no *)
(* relayed path that leads to anyone else after the relay, whichever of      *)
(* mDNS, Identify and DNS it came from and in whatever order.                *)
LearnsReachable ==
    \A p \in Peers : \A a \in book[p] :
        /\ ~Contains(a, "local")
        /\ Contains(a, "lan") => p \in onceLan \cup Bootstrap
        /\ \A i \in Circuits(a), j \in DOMAIN a : i < j => a[j] = p

(* Once the events on their way are handled, net_peerCount is the number of  *)
(* peers with a connection, whatever connections opened and closed meanwhile *)
(* and however many a peer had.                                              *)
PeerCountSettles == queue = <<>> => peerCount = Unique(connections)

(* A node that has lost every peer finds one again: the redial timer keeps   *)
(* dialing the bootstrap peers.                                              *)
Reconnects == []<>(Unique(connections) > 0)
=============================================================================
