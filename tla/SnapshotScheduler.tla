-------------------------- MODULE SnapshotScheduler --------------------------
(***************************************************************************)
(* The scheduler of snapshot_scheduler.rs: it spreads the missing chunks   *)
(* of a snapshot over several peers, gives a chunk back to the queue when  *)
(* its peer fails or times out, and stops asking a peer for a chunk it     *)
(* failed too often.                                                       *)
(*                                                                         *)
(* Time is abstract: at every call of assign any requests may be overdue,  *)
(* in the arbitrary order in which the hash map lists them.  A peer that   *)
(* is Reliable answers every request in time; of the others nothing is     *)
(* known, and their answers may come after the timeout.  The cursor is     *)
(* kept modulo the number of peers, the only way it is used.               *)
(***************************************************************************)
EXTENDS Naturals, Sequences, FiniteSets, SequencesExt

CONSTANTS
    Chunks,          \* the missing chunks, in the order they are queued
    Peers,           \* the sequence of peers
    Reliable,        \* the peers that always answer in time
    MaxInFlight,
    MaxPeerRetries,
    None

\* The conditions under which SnapshotScheduler::new succeeds.
SchedulerIsValid ==
    /\ Len(Peers) >= 2
    /\ MaxInFlight \in Nat \ {0}
    /\ MaxPeerRetries \in Nat \ {0}
    /\ Reliable \subseteq ToSet(Peers)

VARIABLES
    pending, inFlight, failures, cursor,  \* as in the code
    asked,       \* requests that a peer has not answered: <<peer, chunk>>
    received     \* chunks that were completed

vars == <<pending, inFlight, failures, cursor, asked, received>>

ChunkSet == ToSet(Chunks)

Init ==
    /\ pending = Chunks
    /\ inFlight = [c \in ChunkSet |-> None]
    /\ failures = [p \in ToSet(Peers), c \in ChunkSet |-> 0]
    /\ cursor = 0
    /\ asked = {}
    /\ received = {}

\* The part of the state that the helpers of the code work on.
State == [pending |-> pending, inFlight |-> inFlight, failures |-> failures,
          cursor |-> cursor]

Install(s) ==
    /\ pending' = s.pending
    /\ inFlight' = s.inFlight
    /\ failures' = s.failures
    /\ cursor' = s.cursor

FailedUnchecked(s, peer, chunk) ==
    [s EXCEPT !.inFlight[chunk] = None,
              !.failures[peer, chunk] = @ + 1,
              !.pending = Append(@, chunk)]

\* fail: an answer about an older assignment is ignored.
Failed(s, peer, chunk) ==
    IF s.inFlight[chunk] # peer THEN s
    ELSE [s EXCEPT !.inFlight[chunk] = None,
                   !.failures[peer, chunk] = @ + 1,
                   !.pending = Append(@, chunk)]

PeerAt(position) == Peers[(position % Len(Peers)) + 1]

\* next_peer: how far the cursor moves to the first peer that may be asked,
\* None if there is no such peer.
Skip(s, chunk) ==
    LET Usable(i) == s.failures[PeerAt(s.cursor + i - 1), chunk]
                         < MaxPeerRetries
        steps == {i \in 1..Len(Peers) : Usable(i)}
    IN  IF steps = {} THEN None ELSE Min(steps)

\* One turn of the loop of assign; a chunk without a usable peer goes to the
\* end of the queue and ends the call.
AssignOne(s) ==
    LET chunk == Head(s.pending)
        skip  == Skip(s, chunk)
    IN  IF skip = None
        THEN [s EXCEPT !.pending = Append(Tail(s.pending), chunk),
                       !.stopped = TRUE]
        ELSE [s EXCEPT !.pending = Tail(s.pending),
                       !.inFlight[chunk] = PeerAt(s.cursor + skip - 1),
                       !.cursor = (s.cursor + skip) % Len(Peers)]

Busy(s) == Cardinality({c \in ChunkSet : s.inFlight[c] # None})

AssignLoop(s) ==
    LET Over(t) == t.stopped \/ Busy(t) >= MaxInFlight \/ t.pending = <<>>
        Turn(t, i) == IF Over(t) THEN t ELSE AssignOne(t)
    IN  FoldLeft(Turn, s, [i \in 1..MaxInFlight |-> i])

\* assign, when the chunks in overdue are found to have timed out.
Assign(overdue) ==
    LET Requeue(s, chunk) == Failed(s, inFlight[chunk], chunk)
    IN  \E before \in {FoldLeft(Requeue, State, overdue) @@ [stopped |-> FALSE]} :
        \E after \in {AssignLoop(before)} :
            /\ Install(after)
            /\ asked' = asked \cup {<<after.inFlight[c], c>> :
                           c \in {d \in ChunkSet : /\ after.inFlight[d] # None
                                                   /\ before.inFlight[d] = None}}
            /\ UNCHANGED received

\* A chunk arrives and complete is called; a late one is refused.
Complete(peer, chunk) ==
    /\ <<peer, chunk>> \in asked
    /\ asked' = asked \ {<<peer, chunk>>}
    /\ IF inFlight[chunk] = peer
       THEN /\ inFlight' = [inFlight EXCEPT ![chunk] = None]
            /\ received' = received \cup {chunk}
       ELSE UNCHANGED <<inFlight, received>>
    /\ UNCHANGED <<pending, failures, cursor>>

\* An answer that cannot be used arrives, and fail is called.
Fail(peer, chunk) ==
    /\ <<peer, chunk>> \in asked
    /\ peer \notin Reliable
    /\ asked' = asked \ {<<peer, chunk>>}
    /\ Install(Failed(State, peer, chunk))
    /\ UNCHANGED received

Overdue == {c \in ChunkSet : inFlight[c] \notin Reliable \cup {None}}

Next ==
    \/ \E late \in SUBSET Overdue :
           \E order \in SetToSeqs(late) : Assign(order)
    \/ \E request \in asked : Complete(request[1], request[2])
    \/ \E request \in asked : Fail(request[1], request[2])

Spec == Init /\ [][Next]_vars

-----------------------------------------------------------------------------
(* A chunk is never lost and never asked for twice at a time: it is waiting  *)
(* once, or in flight, or received, whichever of timeout, failure and late   *)
(* answer comes first.                                                       *)
ChunkInOnePlace ==
    \A c \in ChunkSet :
        Cardinality({i \in DOMAIN pending : pending[i] = c})
            + (IF inFlight[c] # None THEN 1 ELSE 0)
            + (IF c \in received THEN 1 ELSE 0) = 1

(* With one reliable peer the download ends, whatever the others do: their   *)
(* failures are counted until only the reliable one is asked.                *)
EventuallyReceived == <>(received = ChunkSet)
=============================================================================
