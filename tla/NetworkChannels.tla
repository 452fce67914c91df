-------------------------- MODULE NetworkChannels ----------------------------
(***************************************************************************)
(* The two tasks of a node and the two bounded channels between them: the  *)
(* network task of network.rs sends events to the main loop of main.rs,    *)
(* which sends commands back.  Each task awaits a full channel inside a    *)
(* handler, and receives nothing while it does.                            *)
(*                                                                         *)
(* An event is its kind, and a handler is the number of commands it sends; *)
(* what they carry is the subject of the other modules.                    *)
(***************************************************************************)
EXTENDS Naturals, Sequences

CONSTANTS
    CommandCapacity,  \* mpsc::channel(128)
    EventCapacity,    \* mpsc::channel(256)
    MaxBurst,         \* most commands of one tick: 1000 transactions and more
    MaxDiscovered     \* most peers of one mDNS answer

VARIABLES
    events,     \* the event channel
    commands,   \* how many commands the command channel holds
    burst,      \* commands the main loop's handler has still to send
    outgoing    \* events the network task's handler has still to send

vars == <<events, commands, burst, outgoing>>

Kinds == {"connected", "sync_requested", "consensus", "other"}

Init ==
    /\ events = <<>>
    /\ commands = 0
    /\ burst = 0
    /\ outgoing = <<>>

\* Commands the handler of an event sends.  A new peer gets a sync request, a
\* reward registration and, if configured, two more; a vote or a proposal is
\* answered with votes and finalized blocks.
Replies(kind) ==
    CASE kind = "connected"      -> 2..4
      [] kind = "sync_requested" -> {1}
      [] kind = "consensus"      -> 0..3
      [] kind = "other"          -> {0}

-----------------------------------------------------------------------------
(* The main loop.                                                          *)

\* The consensus tick publishes pending signals, transactions and proposals,
\* the registration and update ticks their announcements.
Tick ==
    /\ burst = 0
    /\ burst' \in 1..MaxBurst
    /\ UNCHANGED <<events, commands, outgoing>>

HandleEvent ==
    /\ burst = 0
    /\ events # <<>>
    /\ burst' \in Replies(Head(events))
    /\ events' = Tail(events)
    /\ UNCHANGED <<commands, outgoing>>

SendCommand ==
    /\ burst > 0
    /\ commands < CommandCapacity
    /\ burst' = burst - 1
    /\ commands' = commands + 1
    /\ UNCHANGED <<events, outgoing>>

-----------------------------------------------------------------------------
(* The network task.                                                       *)

TakeCommandWhenQuiet ==
    /\ outgoing = <<>>
    /\ events = <<>>
    /\ commands > 0
    /\ commands' = commands - 1
    /\ UNCHANGED <<events, burst, outgoing>>

\* Its select loop takes a command and publishes it...
TakeCommand ==
    /\ outgoing = <<>>
    /\ commands > 0
    /\ commands' = commands - 1
    /\ UNCHANGED <<events, burst, outgoing>>

\* ... or a swarm event, whose handler has events to send: one, or one for each
\* peer of an mDNS answer.
SwarmEvent ==
    /\ outgoing = <<>>
    /\ outgoing' \in {<<kind>> : kind \in Kinds}
                     \cup {[i \in 1..n |-> "other"] : n \in 1..MaxDiscovered}
    /\ UNCHANGED <<events, commands, burst>>

SendEvent ==
    /\ outgoing # <<>>
    /\ Len(events) < EventCapacity
    /\ events' = Append(events, Head(outgoing))
    /\ outgoing' = Tail(outgoing)
    /\ UNCHANGED <<commands, burst>>

-----------------------------------------------------------------------------
\* Each task waits for the other.
MutualWait ==
    /\ burst > 0 /\ commands = CommandCapacity
    /\ outgoing # <<>> /\ Len(events) = EventCapacity

Next == Tick \/ HandleEvent \/ SendCommand
        \/ TakeCommand \/ SwarmEvent \/ SendEvent

Spec == Init /\ [][Next]_vars

-----------------------------------------------------------------------------
(* However full the channels get, the main loop comes back to its select,    *)
(* to timeouts and to votes, unless both tasks wait for each other.          *)
OnlyMutualWaitStalls == []<>(burst = 0) \/ <>[]MutualWait
=============================================================================
