--------------------------- MODULE Communication -----------------------------
(***************************************************************************)
(* Wallet signals from one node to another: communication.rs, the RPC      *)
(* calls that send and poll, the consensus tick that drains the outbox,    *)
(* the direct request of network.rs and the event it becomes.              *)
(*                                                                         *)
(* A signal is its id; Expiry gives its expires_at, and its other fields   *)
(* are well formed.  Requests are separate streams: they may arrive in any *)
(* order or fail.  A wallet may hand a signal to its node again, for       *)
(* instance after the node was restarted.                                  *)
(***************************************************************************)
EXTENDS Naturals, SequencesExt

CONSTANTS
    Signals,
    Expiry,       \* Signals -> time
    MaxPending,   \* MAX_PENDING_SIGNALS, 256
    MaxSeen,      \* MAX_SEEN_SIGNAL_IDS, 1024
    MaxClock,     \* bounds, for model checking
    MaxSends,
    MaxRestarts

VARIABLES
    outbox,     \* the sender's communication_outbox
    wire,       \* signals sent as requests and not answered
    queue,      \* the receiver's CommunicationReceived events
    inbox,      \* the receiver's communication_inbox
    running,    \* the receiver's process has not ended
    accepted,   \* history: the signals the receiver's inbox has taken
    clock,
    sends,
    restarts

vars == <<outbox, wire, queue, inbox, running, accepted, clock, sends, restarts>>

EmptyBox == [items |-> <<>>, seen |-> <<>>]

Init ==
    /\ outbox = EmptyBox /\ inbox = EmptyBox
    /\ wire = <<>>
    /\ queue = <<>>
    /\ running = TRUE
    /\ accepted = <<>>
    /\ clock = 0 /\ sends = 0 /\ restarts = 0

\* CommunicationEnvelope::validate, of a well formed signal.
Valid(s) == clock <= Expiry[s]

Newest(list, n) == SubSeq(list, Len(list) - n + 1, Len(list))

AtMost(list, n) == IF Len(list) > n THEN Newest(list, n) ELSE list

Fresh(box, s) == Valid(s) /\ ~Contains(box.seen, s)

\* One id too few is remembered.
PushedForgetful(box, s) ==
    [items |-> AtMost(Append(box.items, s), MaxPending),
     seen  |-> AtMost(Append(box.seen, s), MaxSeen - 1)]

\* CommunicationInbox::push, of a fresh signal: the oldest ids are forgotten
\* and the oldest signals dropped.
Pushed(box, s) ==
    [items |-> AtMost(Append(box.items, s), MaxPending),
     seen  |-> AtMost(Append(box.seen, s), MaxSeen)]

-----------------------------------------------------------------------------
\* ieum_sendCommunication: a signal that is not fresh is an RPC error.
Send(s) ==
    /\ sends < MaxSends
    /\ sends' = sends + 1
    /\ outbox' = IF Fresh(outbox, s) THEN Pushed(outbox, s) ELSE outbox
    /\ UNCHANGED <<wire, queue, inbox, running, accepted, clock, restarts>>

\* The consensus tick: drain_outbound_communication and SendCommunication.
DrainOutbox ==
    /\ outbox.items # <<>>
    /\ wire' = wire \o outbox.items
    /\ outbox' = [outbox EXCEPT !.items = <<>>]
    /\ UNCHANGED <<queue, inbox, running, accepted, clock, sends, restarts>>

\* A request arrives: a valid one is acknowledged and becomes an event.
Receive(i) ==
    /\ running
    /\ wire' = RemoveAt(wire, i)
    /\ queue' = IF Valid(wire[i]) THEN Append(queue, wire[i]) ELSE queue
    /\ UNCHANGED <<outbox, inbox, running, accepted, clock, sends, restarts>>

\* OutboundFailure: nobody sends the signal again.
Lose(i) ==
    /\ wire' = RemoveAt(wire, i)
    /\ UNCHANGED <<outbox, queue, inbox, running, accepted, clock, sends,
                   restarts>>

\* The main loop's receive_communication(..)?: an error ends the process.
Handle ==
    /\ running
    /\ queue # <<>>
    /\ queue' = Tail(queue)
    /\ IF Fresh(inbox, Head(queue))
       THEN /\ inbox' = Pushed(inbox, Head(queue))
            /\ accepted' = Append(accepted, Head(queue))
            /\ UNCHANGED running
       ELSE /\ running' = FALSE
            /\ UNCHANGED <<inbox, accepted>>
    /\ UNCHANGED <<outbox, wire, clock, sends, restarts>>

\* ieum_pollCommunication.
Poll ==
    /\ running
    /\ inbox.items # <<>>
    /\ inbox' = [inbox EXCEPT !.items = <<>>]
    /\ UNCHANGED <<outbox, wire, queue, running, accepted, clock, sends,
                   restarts>>

\* Either process starts again, with empty boxes.
RestartSender ==
    /\ restarts < MaxRestarts
    /\ restarts' = restarts + 1
    /\ outbox' = EmptyBox
    /\ UNCHANGED <<wire, queue, inbox, running, accepted, clock, sends>>

RestartReceiver ==
    /\ ~running
    /\ restarts < MaxRestarts
    /\ restarts' = restarts + 1
    /\ inbox' = EmptyBox
    /\ queue' = <<>>
    /\ accepted' = <<>>
    /\ running' = TRUE
    /\ UNCHANGED <<outbox, wire, clock, sends>>

Tick ==
    /\ clock < MaxClock
    /\ clock' = clock + 1
    /\ UNCHANGED <<outbox, wire, queue, inbox, running, accepted, sends,
                   restarts>>

Next ==
    \/ \E s \in Signals : Send(s)
    \/ \E i \in DOMAIN wire : Receive(i) \/ Lose(i)
    \/ DrainOutbox \/ Handle \/ Poll
    \/ RestartSender \/ RestartReceiver
    \/ Tick

Spec == Init /\ [][Next]_vars

-----------------------------------------------------------------------------
(* A repeated signal is recognised for as long as the window promises: two   *)
(* deliveries of one id have more than MaxSeen others between them, through  *)
(* resends, restarts of the sender and requests that overtake each other.    *)
SeenWindow ==
    \A i, j \in DOMAIN accepted :
        i < j /\ accepted[i] = accepted[j] => j - i > MaxSeen

(* What waits to be polled are the newest signals in order: a full inbox     *)
(* loses its oldest and nothing else.                                        *)
InboxIsNewest ==
    IsSuffix(inbox.items, accepted) /\ Len(inbox.items) <= MaxPending
=============================================================================
