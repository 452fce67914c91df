----------------------------- MODULE PeerGuard -------------------------------
(***************************************************************************)
(* The penalty scores of peer_guard.rs and the places of network.rs that   *)
(* check, penalize and reward: gossip messages, direct requests and failed *)
(* inbound streams.                                                        *)
(*                                                                         *)
(* A message is what its handler makes of it: "good", "malformed" or       *)
(* "oversized" (gossip), or "rejected" (a direct request that does not     *)
(* validate).  The clock counts fractions of the ban duration.             *)
(***************************************************************************)
EXTENDS Integers, FiniteSetsExt

CONSTANTS
    Peers,
    BanDuration,  \* NetworkConfig.ban_duration
    MaxClock,     \* bounds, for model checking
    MaxMessages

BanScore == 100
Never == -1

VARIABLES
    record,       \* PeerGuard.peers; a peer without a record has NewRecord
    clock,
    lastOffence,  \* history: when a peer was penalized last
    messages

vars == <<record, clock, lastOffence, messages>>

NewRecord == [score |-> 0, until |-> Never]

Init ==
    /\ record = [p \in Peers |-> NewRecord]
    /\ clock = 0
    /\ lastOffence = [p \in Peers |-> Never]
    /\ messages = 0

\* check answers TemporarilyBlocked.
Blocked(p) == record[p].until # Never /\ clock < record[p].until

\* The record after a check that allows: this is the only place that notices
\* the end of a ban.
Checked(p) == IF record[p].until = Never THEN record[p] ELSE NewRecord

PenalizedLonger(r, n) ==
    [score |-> r.score + n,
     until |-> IF r.score + n < BanScore THEN r.until
               ELSE Max({clock, r.until}) + BanDuration]

\* penalize, of a record.
Penalized(r, n) ==
    [score |-> r.score + n,
     until |-> IF r.score + n < BanScore THEN r.until ELSE clock + BanDuration]

\* reward, of a record.
Rewarded(r) == [r EXCEPT !.score = Max({@ - 1, 0})]

Penalty(kind) ==
    CASE kind = "oversized" -> 100
      [] kind = "rejected"  -> 50
      [] kind = "malformed" -> 25

\* History.
Offend(p) == lastOffence' = [lastOffence EXCEPT ![p] = clock]

Count == messages < MaxMessages /\ messages' = messages + 1

\* A gossip message or a direct request that is passed on to the node.
Accept(p) ==
    /\ Count
    /\ ~Blocked(p)
    /\ record' = [record EXCEPT ![p] = Rewarded(Checked(p))]
    /\ UNCHANGED <<clock, lastOffence>>

\* One that is refused.
Refuse(p, kind) ==
    /\ Count
    /\ ~Blocked(p)
    /\ record' = [record EXCEPT ![p] = Penalized(Checked(p), Penalty(kind))]
    /\ Offend(p)
    /\ UNCHANGED clock

\* A direct stream of the peer fails: penalize, without check.
InboundFailure(p) ==
    /\ Count
    /\ record' = [record EXCEPT ![p] = Penalized(record[p], 25)]
    /\ Offend(p)
    /\ UNCHANGED clock

Tick ==
    /\ clock < MaxClock
    /\ clock' = clock + 1
    /\ UNCHANGED <<record, lastOffence, messages>>

Next ==
    \/ \E p \in Peers : Accept(p) \/ InboundFailure(p)
    \/ \E p \in Peers, kind \in {"malformed", "rejected", "oversized"} :
           Refuse(p, kind)
    \/ Tick

Spec == Init /\ [][Next]_vars

-----------------------------------------------------------------------------
(* A ban is temporary, as the type's comment says: a peer that has not been  *)
(* penalized for the ban duration is not blocked, whatever came before.      *)
BanLapses ==
    \A p \in Peers : Blocked(p) => clock - lastOffence[p] < BanDuration
=============================================================================
