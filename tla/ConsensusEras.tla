---------------------------- MODULE ConsensusEras ----------------------------
(***************************************************************************)
(* The validator sets of consensus_era.rs: EraManager schedules a change   *)
(* for an era boundary after a delay, and applies it when the chain gets   *)
(* there.  schedule and apply_height are called at the height of the chain *)
(* and once for each height, as the module's test does.                    *)
(***************************************************************************)
EXTENDS Naturals, Sequences, FiniteSetsExt

CONSTANTS
    Members,          \* validators; a set is valid with at least MinSize
    MinSize,          \* 4
    Genesis,
    EraLength,
    ActivationDelay,
    MaxHeight,        \* bounds, for model checking
    MaxRequests

VARIABLES
    height,
    active,
    pending,    \* a set of updates, at most one for each activation height
    requests    \* history: every accepted request, in order

vars == <<height, active, pending, requests>>

Init ==
    /\ height = 0
    /\ active = Genesis
    /\ pending = {}
    /\ requests = <<>>

\* validate_set; powers are positive and ids distinct.
ValidateSet(S) == Cardinality(S) >= MinSize

EraAt(h) == h \div EraLength

ActivationBelow(h) == ((h + ActivationDelay) \div EraLength) * EraLength

\* The first era boundary at or after the end of the delay.
Activation(h) ==
    ((h + ActivationDelay + EraLength - 1) \div EraLength) * EraLength

\* schedule: a later request for the same boundary replaces an earlier one.
Schedule(S) ==
    LET at == Activation(height)
    IN  /\ Len(requests) < MaxRequests
        /\ ValidateSet(S)
        /\ pending' = {u \in pending : u.at # at} \cup {[at |-> at, set |-> S]}
        /\ requests' = Append(requests, [asked |-> height, set |-> S])
        /\ UNCHANGED <<height, active>>

Due(h) == {u \in pending : u.at <= h}

First(updates) == CHOOSE u \in updates : \A v \in updates : u.at <= v.at

\* apply_height: the first due update, if any.
ApplyHeight(h) ==
    IF Due(h) = {} THEN UNCHANGED <<active, pending>>
    ELSE /\ active' = First(Due(h)).set
         /\ pending' = pending \ {First(Due(h))}

\* The chain grows by a block.
NextHeight ==
    /\ height < MaxHeight
    /\ height' = height + 1
    /\ ApplyHeight(height')
    /\ UNCHANGED requests

Next == NextHeight \/ \E S \in SUBSET Members : Schedule(S)

Spec == Init /\ [][Next]_vars

-----------------------------------------------------------------------------
\* The first boundary with EraLength blocks or fewer behind the delay, found by
\* search.
Boundary(asked) ==
    Min({h \in asked + ActivationDelay..asked + ActivationDelay + EraLength :
             h % EraLength = 0})

Latest(S) == CHOOSE i \in S : \A j \in S : j <= i

(* The set of a height is the one asked for last among the requests whose    *)
(* boundary has come: never early, never skipped, the same for every node    *)
(* that saw the same requests.                                               *)
ActiveAsRequested ==
    LET come == {i \in DOMAIN requests : Boundary(requests[i].asked) <= height}
    IN  active = IF come = {} THEN Genesis ELSE requests[Latest(come)].set

(* The documents: a set changes only at an era boundary, in the first block  *)
(* of an era and never in the middle of one.                                 *)
ChangesAtBoundary ==
    [][active' # active => EraAt(height') # EraAt(height)]_vars
=============================================================================
