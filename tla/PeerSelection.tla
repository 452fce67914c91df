---------------------------- MODULE PeerSelection ----------------------------
(***************************************************************************)
(* select_balanced_peers of traffic_rewards.rs: the slots for near, for    *)
(* diverse and for lightly loaded peers, and the fallback without limits.  *)
(* The candidates arrive one by one, in any order.                         *)
(*                                                                         *)
(* A candidate is a record [id, country, asn, latency, uptime, load,       *)
(* bootstrap]; load stands for load_bps, which is a function of capacity   *)
(* and connections.  Candidates with blank fields are skipped and left     *)
(* out here.                                                               *)
(***************************************************************************)
EXTENDS Naturals, SequencesExt

CONSTANTS
    Candidates,      \* a set of records
    NearbySlots,
    DiversitySlots,
    LowLoadSlots,
    MaxPerCountry,
    MaxPerAsn,
    MaxBootstrap,
    MinUptime,
    MaxUptime        \* BPS_DENOMINATOR

Target == NearbySlots + DiversitySlots + LowLoadSlots

\* TrafficPolicy.validate.
PolicyIsValid ==
    /\ Target > 0
    /\ MaxPerCountry > 0 /\ MaxPerAsn > 0
    /\ MaxBootstrap <= Target
    /\ MinUptime <= MaxUptime

VARIABLE known   \* the candidates in the order they arrived

Init == known = <<>>

Arrive(c) ==
    /\ c \notin ToSet(known)
    /\ known' = Append(known, c)

Next == \E c \in Candidates : Arrive(c)

Spec == Init /\ [][Next]_known

-----------------------------------------------------------------------------
\* The first record of each peer, entry(..).or_insert_with.
Unique(list) ==
    {list[i] : i \in {k \in DOMAIN list :
                          \A j \in 1..(k - 1) : list[j].id # list[k].id}}

CountryCount(list, c) == Len(SelectSeq(list, LAMBDA p : p.country = c))
AsnCount(list, a) == Len(SelectSeq(list, LAMBDA p : p.asn = a))
BootstrapCount(list) == Len(SelectSeq(list, LAMBDA p : p.bootstrap))

\* Tuples of numbers in their lexicographic order.
Before(a, b) ==
    \E i \in DOMAIN a : a[i] < b[i] /\ \A j \in 1..(i - 1) : a[j] = b[j]

\* sort_by_key; the last member of every key is the id, so keys differ.
SortedBy(S, key) ==
    [i \in 1..Cardinality(S) |->
        CHOOSE p \in S :
            Cardinality({q \in S : Before(key[q], key[p])}) = i - 1]

\* The tests of the loop of fill_slots.
Fits(c, list, relaxed) ==
    /\ \A i \in DOMAIN list : list[i].id # c.id
    /\ c.uptime >= MinUptime
    /\ c.bootstrap => BootstrapCount(list) < MaxBootstrap
    /\ relaxed \/ /\ CountryCount(list, c.country) < MaxPerCountry
                  /\ AsnCount(list, c.asn) < MaxPerAsn

\* fill_slots.
FillSlots(sorted, count, list, relaxed) ==
    FoldLeft(LAMBDA acc, c :
                 IF Len(acc) < Len(list) + count /\ Fits(c, acc, relaxed)
                 THEN Append(acc, c) ELSE acc,
             list, sorted)

Unavailable(p) == MaxUptime - p.uptime

\* The four passes over the candidates.
SelectFrom(S) ==
    LET near == FillSlots(
                    SortedBy(S,
                        [p \in S |-> <<p.latency, Unavailable(p), p.id>>]),
                    NearbySlots, <<>>, FALSE)
        diverse == FillSlots(
                    SortedBy(S, [p \in S |->
                        <<CountryCount(near, p.country), AsnCount(near, p.asn),
                          Unavailable(p), p.latency, p.id>>]),
                    DiversitySlots, near, FALSE)
        light == FillSlots(
                    SortedBy(S, [p \in S |->
                        <<p.load, Unavailable(p), p.latency, p.id>>]),
                    LowLoadSlots, diverse, FALSE)
    IN  FillSlots(
            SortedBy(S,
                [p \in S |-> <<p.load, p.latency, Unavailable(p), p.id>>]),
            Target - Len(light), light, TRUE)

\* select_balanced_peers; truncate never cuts.
Select(list) == SelectFrom(Unique(list))

-----------------------------------------------------------------------------
(* Bootstrap nodes never take more than their slots, in none of the passes,  *)
(* and no peer is connected twice.                                           *)
BootstrapIsSpared ==
    LET s == Select(known)
    IN  /\ BootstrapCount(s) <= MaxBootstrap
        /\ \A i, j \in DOMAIN s : s[i].id = s[j].id => i = j

(* A free slot stays empty only when no known peer could take it: the limits *)
(* on countries and networks never leave a node with fewer connections.      *)
SlotsAreUsed ==
    LET s == Select(known)
    IN  /\ Len(s) <= Target
        /\ Len(s) < Target =>
               \A c \in Unique(known) :
                   \/ \E i \in DOMAIN s : s[i].id = c.id
                   \/ c.uptime < MinUptime
                   \/ c.bootstrap /\ BootstrapCount(s) >= MaxBootstrap
=============================================================================
