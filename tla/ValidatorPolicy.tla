--------------------------- MODULE ValidatorPolicy ---------------------------
(***************************************************************************)
(* The selection of validators from registered candidates:                 *)
(* ValidatorPolicy::select of validator_policy.rs.  Candidates arrive one  *)
(* by one, in an order that differs between nodes.                         *)
(*                                                                         *)
(* A candidate is well formed; its stake is its balance and what is        *)
(* delegated to it, and "none" is the country of one whose country is not  *)
(* verified.  Saturation of u128 is out of reach of any supply.            *)
(***************************************************************************)
EXTENDS Naturals, FiniteSets, SequencesExt

CONSTANTS
    Candidates,        \* records with id, account, stake, country, blocked,
                       \* proof, endpoint, observed, uptime, approved
    Supply,            \* circulating_supply
    Denominator,       \* BPS_DENOMINATOR
    MinStakeBps,
    CountryRankLimit,
    MinValidators,
    MaxValidators,
    MinUptime,
    PowerScale,        \* 1000000
    MaxCandidates      \* bound, for model checking

\* ValidatorPolicy::validate, and a supply that is not zero.
PolicyIsValid ==
    /\ MinStakeBps \in 1..Denominator /\ Supply \in Nat \ {0}
    /\ CountryRankLimit \in Nat \ {0}
    /\ MinValidators \in 1..MaxValidators

VARIABLE list  \* the candidates in the order of their registration

Init == list = <<>>

Register(c) ==
    /\ Len(list) < MaxCandidates
    /\ list' = Append(list, c)

Next == \E c \in Candidates : Register(c)

Spec == Init /\ [][Next]_list

-----------------------------------------------------------------------------
\* The order by stake, largest first, and then by id.
Ahead(c, d) == c.stake > d.stake \/ (c.stake = d.stake /\ c.id < d.id)

Duplicates(l) ==
    \E i, j \in DOMAIN l :
        i # j /\ (l[i].id = l[j].id \/ l[i].account = l[j].account)

\* The conditions on everybody; a candidate not observed yet has no uptime.
Eligible(l) ==
    {c \in ToSet(l) : /\ ~c.blocked /\ c.proof /\ c.endpoint
                      /\ c.observed > 0 => c.uptime >= MinUptime}

HasMinimumStake(c) == c.stake * Denominator >= Supply * MinStakeBps

Position(l, c) == CHOOSE i \in DOMAIN l : l[i] = c


\* Among the first of its country.
InCountryRank(l, c) ==
    /\ c.country # "none"
    /\ Cardinality({d \in Eligible(l) : d.country = c.country /\ Ahead(d, c)})
       < CountryRankLimit

Qualified(l) ==
    {c \in Eligible(l) :
        HasMinimumStake(c) \/ InCountryRank(l, c) \/ c.approved}

VotingPower(c) ==
    IF (c.stake * PowerScale) \div Supply = 0 THEN 1
    ELSE (c.stake * PowerScale) \div Supply

TruncatedAt(s, n) == IF Len(s) > n THEN SubSeq(s, 1, n) ELSE s

Error == <<>>

\* ValidatorPolicy::select.
Select(l) ==
    LET chosen == TruncatedAt(SetToSortSeq(Qualified(l), Ahead), MaxValidators)
    IN  IF Duplicates(l) \/ Len(chosen) < MinValidators THEN Error
        ELSE [i \in DOMAIN chosen |-> [id |-> chosen[i].id,
                                       power |-> VotingPower(chosen[i])]]

-----------------------------------------------------------------------------
\* The list with two neighbours exchanged.
SwapAt(l, i) == [l EXCEPT ![i] = l[i + 1], ![i + 1] = l[i]]

Ids(result) == {result[i].id : i \in DOMAIN result}

(* Nodes that registered the same candidates in different orders select the  *)
(* same validators, in the same order, as select's comment promises.         *)
OrderIndependent ==
    \A i \in 1..Len(list) - 1 :
        Select(SwapAt(list, i)) = Select(list)

(* What select returns is a set the consensus and the eras accept: enough    *)
(* validators, no id twice, and no voting power of zero.                     *)
SelectedSetIsValid ==
    LET result == Select(list)
    IN  result # Error =>
            /\ Cardinality(Ids(result)) = Len(result)
            /\ Len(result) \in MinValidators..MaxValidators
            /\ \A i \in DOMAIN result : result[i].power > 0

(* More stake never costs a candidate its seat: if it is selected, it still  *)
(* is with a larger stake and everything else the same.                      *)
StakeHelps ==
    \A i \in DOMAIN list :
        LET more == [list EXCEPT ![i].stake = @ + 1]
        IN  list[i].id \in Ids(Select(list)) => list[i].id \in Ids(Select(more))
=============================================================================
