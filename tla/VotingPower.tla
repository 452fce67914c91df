----------------------------- MODULE VotingPower -----------------------------
(***************************************************************************)
(* The voting power of consensus.rs: the weighted validator set, and the   *)
(* two quorum tests of the program.  BftConsensus::has_quorum decides with *)
(* saturating u64 arithmetic when a round advances, and                    *)
(* FinalityCertificate::verify decides with exact u128 arithmetic whether  *)
(* a certificate proves a block final.                                     *)
(*                                                                         *)
(* A sum of powers is written as the number of units of power held by a    *)
(* set of validators, which is the same number and lets the quorum         *)
(* intersection be proved from the cardinality of finite sets.             *)
(***************************************************************************)
EXTENDS Naturals, FiniteSets

CONSTANTS
    Validators,  \* the registered validator ids
    Power,       \* voting_power of each validator
    Faulty,      \* the validators that may sign anything at any time
    U64Max       \* u64::MAX, where saturating_mul stops

(***************************************************************************)
(* BftConsensus::new rejects an empty set and a zero power.  The sum of    *)
(* the powers is an unchecked u64 sum: that it does not wrap is an         *)
(* assumption on the configuration, which the code does not enforce.       *)
(***************************************************************************)
ASSUME ValidatorAssumption ==
    /\ IsFiniteSet(Validators)
    /\ Validators # {}
    /\ U64Max \in Nat
    /\ Power \in [Validators -> 1..U64Max]

\* The units of voting power held by the validators of S.
Stake(S) == UNION {{v} \X (1..Power[v]) : v \in S}

\* The sum of the voting powers of the validators of S.
PowerOf(S) == Cardinality(Stake(S))

TotalPower == PowerOf(Validators)

SaturatingMul(x, k) == IF x * k > U64Max THEN U64Max ELSE x * k

HasHalf(S) == SaturatingMul(PowerOf(S), 2) >= TotalPower

\* BftConsensus::has_quorum, for the set of validators that voted.
HasQuorum(S) ==
    SaturatingMul(PowerOf(S), 3) > SaturatingMul(TotalPower, 2)

\* The power test at the end of FinalityCertificate::verify.
CertificateQuorum(S) == PowerOf(S) * 3 > TotalPower * 2

\* Byzantine validators hold less than a third of the voting power.
ASSUME FaultAssumption ==
    /\ Faulty \subseteq Validators
    /\ PowerOf(Faulty) * 3 < TotalPower
    /\ TotalPower <= U64Max
=============================================================================
