---------------------------- MODULE QuorumProofs ----------------------------
(***************************************************************************)
(* Facts about the quorums of VotingPower, for every validator set: two    *)
(* quorums share an honest validator, and the saturating test of           *)
(* has_quorum never accepts what the exact test of a certificate rejects.  *)
(***************************************************************************)
EXTENDS VotingPower, FiniteSetTheorems, TLAPS

(* The units of power of a set of validators form a finite set, which grows *)
(* with the set (the sum in has_quorum and in FinalityCertificate::verify). *)
LEMMA StakeFacts ==
    ASSUME NEW S \in SUBSET Validators, NEW T \in SUBSET Validators
    PROVE  /\ IsFiniteSet(Stake(S))
           /\ PowerOf(S) \in Nat
           /\ S \subseteq T => PowerOf(S) <= PowerOf(T)
<1> DEFINE Units == Validators \X (1..U64Max)
<1>1. IsFiniteSet(Units)
  <2>1. IsFiniteSet(1..U64Max)
    BY FS_Interval, ValidatorAssumption
  <2>2. QED
    BY <2>1, FS_Product, ValidatorAssumption
<1>2. ASSUME NEW R \in SUBSET Validators
      PROVE  Stake(R) \in SUBSET Units
  <2>1. \A v \in R : 1..Power[v] \subseteq 1..U64Max
    BY ValidatorAssumption
  <2>2. QED
    BY <2>1 DEF Stake
<1>3. IsFiniteSet(Stake(S)) /\ IsFiniteSet(Stake(T))
  BY <1>1, <1>2, FS_Subset
<1>4. PowerOf(S) \in Nat
  BY <1>3, FS_CardinalityType DEF PowerOf
<1>5. ASSUME S \subseteq T
      PROVE  PowerOf(S) <= PowerOf(T)
  <2>1. Stake(S) \in SUBSET Stake(T)
    BY <1>5 DEF Stake
  <2>2. QED
    BY <1>3, <2>1, FS_Subset DEF PowerOf
<1>6. QED
  BY <1>3, <1>4, <1>5

(* saturating_mul never makes has_quorum accept too little power: what      *)
(* advances a round also satisfies FinalityCertificate::verify.             *)
LEMMA HasQuorumIsExact ==
    ASSUME NEW S \in SUBSET Validators, HasQuorum(S)
    PROVE  CertificateQuorum(S)
<1>1. PowerOf(S) \in Nat /\ TotalPower \in Nat /\ U64Max \in Nat
  BY StakeFacts, ValidatorAssumption DEF TotalPower
<1>2. QED
  BY <1>1 DEF HasQuorum, CertificateQuorum, SaturatingMul

(* A larger set of voters keeps a certificate valid.                        *)
LEMMA QuorumMonotone ==
    ASSUME NEW S \in SUBSET Validators, NEW T \in SUBSET Validators,
           S \subseteq T, CertificateQuorum(S)
    PROVE  CertificateQuorum(T)
<1>1. PowerOf(S) \in Nat /\ PowerOf(T) \in Nat /\ TotalPower \in Nat
  BY StakeFacts DEF TotalPower
<1>2. PowerOf(S) <= PowerOf(T)
  BY StakeFacts
<1>3. QED
  BY <1>1, <1>2 DEF CertificateQuorum

(* Two sets of voters that FinalityCertificate::verify accepts have a       *)
(* validator in common that is not faulty.                                  *)
THEOREM QuorumIntersection ==
    ASSUME NEW S \in SUBSET Validators, NEW T \in SUBSET Validators,
           CertificateQuorum(S), CertificateQuorum(T)
    PROVE  \E v \in S \cap T : v \notin Faulty
<1> SUFFICES ASSUME S \cap T \subseteq Faulty
             PROVE  FALSE
  OBVIOUS
<1>1. Faulty \in SUBSET Validators /\ S \cup T \in SUBSET Validators
  BY FaultAssumption
<1>2. Stake(S) \cap Stake(T) \in SUBSET Stake(Faulty)
  BY DEF Stake
<1>3. Stake(S) \cup Stake(T) = Stake(S \cup T)
  BY DEF Stake
<1>4. Cardinality(Stake(S) \cap Stake(T)) <= PowerOf(Faulty)
  BY <1>1, <1>2, StakeFacts, FS_Subset DEF PowerOf
<1>5. PowerOf(S \cup T) <= TotalPower
  BY <1>1, StakeFacts DEF TotalPower
<1>6. PowerOf(S \cup T) =
        PowerOf(S) + PowerOf(T) - Cardinality(Stake(S) \cap Stake(T))
  BY <1>3, StakeFacts, FS_Union DEF PowerOf
<1>7. Cardinality(Stake(S) \cap Stake(T)) \in Nat
  BY StakeFacts, FS_Intersection, FS_CardinalityType, Zenon
<1>8. /\ PowerOf(S) \in Nat /\ PowerOf(T) \in Nat /\ PowerOf(S \cup T) \in Nat
      /\ TotalPower \in Nat /\ PowerOf(Faulty) \in Nat
  BY <1>1, StakeFacts DEF TotalPower
<1>9. QED
  BY <1>4, <1>5, <1>6, <1>7, <1>8, FaultAssumption DEF CertificateQuorum

(* The faulty validators alone are never a quorum.                          *)
LEMMA FaultyAreNoQuorum ==
    ~ CertificateQuorum(Faulty)
<1>1. Faulty \in SUBSET Validators
  BY FaultAssumption
<1>2. QED
  BY <1>1, QuorumIntersection
=============================================================================
