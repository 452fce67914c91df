----------------------------- MODULE RoundChange -----------------------------
(***************************************************************************)
(* Nil votes and the round-change certificate of consensus_era.rs, beside  *)
(* the finality certificate of consensus.rs: one height and round, in      *)
(* which a validator precommits a block or nil.                            *)
(*                                                                         *)
(* Signatures are valid, and a certificate is a sequence of votes that     *)
(* were cast, in which a vote may be repeated.                             *)
(***************************************************************************)
EXTENDS QuorumProofs, Sequences

CONSTANTS
    Blocks,
    Nil,       \* NIL_BLOCK_HASH
    MaxVotes   \* bound on a certificate's length, for model checking

ASSUME NilAssumption == Nil \notin Blocks

VARIABLE precommits  \* the precommits cast: pairs of a validator and a value

Init == precommits = {}

Voters(x) == {v \in Validators : <<v, x>> \in precommits}

\* NilVote::precommit, or a precommit of a block: an honest validator signs one
\* value, a faulty one any.
Precommit(v, x) ==
    /\ v \notin Faulty => \A y \in Blocks \cup {Nil} : <<v, y>> \notin precommits
    /\ precommits' = precommits \cup {<<v, x>>}

Next == \E v \in Validators, x \in Blocks \cup {Nil} : Precommit(v, x)

Spec == Init /\ [][Next]_precommits

-----------------------------------------------------------------------------
Signers(certificate) == {certificate[i][1] : i \in DOMAIN certificate}

VerifyHalf(certificate) ==
    /\ \A i \in DOMAIN certificate :
           certificate[i] \in precommits /\ certificate[i][2] = Nil
    /\ PowerOf(Signers(certificate)) * 2 >= TotalPower

\* RoundChangeCertificate::verify: every vote is a nil precommit of this round,
\* and its signers, each counted once, hold more than two thirds.
VerifyRoundChange(certificate) ==
    /\ \A i \in DOMAIN certificate :
           certificate[i] \in precommits /\ certificate[i][2] = Nil
    /\ PowerOf(Signers(certificate)) * 3 > TotalPower * 2

Certificates == UNION {[1..n -> precommits] : n \in 0..MaxVotes}

-----------------------------------------------------------------------------
(* A round is left or it finalizes a block, never both: while a round-change *)
(* certificate verifies, no block of that round has the precommits of a      *)
(* finality certificate, with less than a third of the power faulty.         *)
RoundChangeExcludesFinal ==
    \A certificate \in Certificates :
        VerifyRoundChange(certificate) =>
            \A b \in Blocks : ~CertificateQuorum(Voters(b))

-----------------------------------------------------------------------------
(***************************************************************************)
(* A round that is left by a certificate finalizes no block, for every     *)
(* validator set, every distribution of the power and certificates of any  *)
(* length.                                                                 *)
(***************************************************************************)
Values == Blocks \cup {Nil}

\* The inductive invariant: precommits are votes of validators, and an honest
\* one has cast at most one.
HonestOnce ==
    /\ precommits \in SUBSET (Validators \X Values)
    /\ \A v \in Validators \ Faulty : \A x, y \in Values :
           <<v, x>> \in precommits /\ <<v, y>> \in precommits => x = y

(* NilVote::precommit and the precommit of a block share the guard that an  *)
(* honest validator signs once in a round.                                  *)
LEMMA HonestOnceInvariant == Spec => []HonestOnce
<1>1. Init => HonestOnce
  BY DEF Init, HonestOnce
<1>2. HonestOnce /\ [Next]_precommits => HonestOnce'
  <2> SUFFICES ASSUME HonestOnce, [Next]_precommits
               PROVE  HonestOnce'
    OBVIOUS
  <2>1. CASE UNCHANGED precommits
    BY <2>1 DEF HonestOnce
  <2>2. CASE Next
    <3>1. PICK v \in Validators, x \in Values : Precommit(v, x)
      BY <2>2 DEF Next, Values
    <3>2. precommits' = precommits \cup {<<v, x>>}
      BY <3>1 DEF Precommit
    <3>3. precommits' \in SUBSET (Validators \X Values)
      BY <3>2 DEF HonestOnce
    <3>4. ASSUME NEW w \in Validators \ Faulty, NEW y \in Values,
                 NEW z \in Values,
                 <<w, y>> \in precommits', <<w, z>> \in precommits'
          PROVE  y = z
      <4>1. CASE w = v
        <5>1. \A u \in Values : <<w, u>> \notin precommits
          BY <3>1, <3>4, <4>1 DEF Precommit, Values
        <5>2. QED
          BY <3>2, <3>4, <5>1
      <4>2. CASE w # v
        BY <3>2, <3>4, <4>2 DEF HonestOnce
      <4>3. QED
        BY <4>1, <4>2
    <3>5. QED
      BY <3>3, <3>4 DEF HonestOnce
  <2>3. QED
    BY <2>1, <2>2
<1>3. QED
  BY <1>1, <1>2, PTL DEF Spec

(* RoundChangeCertificate::verify and FinalityCertificate::verify never both *)
(* succeed in one round: their signers would share an honest validator, who  *)
(* precommitted nil and a block.                                             *)
THEOREM RoundChangeSafe == Spec => []RoundChangeExcludesFinal
<1>1. HonestOnce => RoundChangeExcludesFinal
  <2> SUFFICES ASSUME HonestOnce,
                      NEW certificate \in Certificates,
                      VerifyRoundChange(certificate),
                      NEW b \in Blocks,
                      CertificateQuorum(Voters(b))
               PROVE  FALSE
    BY DEF RoundChangeExcludesFinal
  <2> DEFINE S == Signers(certificate)
  <2>1. \A v \in S : v \in Validators /\ <<v, Nil>> \in precommits
    <3> SUFFICES ASSUME NEW i \in DOMAIN certificate
                 PROVE  /\ certificate[i][1] \in Validators
                        /\ <<certificate[i][1], Nil>> \in precommits
      BY DEF Signers
    <3>1. certificate[i] \in precommits /\ certificate[i][2] = Nil
      BY DEF VerifyRoundChange
    <3>2. certificate[i] \in Validators \X Values
      BY <3>1 DEF HonestOnce
    <3>3. certificate[i] = <<certificate[i][1], certificate[i][2]>>
      BY <3>2
    <3>4. QED
      BY <3>1, <3>2, <3>3
  <2>2. S \in SUBSET Validators /\ CertificateQuorum(S)
    BY <2>1 DEF VerifyRoundChange, CertificateQuorum
  <2>3. Voters(b) \in SUBSET Validators
    BY DEF Voters
  <2>4. PICK v \in S \cap Voters(b) : v \notin Faulty
    BY <2>2, <2>3, QuorumIntersection
  <2>5. <<v, Nil>> \in precommits /\ <<v, b>> \in precommits
    BY <2>1, <2>4 DEF Voters
  <2>6. Nil = b
    BY <2>1, <2>4, <2>5 DEF HonestOnce, Values
  <2>7. QED
    BY <2>6, NilAssumption
<1>2. QED
  BY <1>1, HonestOnceInvariant, PTL
=============================================================================
