---------------------------- MODULE LedgerProofs -----------------------------
(***************************************************************************)
(* No block creates or destroys money, for any accounts, transactions,     *)
(* events and fee rates.                                                   *)
(***************************************************************************)
EXTENDS Ledger, FiniteSetTheorems, TLAPS

(* The units on bounded balances are finitely many.                          *)
LEMMA UnitsFinite ==
    ASSUME NEW m \in Nat, NEW b \in [Accounts -> 0..m]
    PROVE  IsFiniteSet(Units(b))
<1>1. IsFiniteSet(Accounts \X (1..m))
  <2>1. IsFiniteSet(Accounts)
    BY LedgerAssumption
  <2>2. IsFiniteSet(1..m)
    <3>1. 1 \in Int /\ m \in Int
      OBVIOUS
    <3>2. QED
      BY ONLY <3>1, FS_Interval
  <2>3. QED
    BY ONLY <2>1, <2>2, FS_Product
<1>2. Units(b) \subseteq Accounts \X (1..m)
  BY DEF Units
<1>3. QED
  BY <1>1, <1>2, FS_Subset

(* There are n numbers after k, up to k + n.                                 *)
LEMMA IntervalSize ==
    ASSUME NEW k \in Nat, NEW n \in Nat
    PROVE  IsFiniteSet(k + 1 .. k + n) /\ Cardinality(k + 1 .. k + n) = n
<1> DEFINE lo == k + 1
           hi == k + n
<1>1. lo \in Int /\ hi \in Int /\ n = IF lo > hi THEN 0 ELSE hi - lo + 1
  OBVIOUS
<1> HIDE DEF lo, hi
<1>2. QED
  BY <1>1, FS_Interval

(* A credit adds its amount to the supply: the units it adds are new.        *)
LEMMA CreditSupply ==
    ASSUME NEW m \in Nat, NEW b \in [Accounts -> 0..m], NEW a \in Accounts,
           NEW n \in Nat
    PROVE  Supply(b) \in Nat /\ Supply(Credited(b, a, n)) = Supply(b) + n
<1> DEFINE c == Credited(b, a, n)
           new == {a} \X (b[a] + 1 .. b[a] + n)
<1>1. /\ IsFiniteSet(Units(b)) /\ Supply(b) \in Nat
  BY UnitsFinite, FS_CardinalityType DEF Supply
<1>2. IsFiniteSet(new) /\ Cardinality(new) = n
  <2>1. b[a] \in Nat
    OBVIOUS
  <2>2. /\ IsFiniteSet(b[a] + 1 .. b[a] + n)
        /\ Cardinality(b[a] + 1 .. b[a] + n) = n
    BY <2>1, IntervalSize
  <2>3. IsFiniteSet({a}) /\ Cardinality({a}) = 1
    BY FS_Singleton
  <2>4. /\ IsFiniteSet(new)
        /\ Cardinality(new) = Cardinality({a})
                             * Cardinality(b[a] + 1 .. b[a] + n)
    BY <2>2, <2>3, FS_Product, Zenon
  <2>5. QED
    BY <2>2, <2>3, <2>4
<1>3. Units(c) = Units(b) \cup new
  <2>1. \A d \in Accounts : {d} \X (1..c[d]) \subseteq Units(b) \cup new
    BY DEF Units, Credited
  <2>2. Units(b) \subseteq Units(c)
    BY DEF Units, Credited
  <2>3. new \subseteq Units(c)
    BY DEF Units, Credited
  <2>4. QED
    BY <2>1, <2>2, <2>3 DEF Units
<1>4. Units(b) \cap new = {}
  BY DEF Units
<1>5. Cardinality(Units(c)) = Cardinality(Units(b)) + n
  <2>1. Cardinality(Units(b) \cup new) = Cardinality(Units(b))
            + Cardinality(new) - Cardinality(Units(b) \cap new)
    BY <1>1, <1>2, FS_Union, Zenon
  <2>2. Cardinality(Units(b) \cap new) = 0
    BY <1>4, FS_EmptySet, Zenon
  <2>3. QED
    BY <1>1, <1>2, <1>3, <2>1, <2>2 DEF Supply
<1>6. QED
  BY <1>1, <1>5 DEF Supply

(* A debit takes its amount from the supply.                                 *)
LEMMA DebitSupply ==
    ASSUME NEW m \in Nat, NEW b \in [Accounts -> 0..m], NEW a \in Accounts,
           NEW n \in Nat, n <= b[a]
    PROVE  /\ Debited(b, a, n) \in [Accounts -> 0..m]
           /\ Supply(b) = Supply(Debited(b, a, n)) + n
           /\ Supply(Debited(b, a, n)) \in Nat
<1>1. Debited(b, a, n) \in [Accounts -> 0..m]
  BY DEF Debited
<1>2. Credited(Debited(b, a, n), a, n) = b
  <2>1. \A d \in Accounts : Credited(Debited(b, a, n), a, n)[d] = b[d]
    BY DEF Debited, Credited
  <2>2. QED
    BY Zenon, <2>1 DEF Debited, Credited
<1>3. QED
  BY <1>1, <1>2, CreditSupply

(* The foundation's share never exceeds the fee.                             *)
LEMMA FeeSplit ==
    ASSUME NEW t \in Transactions
    PROVE  FoundationFee(t) \in Nat /\ FoundationFee(t) <= t.fee
<1> DEFINE x == t.fee * FeeBps
           q == x \div FeeDenominator
<1>1. t.fee \in Nat /\ FeeBps \in Nat /\ FeeDenominator \in Nat
      /\ FeeDenominator > 0 /\ FeeBps <= FeeDenominator
  BY LedgerAssumption
<1>2. x \in Nat /\ x <= t.fee * FeeDenominator
  BY <1>1
<1>3. q \in Nat /\ q * FeeDenominator <= x
  BY <1>1, <1>2
<1>4. q <= t.fee
  BY <1>1, <1>2, <1>3
<1>5. QED
  BY <1>3, <1>4 DEF FoundationFee

(* One iteration of apply_transactions moves money and makes none, also when *)
(* sender, receiver, producer and foundation are the same account.           *)
LEMMA TransferSupply ==
    ASSUME NEW b \in [Accounts -> 0..U128Max], NEW n, NEW t \in Transactions,
           NEW producer \in Accounts, Executable(b, n, t, producer)
    PROVE  /\ Transferred(b, t, producer) \in [Accounts -> 0..U128Max]
           /\ Supply(Transferred(b, t, producer)) = Supply(b)
<1>1. /\ U128Max \in Nat /\ t.from \in Accounts /\ t.to \in Accounts
      /\ t.amount \in Nat /\ t.fee \in Nat /\ Foundation \in Accounts
  BY LedgerAssumption
<1>2. PICK share \in Nat, rest \in Nat :
        share = FoundationFee(t) /\ rest = t.fee - share
  BY <1>1, FeeSplit
<1>3. PICK sent : sent = Debited(b, t.from, t.amount + t.fee)
  OBVIOUS
<1>4. /\ sent \in [Accounts -> 0..U128Max] /\ Supply(sent) \in Nat
      /\ Supply(b) = Supply(sent) + (t.amount + t.fee)
  <2>1. t.amount + t.fee \in Nat /\ t.amount + t.fee <= b[t.from]
    BY <1>1 DEF Executable
  <2>2. QED
    BY <1>1, <1>3, <2>1, DebitSupply
<1>5. PICK m \in Nat : m = U128Max + t.amount
  BY <1>1
<1>6. PICK received : received = Credited(sent, t.to, t.amount)
  OBVIOUS
<1>7. received \in [Accounts -> 0..m]
  BY <1>1, <1>4, <1>5, <1>6 DEF Credited
<1>8. PICK k \in Nat : k = m + rest
  OBVIOUS
<1>9. PICK produced : produced = Credited(received, producer, rest)
  OBVIOUS
<1>10. produced \in [Accounts -> 0..k]
  BY <1>7, <1>8, <1>9 DEF Credited
<1>11. PICK shared : shared = Credited(produced, Foundation, share)
  OBVIOUS
<1>12. shared \in [Accounts -> 0..k + share]
  BY <1>1, <1>10, <1>11 DEF Credited
<1>13. /\ Supply(received) = Supply(sent) + t.amount
       /\ Supply(produced) = Supply(received) + rest
       /\ Supply(shared) = Supply(produced) + share
  <2>1. Supply(received) = Supply(sent) + t.amount
    BY <1>1, <1>4, <1>6, CreditSupply
  <2>2. Supply(produced) = Supply(received) + rest
    BY <1>7, <1>9, CreditSupply
  <2>3. Supply(shared) = Supply(produced) + share
    BY <1>1, <1>10, <1>11, CreditSupply
  <2>4. QED
    BY <2>1, <2>2, <2>3
<1>14. Transferred(b, t, producer) = shared
  BY <1>2, <1>3, <1>6, <1>9, <1>11 DEF Transferred
<1>15. \A a \in Accounts : shared[a] <= U128Max
  BY <1>14 DEF Executable
<1>16. shared \in [Accounts -> 0..U128Max]
  BY <1>1, <1>12, <1>15
<1>17. Supply(shared) = Supply(b)
  BY <1>1, <1>2, <1>4, <1>13
<1>18. QED
  BY <1>14, <1>16, <1>17

(* transfer_from_foundation moves money and makes none.                      *)
LEMMA PaymentSupply ==
    ASSUME NEW b \in [Accounts -> 0..U128Max],
           NEW p \in [address : Accounts, amount : 0..U128Max], Payable(b, p)
    PROVE  /\ Paid(b, p) \in [Accounts -> 0..U128Max]
           /\ Supply(Paid(b, p)) = Supply(b)
<1>1. /\ U128Max \in Nat /\ Foundation \in Accounts /\ p.address \in Accounts
      /\ p.amount \in Nat /\ p.amount <= b[Foundation]
  BY LedgerAssumption DEF Payable
<1>2. PICK sent : sent = Debited(b, Foundation, p.amount)
  OBVIOUS
<1>3. /\ sent \in [Accounts -> 0..U128Max] /\ Supply(sent) \in Nat
      /\ Supply(b) = Supply(sent) + p.amount
  BY <1>1, <1>2, DebitSupply
<1>4. Supply(Paid(b, p)) = Supply(sent) + p.amount
  BY <1>1, <1>2, <1>3, CreditSupply DEF Paid
<1>5. Paid(b, p) \in [Accounts -> 0..U128Max]
  BY <1>1, <1>2, <1>3 DEF Paid, Payable, Credited
<1>6. QED
  BY <1>3, <1>4, <1>5

-----------------------------------------------------------------------------
Payments == [address : Accounts, amount : 0..U128Max]

Blocks ==
    [producer : Accounts, timestamp : Timestamps,
     transactions : Seq(Transactions), events : Seq(Events)]

\* The copies that apply_block works on.
Works ==
    [balances : [Accounts -> 0..U128Max], next_nonces : [Accounts -> Nat],
     executed : SUBSET {e.id : e \in Events}, unpaid : Seq(Payments),
     block : Blocks]

\* The inductive invariant: the copies hold the supply too.
SupplyInv ==
    /\ Conserved
    /\ next_nonces \in [Accounts -> Nat]
    /\ executed_events \in SUBSET {e.id : e \in Events}
    /\ work # NoWork => /\ work \in Works
                        /\ Supply(work.balances) = Supply(InitialBalances)

(* chain.rs: every iteration of apply_transactions and of                    *)
(* apply_system_events, a rejection and the installation of a block keep the *)
(* supply, on the chain and on the copies.                                   *)
LEMMA SupplyInvariant == Spec => []SupplyInv
<1>1. Init => SupplyInv
  BY LedgerAssumption DEF Init, SupplyInv, Conserved
<1>2. SupplyInv /\ [Next]_vars => SupplyInv'
  <2> SUFFICES ASSUME SupplyInv, [Next]_vars
               PROVE  SupplyInv'
    OBVIOUS
  <2>1. ASSUME Reject
        PROVE  SupplyInv'
    BY <2>1 DEF Reject, SupplyInv, Conserved
  <2>2. ASSUME NEW producer \in Accounts, NEW timestamp \in Timestamps,
               BeginBlock(producer, timestamp)
        PROVE  SupplyInv'
    BY <2>2 DEF BeginBlock, SupplyInv, Conserved, Works, Blocks
  <2>3. ASSUME NEW t \in Transactions, ApplyTransaction(t)
        PROVE  SupplyInv'
    <3>1. CASE Reject
      BY <2>1, <3>1
    <3>2. CASE /\ Executable(work.balances, work.next_nonces, t,
                             work.block.producer)
               /\ work' = [work EXCEPT
                     !.balances = Transferred(@, t, work.block.producer),
                     !.next_nonces[t.from] = @ + 1,
                     !.block.transactions = Append(@, t)]
               /\ UNCHANGED <<blocks, balances, next_nonces, executed_events>>
      <4>1. work \in Works /\ Supply(work.balances) = Supply(InitialBalances)
        BY <2>3 DEF ApplyTransaction, SupplyInv
      <4>2. PICK b : b = Transferred(work.balances, t, work.block.producer)
        OBVIOUS
      <4>3. b \in [Accounts -> 0..U128Max] /\ Supply(b) = Supply(work.balances)
        <5>1. /\ work.balances \in [Accounts -> 0..U128Max]
              /\ work.block.producer \in Accounts
          BY <4>1 DEF Works, Blocks
        <5>2. QED
          BY <3>2, <4>2, <5>1, TransferSupply
      <4>4. work'.balances = b /\ work' \in Works
        <5>1. PICK c : c = [work.block EXCEPT !.transactions = Append(@, t)]
          BY Zenon
        <5>2. PICK n : n = [work.next_nonces EXCEPT ![t.from] = @ + 1]
          BY Zenon
        <5>3. work' = [work EXCEPT !.balances = b, !.next_nonces = n,
                                   !.block = c]
          BY <3>2, <4>1, <4>2, <5>1, <5>2 DEF Works
        <5>4. n \in [Accounts -> Nat]
          BY <4>1, <5>2, LedgerAssumption DEF Works
        <5>5. c \in Blocks
          <6>1. work.block \in Blocks
            BY <4>1 DEF Works
          <6>2. PICK s : s = Append(work.block.transactions, t)
            BY Zenon
          <6>3. s \in Seq(Transactions)
            BY <6>1, <6>2 DEF Blocks
          <6>4. c = [work.block EXCEPT !.transactions = s]
            BY <5>1, <6>2
          <6>5. QED
            BY <6>1, <6>3, <6>4 DEF Blocks
        <5>6. QED
          BY Zenon, <4>1, <4>3, <5>3, <5>4, <5>5 DEF Works
      <4>5. QED
        BY <3>2, <4>1, <4>3, <4>4 DEF SupplyInv, Conserved
    <3>3. QED
      BY <2>3, <3>1, <3>2 DEF ApplyTransaction
  <2>4. ASSUME NEW e \in Events, ApplyEvent(e)
        PROVE  SupplyInv'
    <3>1. CASE Reject
      BY <2>1, <3>1
    <3>2. CASE /\ work' = [work EXCEPT !.executed = @ \cup {e.id},
                                       !.unpaid = e.payments,
                                       !.block.events = Append(@, e)]
               /\ UNCHANGED <<blocks, balances, next_nonces, executed_events>>
      <4>1. work \in Works /\ Supply(work.balances) = Supply(InitialBalances)
        BY <2>4 DEF ApplyEvent, SupplyInv
      <4>2. work'.balances = work.balances /\ work' \in Works
        <5>1. PICK c : c = [work.block EXCEPT !.events = Append(@, e)]
          BY Zenon
        <5>2. work' = [work EXCEPT !.executed = @ \cup {e.id},
                                   !.unpaid = e.payments, !.block = c]
          BY <3>2, <4>1, <5>1 DEF Works
        <5>3. e.payments \in Seq(Payments)
          BY Zenon, LedgerAssumption DEF Payments
        <5>4. c \in Blocks
          <6>1. work.block \in Blocks
            BY <4>1 DEF Works
          <6>2. PICK s : s = Append(work.block.events, e)
            BY Zenon
          <6>3. s \in Seq(Events)
            BY <6>1, <6>2 DEF Blocks
          <6>4. c = [work.block EXCEPT !.events = s]
            BY <5>1, <6>2
          <6>5. QED
            BY <6>1, <6>3, <6>4 DEF Blocks
        <5>5. QED
          BY Zenon, <4>1, <5>2, <5>3, <5>4 DEF Works
      <4>3. QED
        BY <3>2, <4>1, <4>2 DEF SupplyInv, Conserved
    <3>3. QED
      BY <2>4, <3>1, <3>2 DEF ApplyEvent
  <2>5. CASE PayRecipient
    <3>1. CASE Reject
      BY <2>1, <3>1
    <3>2. CASE /\ Payable(work.balances, Head(work.unpaid))
               /\ work' = [work EXCEPT
                     !.balances = Paid(@, Head(work.unpaid)),
                     !.unpaid = Tail(@)]
               /\ UNCHANGED <<blocks, balances, next_nonces, executed_events>>
      <4>1. work \in Works /\ Supply(work.balances) = Supply(InitialBalances)
            /\ work.unpaid # <<>>
        BY <2>5 DEF PayRecipient, SupplyInv
      <4>2. Head(work.unpaid) \in Payments /\ Tail(work.unpaid) \in Seq(Payments)
        BY <4>1 DEF Works
      <4>3. PICK b : b = Paid(work.balances, Head(work.unpaid))
        OBVIOUS
      <4>4. b \in [Accounts -> 0..U128Max] /\ Supply(b) = Supply(work.balances)
        BY Zenon, <3>2, <4>1, <4>2, <4>3, PaymentSupply DEF Works, Payments
      <4>5. work'.balances = b /\ work' \in Works
        BY Zenon, <3>2, <4>1, <4>2, <4>3, <4>4 DEF Works
      <4>6. QED
        BY <3>2, <4>1, <4>4, <4>5 DEF SupplyInv, Conserved
    <3>3. QED
      BY <2>5, <3>1, <3>2 DEF PayRecipient
  <2>6. CASE Install
    BY <2>6 DEF Install, SupplyInv, Conserved, Works
  <2>7. CASE UNCHANGED vars
    BY <2>7 DEF vars, SupplyInv, Conserved
  <2>8. QED
    BY <2>2, <2>3, <2>4, <2>5, <2>6, <2>7 DEF Next
<1>3. QED
  BY <1>1, <1>2, PTL DEF Spec

(* chain.rs: the balances of the chain always add up to the genesis supply,  *)
(* whatever blocks were applied or rejected half way, and no balance leaves  *)
(* the range of a u128.                                                      *)
THEOREM SupplyIsConserved == Spec => []Conserved
<1>1. SupplyInv => Conserved
  BY DEF SupplyInv
<1>2. QED
  BY <1>1, SupplyInvariant, PTL
=============================================================================
