-------------------------- MODULE EmbeddedDbProofs ---------------------------
(***************************************************************************)
(* The database implements the atomic store of KeyValueStore, for any keys *)
(* and values, any legacy image and any number of crashes.                 *)
(***************************************************************************)
EXTENDS EmbeddedDb, TLAPS

Rows == [Keys -> Values \cup {None}]

Writes == [Keys -> Values \cup {None, Unwritten}]

NoRows == [k \in Keys |-> None]

\* An open transaction holds the stored rows, with the writes applied whose
\* turn has come.
TxOnTheWay ==
    /\ tx \in [rows : Rows, left : SUBSET Keys, writes : Writes,
               generation : Nat]
    /\ tx.left \subseteq {k \in Keys : tx.writes[k] # Unwritten}
    /\ \A k \in Keys :
         tx.rows[k] = IF tx.writes[k] = Unwritten \/ k \in tx.left
                      THEN kv[k] ELSE tx.writes[k]

\* The inductive invariant: a commit applies the buffer and counts one
\* generation, and an import starts from an empty store.
TxInv ==
    /\ kv \in Rows /\ generation \in Nat /\ pending \in Writes
    /\ ~exists => pc = "closed" /\ kv = NoRows /\ generation = 0
    /\ legacyFile = "present" => Legacy # None
    /\ pc \in {"import", "import_tx"} =>
         kv = NoRows /\ generation = 0 /\ Legacy # None
    /\ pc \in {"import_tx", "commit_tx"} => TxOnTheWay
    /\ pc = "commit_tx" =>
         tx.writes = pending /\ tx.generation = generation + 1

(* BEGIN IMMEDIATE copies the rows and has all writes before it.             *)
LEMMA BeginTxFacts ==
    ASSUME NEW w \in Writes, NEW g \in Nat, kv \in Rows, BeginTx(w, g),
           UNCHANGED kv
    PROVE  TxOnTheWay' /\ tx'.writes = w /\ tx'.generation = g
<1>1. tx' = [rows |-> kv, writes |-> w, generation |-> g,
             left |-> {k \in Keys : w[k] # Unwritten}]
  BY DEF BeginTx
<1>2. QED
  BY <1>1 DEF TxOnTheWay

(* open, import_legacy, put, remove, commit, ROLLBACK and a crash keep the   *)
(* invariant.                                                                *)
LEMMA TxInvariant == Spec => []TxInv
<1>1. Init => TxInv
  BY DbAssumption DEF Init, TxInv, Rows, NoRows, Writes, NoWrites
<1>2. TxInv /\ [Next]_vars => TxInv'
  <2> SUFFICES ASSUME TxInv, [Next]_vars
               PROVE  TxInv'
    OBVIOUS
  <2>1. CASE Open
    BY <2>1 DEF Open, TxInv, TxOnTheWay
  <2>2. CASE ImportLegacy
    <3>1. [k \in Keys |-> IF Legacy[k] = None THEN Unwritten ELSE Legacy[k]]
            \in Writes
      BY <2>2, DbAssumption DEF ImportLegacy, TxInv, Writes
    <3>2. TxOnTheWay'
      BY <2>2, <3>1, BeginTxFacts, DbAssumption DEF ImportLegacy, TxInv
    <3>3. QED
      BY <2>2, <3>2 DEF ImportLegacy, TxInv
  <2>3. CASE RenameLegacy
    BY <2>3 DEF RenameLegacy, TxInv
  <2>4. CASE Commit
    <3>1. /\ TxOnTheWay' /\ tx'.writes = pending
          /\ tx'.generation = generation + 1
      BY <2>4, BeginTxFacts DEF Commit, TxInv
    <3>2. QED
      BY <2>4, <3>1 DEF Commit, TxInv
  <2>5. CASE CommitTx
    BY <2>5 DEF CommitTx, TxInv, TxOnTheWay, Writes, NoWrites
  <2>6. CASE Rollback
    BY <2>6 DEF Rollback, TxInv
  <2>7. CASE Crash
    BY <2>7 DEF Crash, TxInv, Writes, NoWrites
  <2>8. ASSUME NEW k \in Keys, RemoveKey(k)
        PROVE  TxInv'
    BY <2>8 DEF RemoveKey, TxInv, Writes
  <2>9. ASSUME NEW k \in Keys, ApplyPending(k)
        PROVE  TxInv'
    <3>1. TxOnTheWay'
      BY Zenon, <2>9 DEF ApplyPending, TxInv, TxOnTheWay, Rows, Writes
    <3>2. QED
      BY <2>9, <3>1 DEF ApplyPending, TxInv, TxOnTheWay
  <2>10. ASSUME NEW k \in Keys, NEW v \in Values, Put(k, v)
         PROVE  TxInv'
    BY <2>10 DEF Put, TxInv, Writes
  <2>11. CASE UNCHANGED vars
    BY <2>11 DEF vars, TxInv, TxOnTheWay
  <2>12. QED
    BY <2>1, <2>2, <2>3, <2>4, <2>5, <2>6, <2>7, <2>8, <2>9, <2>10, <2>11
       DEF Next
<1>3. QED
  BY <1>1, <1>2, PTL DEF Spec

(* embedded_db.rs implements the atomic store: the COMMIT of the transaction *)
(* is the one step in which all buffered writes and the generation become    *)
(* durable, the COMMIT of an import is the adoption of the legacy image, and *)
(* everything else leaves the durable rows alone.                            *)
THEOREM DbImplementsStore == Spec => StoreSpec
<1>1. Init => Store!KvInit
  BY DEF Init, Store!KvInit, Store!Empty, Store!NoWrites, Store!Unwritten,
         NoWrites, Unwritten
<1>2. TxInv /\ [Next]_vars => [Store!KvNext]_(Store!kvVars)
  <2> SUFFICES ASSUME TxInv, [Next]_vars
               PROVE  Store!KvNext \/ UNCHANGED <<kv, generation, pending>>
    BY DEF Store!kvVars
  <2>1. CASE \/ Open \/ ImportLegacy \/ RenameLegacy \/ Commit \/ Rollback
             \/ UNCHANGED vars
    BY <2>1 DEF Open, ImportLegacy, RenameLegacy, Commit, Rollback, vars
  <2>2. CASE CommitTx /\ pc = "commit_tx"
    <3>1. kv' = Store!Overridden(kv, pending)
      BY <2>2 DEF CommitTx, TxInv, TxOnTheWay, Rows, Store!Overridden,
                  Store!Unwritten, Unwritten
    <3>2. generation' = generation + 1 /\ pending' = Store!NoWrites
      BY <2>2 DEF CommitTx, TxInv, TxOnTheWay, NoWrites, Unwritten,
                  Store!NoWrites, Store!Unwritten
    <3>3. QED
      BY <3>1, <3>2 DEF Store!CommitBuffer, Store!KvNext
  <2>3. CASE CommitTx /\ pc = "import_tx"
    <3>1. Store!Adopt
      BY <2>3 DEF CommitTx, TxInv, TxOnTheWay, Rows, NoRows, Store!Adopt,
                  Store!Empty
    <3>2. QED
      BY <3>1 DEF Store!KvNext
  <2>4. CASE Crash
    BY <2>4 DEF Crash, NoWrites, Unwritten, Store!LoseBuffer,
                Store!NoWrites, Store!Unwritten, Store!KvNext
  <2>5. ASSUME NEW k \in Keys, RemoveKey(k)
        PROVE  Store!KvNext
    BY Zenon, <2>5 DEF RemoveKey, Store!Write, Store!KvNext
  <2>6. ASSUME NEW k \in Keys, ApplyPending(k)
        PROVE  UNCHANGED <<kv, generation, pending>>
    BY <2>6 DEF ApplyPending
  <2>7. ASSUME NEW k \in Keys, NEW v \in Values, Put(k, v)
        PROVE  Store!KvNext
    BY Zenon, <2>7 DEF Put, Store!Write, Store!KvNext
  <2>8. QED
    BY <2>1, <2>2, <2>3, <2>4, <2>5, <2>6, <2>7 DEF Next, CommitTx
<1>3. QED
  BY <1>1, <1>2, TxInvariant, PTL DEF Spec, StoreSpec, Store!KvSpec
=============================================================================
