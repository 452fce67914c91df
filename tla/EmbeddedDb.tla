----------------------------- MODULE EmbeddedDb ------------------------------
(***************************************************************************)
(* The SQLite key-value store of embedded_db.rs: writes collected in       *)
(* memory, one BEGIN IMMEDIATE transaction per commit that applies them    *)
(* key by key, the import of the JSON image of an older version at the     *)
(* first start, and crashes between any two steps.                         *)
(*                                                                         *)
(* SQLite itself is external: a transaction works on a copy that COMMIT    *)
(* installs and that a crash or ROLLBACK discards.  Keys and values are    *)
(* opaque; Prefixed is the set of the keys a scan_prefix asks for.         *)
(***************************************************************************)
EXTENDS Naturals, Sequences, FiniteSets, SequencesExt

CONSTANTS
    Keys, Values, None,
    Prefixed,       \* the keys that start with the scanned prefix
    KeyOrder,       \* all keys, in the order of ORDER BY key
    Legacy,         \* the image in ieum-state.db, None if there is none
    LegacyGeneration,
    MayCrashIn,     \* the values of pc at which the process may die
    MaxGeneration,  \* bounds, for model checking
    MaxCrashes

ASSUME DbAssumption ==
    /\ Prefixed \subseteq Keys
    /\ KeyOrder \in Seq(Keys)
    /\ None \notin Values /\ "unwritten" \notin Values \cup {None}
    /\ Legacy # None => Legacy \in [Keys -> Values \cup {None}]
    /\ LegacyGeneration \in Nat

VARIABLES
    exists,      \* ieum-state.sqlite3 is there
    kv,          \* table kv: key -> value, None where there is no row
    generation,  \* metadata.generation
    legacyFile,  \* ieum-state.db: "present", "renamed" or "absent"
    pending,     \* EmbeddedDb.pending: a value, None (delete), or unwritten
    tx,          \* the open transaction's rows and the keys still to apply
    pc,          \* where open or commit stands
    crashes

vars == <<exists, kv, generation, legacyFile, pending, tx, pc, crashes>>

Unwritten == "unwritten"

NoWrites == [k \in Keys |-> Unwritten]

NoTx == [rows |-> <<>>, left |-> {}, writes |-> NoWrites, generation |-> 0]

Init ==
    /\ exists = FALSE
    /\ kv = [k \in Keys |-> None]
    /\ generation = 0
    /\ legacyFile = IF Legacy = None THEN "absent" ELSE "present"
    /\ pending = NoWrites
    /\ tx = NoTx
    /\ pc = "closed"
    /\ crashes = 0

\* BEGIN IMMEDIATE.
BeginTx(writes, version) ==
    tx' = [rows |-> kv, writes |-> writes, generation |-> version,
           left |-> {k \in Keys : writes[k] # Unwritten}]

\* open and initialize: the file, its tables and generation 0 appear.
Open ==
    /\ pc = "closed"
    /\ exists' = TRUE
    /\ pc' = IF ~exists /\ legacyFile = "present" THEN "import" ELSE "open"
    /\ UNCHANGED <<kv, generation, legacyFile, pending, tx, crashes>>

\* import_legacy, up to the transaction it runs on a clone of the handle.
ImportLegacy ==
    /\ pc = "import"
    /\ BeginTx([k \in Keys |-> IF Legacy[k] = None THEN Unwritten
                                                    ELSE Legacy[k]],
               LegacyGeneration)
    /\ pc' = "import_tx"
    /\ UNCHANGED <<exists, kv, generation, legacyFile, pending, crashes>>

\* The original is kept under the name .legacy-v1.json.
RenameLegacy ==
    /\ pc = "import_rename"
    /\ legacyFile' = "renamed"
    /\ pc' = "open"
    /\ UNCHANGED <<exists, kv, generation, pending, tx, crashes>>

Put(k, v) ==
    /\ pc = "open"
    /\ pending' = [pending EXCEPT ![k] = v]
    /\ UNCHANGED <<exists, kv, generation, legacyFile, tx, pc, crashes>>

RemoveKey(k) ==
    /\ pc = "open"
    /\ pending' = [pending EXCEPT ![k] = None]
    /\ UNCHANGED <<exists, kv, generation, legacyFile, tx, pc, crashes>>

Commit ==
    /\ pc = "open"
    /\ generation < MaxGeneration
    /\ BeginTx(pending, generation + 1)
    /\ pc' = "commit_tx"
    /\ UNCHANGED <<exists, kv, generation, legacyFile, pending, crashes>>

ApplyOutsideTx(k) ==
    /\ pc \in {"import_tx", "commit_tx"}
    /\ k \in tx.left
    /\ tx' = [tx EXCEPT !.rows[k] = tx.writes[k], !.left = tx.left \ {k}]
    /\ kv' = [kv EXCEPT ![k] = tx.writes[k]]
    /\ UNCHANGED <<exists, generation, legacyFile, pending, pc, crashes>>

\* One turn of the loop of apply_pending: an upsert or a delete.
ApplyPending(k) ==
    /\ pc \in {"import_tx", "commit_tx"}
    /\ k \in tx.left
    /\ tx' = [tx EXCEPT !.rows[k] = tx.writes[k], !.left = tx.left \ {k}]
    /\ UNCHANGED <<exists, kv, generation, legacyFile, pending, pc, crashes>>

\* The generation is the last row of the transaction; COMMIT; pending.clear.
\* The import clears the pending writes of its clone only.
CommitTx ==
    /\ pc \in {"import_tx", "commit_tx"}
    /\ tx.left = {}
    /\ kv' = tx.rows
    /\ generation' = tx.generation
    /\ tx' = NoTx
    /\ pending' = IF pc = "commit_tx" THEN NoWrites ELSE pending
    /\ pc' = IF pc = "commit_tx" THEN "open" ELSE "import_rename"
    /\ UNCHANGED <<exists, legacyFile, crashes>>

\* A statement fails: ROLLBACK, and the pending writes stay for another try.
\* The error of an import makes open fail, and the process ends.
Rollback ==
    /\ pc \in {"import_tx", "commit_tx"}
    /\ tx.left # {}
    /\ tx' = NoTx
    /\ pc' = IF pc = "commit_tx" THEN "open" ELSE "closed"
    /\ UNCHANGED <<exists, kv, generation, legacyFile, pending, crashes>>

Crash ==
    /\ pc \in MayCrashIn
    /\ crashes < MaxCrashes
    /\ crashes' = crashes + 1
    /\ pending' = NoWrites
    /\ tx' = NoTx
    /\ pc' = "closed"
    /\ UNCHANGED <<exists, kv, generation, legacyFile>>

Next ==
    \/ Open \/ ImportLegacy \/ RenameLegacy \/ Commit \/ CommitTx
    \/ Rollback \/ Crash
    \/ \E k \in Keys : RemoveKey(k) \/ ApplyPending(k)
    \/ \E k \in Keys, v \in Values : Put(k, v)

Spec == Init /\ [][Next]_vars

-----------------------------------------------------------------------------
\* get: a pending write, or else the stored row.
Get(k) == IF pending[k] # Unwritten THEN pending[k] ELSE kv[k]


\* scan_prefix: the stored rows, from which every pending key of the prefix is
\* taken out and, unless it is a delete, put back with its new value; sorted.
ScanPrefix ==
    LET Merged(rows, k) ==
            IF k \notin Prefixed \/ pending[k] = Unwritten THEN rows
            ELSE IF pending[k] = None THEN rows \ {<<k, kv[k]>>}
            ELSE (rows \ {<<k, kv[k]>>}) \cup {<<k, pending[k]>>}
        Stored == {<<k, kv[k]>> : k \in {p \in Prefixed : kv[p] # None}}
        Rows == FoldLeft(Merged, Stored, KeyOrder)
        Place(row) == CHOOSE i \in DOMAIN KeyOrder : KeyOrder[i] = row[1]
    IN  SetToSortSeq(Rows, LAMBDA a, b : Place(a) < Place(b))

-----------------------------------------------------------------------------

(* Every behaviour is one of an atomic store: whatever commit or crash does, *)
(* either all buffered writes and the new generation are durable or none.    *)
Store == INSTANCE KeyValueStore WITH durable <- kv, buffer <- pending

StoreSpec == Store!KvSpec
=============================================================================
