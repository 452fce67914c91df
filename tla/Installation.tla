---------------------------- MODULE Installation -----------------------------
(***************************************************************************)
(* The files of a server node, installation.rs: their preparation when the *)
(* server starts, `node init --new`, `node clean`, with a crash between    *)
(* any two file operations and files that get lost.  The commands run      *)
(* while the server is stopped.                                            *)
(*                                                                         *)
(* A key is a number that stands for its identity, None when there is no   *)
(* file and Torn when its write was cut; a marker is the pair of the two   *)
(* identities.  The data directory holds the node key, the ledger and the  *)
(* marker; the validator key is outside, as in the paths of the module's   *)
(* tests.  The configuration files are created when they are missing and   *)
(* have no influence on the identity; they are left out.                   *)
(***************************************************************************)
EXTENDS Naturals

CONSTANTS
    None,
    Torn,
    MaxKeys,      \* bounds, for model checking
    MaxBackups,
    MaxLosses

VARIABLES
    validatorKey, \* validator.key
    nodeKey,      \* server.node.key
    ledger,       \* "absent", "empty" or "data"
    marker,       \* .ieum-initialized: None, Torn or a pair of keys
    backups,      \* {[id, validatorKey, nodeKey, marker, ledger]}
    pc,           \* the next step of a command, or "idle"
    server,       \* the pair of keys a running server uses, or None
    made,         \* the number of keys generated
    first,        \* the first pair a server of this installation used
    lost          \* the keys that got lost, and the number of losses

files == <<validatorKey, nodeKey, ledger, marker>>
vars == <<files, backups, pc, server, made, first, lost>>

Init ==
    /\ validatorKey = None /\ nodeKey = None
    /\ ledger = "absent" /\ marker = None
    /\ backups = {} /\ pc = "idle" /\ server = None
    /\ made = 0 /\ first = None
    /\ lost = [keys |-> {}, count |-> 0]

Idle == pc = "idle" /\ server = None

FirstOr(pair) == IF first = None THEN pair ELSE first

\* prepare_server_files with a marker: a missing ledger directory is made
\* again, other keys than the marker's stop the start.
StartMarked ==
    /\ Idle /\ marker # None
    /\ validatorKey # None /\ nodeKey # None
    /\ ledger' = IF ledger = "absent" THEN "empty" ELSE ledger
    /\ IF marker = <<validatorKey, nodeKey>>
       THEN /\ server' = marker
            /\ first' = FirstOr(marker)
       ELSE UNCHANGED <<server, first>>
    /\ UNCHANGED <<validatorKey, nodeKey, marker, backups, pc, made, lost>>

\* Without a marker, unless a ledger with data lacks a key.
BeginPrepare ==
    /\ Idle /\ marker = None
    /\ ~(ledger = "data" /\ (validatorKey = None \/ nodeKey = None))
    /\ ledger' = IF ledger = "absent" THEN "empty" ELSE ledger
    /\ pc' = "validator"
    /\ UNCHANGED <<validatorKey, nodeKey, marker, backups, server, made,
                   first, lost>>

\* The validator key: kept when it is there, an error when it is cut, else
\* created with create_new and written.
PrepareValidatorKey ==
    /\ \/ /\ pc = "validator" /\ validatorKey = None /\ made < MaxKeys
          /\ validatorKey' = Torn /\ pc' = "write validator"
          /\ UNCHANGED made
       \/ /\ pc = "write validator"
          /\ validatorKey' = made + 1 /\ made' = made + 1
          /\ pc' = "node"
       \/ /\ pc = "validator" /\ validatorKey # None
          /\ pc' = IF validatorKey = Torn THEN "idle" ELSE "node"
          /\ UNCHANGED <<validatorKey, made>>
    /\ UNCHANGED <<nodeKey, ledger, marker, backups, server, first, lost>>

\* load_or_create_node_key, in the same way.
PrepareNodeKey ==
    /\ \/ /\ pc = "node" /\ nodeKey = None /\ made < MaxKeys
          /\ nodeKey' = Torn /\ pc' = "write node"
          /\ UNCHANGED made
       \/ /\ pc = "write node"
          /\ nodeKey' = made + 1 /\ made' = made + 1
          /\ pc' = "marker"
       \/ /\ pc = "node" /\ nodeKey # None
          /\ pc' = IF nodeKey = Torn THEN "idle" ELSE "marker"
          /\ UNCHANGED <<nodeKey, made>>
    /\ UNCHANGED <<validatorKey, ledger, marker, backups, server, first, lost>>

\* write_marker; the server then goes on as with a marker.
CreateMarker ==
    /\ pc = "marker"
    /\ marker' = Torn
    /\ pc' = "write marker"
    /\ UNCHANGED <<validatorKey, nodeKey, ledger, backups, server, made,
                   first, lost>>

WriteMarker ==
    /\ pc = "write marker"
    /\ marker' = <<validatorKey, nodeKey>>
    /\ pc' = "idle"
    /\ UNCHANGED <<validatorKey, nodeKey, ledger, backups, server, made,
                   first, lost>>

-----------------------------------------------------------------------------
Saved(id, v) ==
    [id |-> id, validatorKey |-> v, nodeKey |-> nodeKey, marker |-> marker,
     ledger |-> ledger, first |-> first]

Fresh == CHOOSE i \in 1..(MaxBackups + 1) : \A b \in backups : b.id # i

\* init --new: the data directory is moved to a backup of a new name.
BackupData ==
    /\ Idle /\ Fresh <= MaxBackups
    /\ files # <<None, None, "absent", None>>
    /\ backups' = backups \cup {Saved(Fresh, None)}
    /\ nodeKey' = None /\ marker' = None /\ ledger' = "absent"
    /\ first' = None
    /\ pc' = "backup validator"
    /\ UNCHANGED <<validatorKey, server, made, lost>>

Newest == CHOOSE b \in backups : \A c \in backups : c.id <= b.id

\* Then the validator key.  The preparation of the new node follows, or a
\* start does it when the command died.
BackupValidator ==
    /\ pc = "backup validator"
    /\ backups' = (backups \ {Newest}) \cup
                      {[Newest EXCEPT !.validatorKey = validatorKey]}
    /\ validatorKey' = None
    /\ pc' = "idle"
    /\ UNCHANGED <<nodeKey, ledger, marker, server, made, first, lost>>

\* Its move fails: the data directory is moved back.
BackupValidatorFails ==
    /\ pc = "backup validator" /\ validatorKey # None
    /\ nodeKey' = Newest.nodeKey /\ marker' = Newest.marker
    /\ ledger' = Newest.ledger /\ first' = Newest.first
    /\ backups' = backups \ {Newest}
    /\ pc' = "idle"
    /\ UNCHANGED <<validatorKey, server, made, lost>>

\* clean: the ledger is moved away, then its directory is made.
Clean ==
    /\ Idle /\ Fresh <= MaxBackups
    /\ backups' = backups \cup
           {[id |-> Fresh, validatorKey |-> None, nodeKey |-> None,
             marker |-> None, ledger |-> ledger, first |-> None]}
    /\ ledger' = "absent"
    /\ pc' = "make ledger"
    /\ UNCHANGED <<validatorKey, nodeKey, marker, server, made, first, lost>>

MakeLedger ==
    /\ pc = "make ledger"
    /\ ledger' = "empty"
    /\ pc' = "idle"
    /\ UNCHANGED <<validatorKey, nodeKey, marker, backups, server, made,
                   first, lost>>

-----------------------------------------------------------------------------
\* The server writes its ledger.
Run ==
    /\ server # None
    /\ ledger' = "data"
    /\ UNCHANGED <<validatorKey, nodeKey, marker, backups, pc, server, made,
                   first, lost>>

\* The server stops, or the command dies where it is.
Crash ==
    /\ pc # "idle" \/ server # None
    /\ pc' = "idle" /\ server' = None
    /\ UNCHANGED <<files, backups, made, first, lost>>

Lost(keys) == [keys |-> lost.keys \cup keys, count |-> lost.count + 1]

\* A file gets lost.
Lose ==
    /\ Idle /\ lost.count < MaxLosses
    /\ \/ /\ validatorKey' = None /\ lost' = Lost({validatorKey})
          /\ UNCHANGED <<nodeKey, ledger, marker>>
       \/ /\ nodeKey' = None /\ lost' = Lost({nodeKey})
          /\ UNCHANGED <<validatorKey, ledger, marker>>
       \/ /\ marker' = None /\ lost' = Lost({})
          /\ UNCHANGED <<validatorKey, nodeKey, ledger>>
       \/ /\ ledger' = "absent" /\ lost' = Lost({})
          /\ UNCHANGED <<validatorKey, nodeKey, marker>>
    /\ UNCHANGED <<backups, pc, server, made, first>>

Next ==
    \/ StartMarked \/ BeginPrepare \/ PrepareValidatorKey \/ PrepareNodeKey
    \/ CreateMarker \/ WriteMarker
    \/ BackupData \/ BackupValidator \/ BackupValidatorFails
    \/ Clean \/ MakeLedger
    \/ Run \/ Crash \/ Lose

Spec == Init /\ [][Next]_vars

-----------------------------------------------------------------------------
(* A server that once ran never runs with another identity, unless `init     *)
(* --new` replaced it: not after a crash in a command, a failed backup or    *)
(* the loss of a file.                                                       *)
IdentityIsKept == server # None => server = first

(* No command loses a key: every key that was completely written is still in *)
(* place or in a backup, unless its file got lost.                           *)
KeysAreKept ==
    \A k \in 1..made :
        \/ k \in {validatorKey, nodeKey} \cup lost.keys
        \/ \E b \in backups : k \in {b.validatorKey, b.nodeKey}
=============================================================================
