---------------------------- MODULE NodeStorage ------------------------------
(***************************************************************************)
(* What a node keeps on disk and in which order it writes it: for a        *)
(* finalized block the archive, the state database, its JSON mirror, then  *)
(* the chain that RPC shows, then the finality certificate and the         *)
(* publication; and the append-only file of double-vote evidence.  The     *)
(* process may die between any two steps and is started again (main.rs,    *)
(* rpc.rs, state_store.rs, finality_store.rs, evidence_store.rs).          *)
(*                                                                         *)
(* Blocks, states and certificates are heights.  The database commit is    *)
(* atomic (module EmbeddedDb), and the archive is module Archive's         *)
(* business.  A line of certificates is written by several small writes.   *)
(***************************************************************************)
EXTENDS Naturals, Sequences, FiniteSets, SequencesExt

CONSTANTS
    Offences,    \* ids of double-vote evidence, all of registered validators
    MaxHeight,   \* bounds, for model checking
    MaxCrashes,
    MaxEvidence  \* how often evidence arrives

VARIABLES
    tip,          \* consensus.chain, in memory
    db, mirror,   \* state database and canonical-state.json; 0 = no state
    certificates, \* finality-certificates.jsonl
    cut,          \* its last line is incomplete
    rpcTip,       \* the chain that RPC answers from
    published,    \* heights sent with PublishBlock
    evidence,     \* double-vote-evidence.jsonl
    pc,           \* the next step of finalize_if_ready, "idle" or "down"
    seen,         \* history: the highest tip an RPC client has seen
    crashes, arrivals

files == <<db, mirror, certificates, cut>>

vars == <<tip, files, rpcTip, published, evidence, pc, seen,
          crashes, arrivals>>

Init ==
    /\ tip = 0
    /\ db = 0 /\ mirror = 0
    /\ certificates = <<>> /\ cut = FALSE
    /\ rpcTip = 0
    /\ published = {}
    /\ evidence = <<>>
    /\ pc = "idle"
    /\ seen = 0
    /\ crashes = 0 /\ arrivals = 0

-----------------------------------------------------------------------------
\* A precommit quorum, or a certificate of a sync answer: the block is applied
\* to the chain of the consensus, and install_finalized archives it.
Finalized ==
    /\ pc = "idle"
    /\ tip < MaxHeight
    /\ tip' = tip + 1
    /\ pc' = "db"
    /\ UNCHANGED <<files, rpcTip, published, evidence, seen, crashes,
                   arrivals>>

\* StateStore::commit: first the database ...
CommitDb ==
    /\ pc = "db"
    /\ db' = tip
    /\ pc' = "mirror"
    /\ UNCHANGED <<tip, mirror, certificates, cut, rpcTip, published,
                   evidence, seen, crashes, arrivals>>

\* ... then the mirror, by rename.
WriteMirror ==
    /\ pc = "mirror"
    /\ mirror' = tip
    /\ pc' = "rpc"
    /\ UNCHANGED <<tip, db, certificates, cut, rpcTip, published, evidence,
                   seen, crashes, arrivals>>


\* The write lock of install_finalized is released.
InstallRpc ==
    /\ pc = "rpc"
    /\ rpcTip' = tip
    /\ pc' = "certificate"
    /\ UNCHANGED <<tip, files, published, evidence, seen, crashes, arrivals>>

AppendCertificate ==
    /\ pc = "certificate"
    /\ certificates' = Append(certificates, tip)
    /\ pc' = "publish"
    /\ UNCHANGED <<tip, db, mirror, cut, rpcTip, published, evidence, seen,
                   crashes, arrivals>>

Publish ==
    /\ pc = "publish"
    /\ published' = published \cup {tip}
    /\ pc' = "idle"
    /\ UNCHANGED <<tip, files, rpcTip, evidence, seen, crashes, arrivals>>

\* A client reads the height while no install_finalized holds the lock.
ReadHeight ==
    /\ pc \notin {"down", "mirror", "rpc"}
    /\ seen < rpcTip
    /\ seen' = rpcTip
    /\ UNCHANGED <<tip, files, rpcTip, published, evidence, pc, crashes,
                   arrivals>>

\* EvidenceReceived and persist_and_publish_evidence: EvidenceStore::append
\* reads the whole file first.
EvidenceReceived(e) ==
    /\ pc = "idle"
    /\ arrivals < MaxEvidence
    /\ evidence' = IF Contains(evidence, e) THEN evidence
                                            ELSE Append(evidence, e)
    /\ arrivals' = arrivals + 1
    /\ UNCHANGED <<tip, files, rpcTip, published, pc, seen, crashes>>

-----------------------------------------------------------------------------
\* The process dies; in append it may leave a part of a line.
Crash ==
    /\ pc # "down"
    /\ crashes < MaxCrashes
    /\ crashes' = crashes + 1
    /\ cut' \in IF pc = "certificate" THEN BOOLEAN ELSE {cut}
    /\ pc' = "down"
    /\ UNCHANGED <<tip, db, mirror, certificates, rpcTip, published, evidence,
                   seen, arrivals>>

\* StateStore::load, in RpcServer::new.
Loaded == IF db > 0 THEN db ELSE mirror

\* The start-up of main.rs; a line that cannot be parsed ends it.
Start ==
    /\ pc = "down"
    /\ ~cut
    /\ tip' = Loaded
    /\ rpcTip' = Loaded
    /\ pc' = "idle"
    /\ UNCHANGED <<files, published, evidence, seen, crashes, arrivals>>

Next ==
    \/ Finalized \/ CommitDb \/ WriteMirror \/ InstallRpc \/ AppendCertificate
    \/ Publish \/ ReadHeight \/ Crash \/ Start
    \/ \E e \in Offences : EvidenceReceived(e)

Spec == Init /\ [][Next]_vars

-----------------------------------------------------------------------------
(* The height that RPC shows never goes back, also over crashes and starts:  *)
(* it is shown only after install_finalized has committed the state.         *)
NeverRollsBack == seen <= Loaded /\ (pc # "down" => seen <= rpcTip)

(* A block is announced only when this node, should it die now, comes back   *)
(* with the block and with its certificate.                                  *)
PublishedIsDurable ==
    \A h \in published : h <= Loaded /\ Contains(certificates, h)

(* A piece of evidence is stored once, although gossip repeats it and the    *)
(* ids are not kept in memory over a restart.                                *)
EvidenceOnce ==
    \A i, j \in DOMAIN evidence : evidence[i] = evidence[j] => i = j
=============================================================================
