-------------------------- MODULE SnapshotDownload ---------------------------
(***************************************************************************)
(* The resumable download of snapshot_sync.rs: chunks checked against the  *)
(* manifest and written one by one, a progress file after each of them,    *)
(* crashes between the writes, and finish, which joins the chunk files.    *)
(*                                                                         *)
(* A chunk is its index and whether its bytes have the manifest's hash.    *)
(* atomic_write makes a file appear whole or not at all, so only its       *)
(* rename is a step; the temporary file it leaves behind is overwritten by *)
(* the next write and read by nobody.                                      *)
(***************************************************************************)
EXTENDS Naturals, FiniteSets

CONSTANTS
    ChunkCount,
    MaxCrashes,  \* bound on the crashes, for model checking
    None

VARIABLES
    progressFile,  \* resume.json: the set of received indices, or None
    chunkFiles,    \* indices whose chunk file exists
    received,      \* progress.received in memory
    writing,       \* the chunk that accept has written and not yet recorded
    status,        \* "closed", "opening", "open", "finished", "failed"
    arrived,       \* history: indices of good chunks that were accepted
    crashes

vars == <<progressFile, chunkFiles, received, writing, status, arrived,
          crashes>>

Indices == 0..ChunkCount - 1

Init ==
    /\ progressFile = None
    /\ chunkFiles = {}
    /\ received = {}
    /\ writing = None
    /\ status = "closed"
    /\ arrived = {}
    /\ crashes = 0

\* open, up to persist_progress.
Open ==
    /\ status = "closed"
    /\ received' = IF progressFile = None THEN {} ELSE progressFile
    /\ status' = "opening"
    /\ UNCHANGED <<progressFile, chunkFiles, writing, arrived, crashes>>

PersistOpened ==
    /\ status = "opening"
    /\ progressFile' = received
    /\ status' = "open"
    /\ UNCHANGED <<chunkFiles, received, writing, arrived, crashes>>

AcceptRecordsFirst(index, good) ==
    /\ status = "open" /\ writing = None
    /\ index \in Indices /\ good
    /\ progressFile' = progressFile \cup {index}
    /\ writing' = index
    /\ UNCHANGED <<chunkFiles, received, status, arrived, crashes>>

\* accept up to the rename of the chunk file.  A chunk of another snapshot, out
\* of range or with the wrong hash is refused and changes nothing.
Accept(index, good) ==
    /\ status = "open" /\ writing = None
    /\ index \in Indices /\ good
    /\ chunkFiles' = chunkFiles \cup {index}
    /\ writing' = index
    /\ UNCHANGED <<progressFile, received, status, arrived, crashes>>

\* The rest of accept: received.insert and persist_progress.
RecordChunk ==
    /\ writing # None
    /\ received' = received \cup {writing}
    /\ progressFile' = received'
    /\ arrived' = arrived \cup {writing}
    /\ writing' = None
    /\ UNCHANGED <<chunkFiles, status, crashes>>

Missing == {index \in Indices : index \notin received}

IsComplete == Cardinality(received) = ChunkCount

\* finish: every chunk file is read; an error leaves all as it is.
Finish ==
    /\ status = "open" /\ writing = None
    /\ IsComplete
    /\ status' = IF Indices \subseteq chunkFiles THEN "finished" ELSE "failed"
    /\ UNCHANGED <<progressFile, chunkFiles, received, writing, arrived,
                   crashes>>

Crash ==
    /\ status \in {"opening", "open"}
    /\ crashes < MaxCrashes
    /\ crashes' = crashes + 1
    /\ received' = {}
    /\ writing' = None
    /\ status' = "closed"
    /\ UNCHANGED <<progressFile, chunkFiles, arrived>>

Next ==
    \/ Open \/ PersistOpened \/ RecordChunk \/ Finish \/ Crash
    \/ \E index \in Indices, good \in BOOLEAN : Accept(index, good)

Spec == Init /\ [][Next]_vars

-----------------------------------------------------------------------------
(* A chunk that the progress file lists is on the disk, so a resumed         *)
(* download never skips a chunk it does not have, and finish never misses a  *)
(* file.                                                                     *)
ListedChunksExist ==
    /\ received \cup (IF progressFile = None THEN {} ELSE progressFile)
           \subseteq chunkFiles
    /\ status # "failed"

(* What accept has confirmed survives every later crash: it is not asked for *)
(* again.                                                                    *)
ProgressKept == status = "open" => arrived \subseteq received

(* A download that is resumed after each crash finishes.                     *)
Finishes == <>(status = "finished")
=============================================================================
