------------------------------- MODULE Archive -------------------------------
(***************************************************************************)
(* The block archive of archive.rs: an active file that grows by one       *)
(* finalized block at a time, monthly backups it rolls over into, state    *)
(* checkpoints written at every rollover, and the yearly compaction of     *)
(* old backups.  Every file operation is a step, and the process may crash *)
(* between any two of them.                                                *)
(*                                                                         *)
(* A block is its height, a checkpoint the height of the state it holds, a *)
(* backup file the set of its blocks (readers sort them by height).  The   *)
(* caller commits the state database after append_finalized returned and   *)
(* appends the block again when it crashed before that.                    *)
(***************************************************************************)
EXTENDS Naturals, Sequences, FiniteSets, SequencesExt

CONSTANTS
    Months,     \* the month of each block, a sequence that never decreases
    MaxActive,  \* how many blocks fit into max_active_bytes
    MayCrash,   \* the operations a crash may interrupt: "append", "compact"
    MaxCrashes, \* bound on the crashes, for model checking
    None

VARIABLES
    active,       \* blocks.jsonl, or None while the file does not exist
    period,       \* the file `period`, or None
    checkpoints,  \* heights of the complete checkpoints
    backups,      \* records with fields month, part, blocks
    leftovers,    \* months of the temporary files of compress_file
    annual,       \* the yearly files: year -> blocks
    stored,       \* the height of the state database
    pc,           \* the next step of the running operation
    doomed,       \* monthly files that the compaction has still to remove
    crashes       \* how often the process died

vars == <<active, period, checkpoints, backups, leftovers, annual, stored, pc,
          doomed, crashes>>

others == <<annual, stored, doomed, crashes>>

files == <<active, period, checkpoints, backups, leftovers, annual>>

Year(month) == month \div 12

-----------------------------------------------------------------------------
Init ==
    /\ active = None
    /\ period = None
    /\ checkpoints = {}
    /\ backups = {}
    /\ leftovers = {}
    /\ annual = <<>>
    /\ stored = 0
    /\ pc = "idle"
    /\ doomed = {}
    /\ crashes = 0

Following == stored + 1

ActiveBlocks == IF active = None THEN <<>> ELSE active

\* The month changed, or the block does not fit any more.
RollsOver ==
    \/ period # None /\ period # Months[Following]
    \/ Len(ActiveBlocks) + 1 > MaxActive

\* append_finalized up to its first write, for the block after the stored one.
BeginAppend ==
    /\ pc = "idle"
    /\ Following <= Len(Months)
    /\ pc' = IF RollsOver /\ active # None THEN "checkpoint" ELSE "append"
    /\ UNCHANGED <<files, stored, doomed, crashes>>

RolloverPeriod == IF period = None THEN Months[Following] ELSE period

RemoveActiveFirst ==
    /\ pc = "checkpoint"
    /\ active' = None
    /\ checkpoints' = checkpoints
    /\ pc' = "append"
    /\ UNCHANGED <<period, backups, leftovers, others>>

\* rollover: atomic_json of the state before the new block.
WriteCheckpoint ==
    /\ pc = "checkpoint"
    /\ checkpoints' = checkpoints \cup {stored}
    /\ pc' = "compress"
    /\ UNCHANGED <<active, period, backups, leftovers, others>>

\* compress_file writes a temporary file ...
CompressActive ==
    /\ pc = "compress"
    /\ leftovers' = leftovers \cup {RolloverPeriod}
    /\ pc' = "rename"
    /\ UNCHANGED <<active, period, checkpoints, backups, others>>

\* unique_backup_path.
FreePart(month) ==
    CHOOSE p \in 1..Cardinality(backups) + 1 :
        /\ \A b \in backups : b.month = month => b.part # p
        /\ \A q \in 1..p - 1 : \E b \in backups : b.month = month /\ b.part = q

\* ... and renames it to the first free name of the month.
RenameBackup ==
    /\ pc = "rename"
    /\ backups' = backups \cup {[month |-> RolloverPeriod,
                                 part |-> FreePart(RolloverPeriod),
                                 blocks |-> ToSet(active)]}
    /\ leftovers' = leftovers \ {RolloverPeriod}
    /\ pc' = "remove"
    /\ UNCHANGED <<active, period, checkpoints, others>>

RemoveActive ==
    /\ pc = "remove"
    /\ active' = None
    /\ pc' = "remove_period"
    /\ UNCHANGED <<period, checkpoints, backups, leftovers, others>>

RemovePeriod ==
    /\ pc = "remove_period"
    /\ period' = None
    /\ pc' = "append"
    /\ UNCHANGED <<active, checkpoints, backups, leftovers, others>>

AppendBlock ==
    /\ pc = "append"
    /\ active' = Append(ActiveBlocks, Following)
    /\ pc' = "write_period"
    /\ UNCHANGED <<period, checkpoints, backups, leftovers, others>>

WritePeriod ==
    /\ pc = "write_period"
    /\ period' = Months[Following]
    /\ pc' = "commit"
    /\ UNCHANGED <<active, checkpoints, backups, leftovers, others>>

\* install_finalized goes on to StateStore::commit.
CommitState ==
    /\ pc = "commit"
    /\ stored' = Following
    /\ pc' = "idle"
    /\ UNCHANGED <<files, doomed, crashes>>

-----------------------------------------------------------------------------
MonthlyFiles(year) == {b \in backups : Year(b.month) = year}

\* compact_old_backups for one year that is old enough: the monthly files are
\* copied into a new yearly file, which replaces the one there may be.  A
\* temporary file of that year, left by a crash, cannot be read.
WriteAnnual(year) ==
    /\ pc = "idle"
    /\ stored > 0 /\ year + 2 <= Year(Months[stored])
    /\ MonthlyFiles(year) # {}
    /\ \A month \in leftovers : Year(month) # year
    /\ annual' = [y \in DOMAIN annual \cup {year} |->
                     IF y # year THEN annual[y]
                     ELSE UNION {b.blocks : b \in MonthlyFiles(year)}]
    /\ doomed' = MonthlyFiles(year)
    /\ pc' = "compact"
    /\ UNCHANGED <<active, period, checkpoints, backups, leftovers, stored,
                   crashes>>

RemoveMonthly(b) ==
    /\ pc = "compact"
    /\ b \in doomed
    /\ backups' = backups \ {b}
    /\ doomed' = doomed \ {b}
    /\ pc' = IF doomed = {b} THEN "idle" ELSE "compact"
    /\ UNCHANGED <<active, period, checkpoints, leftovers, annual, stored,
                   crashes>>

\* The process dies and is started again; the files stay as they are.
Crash ==
    /\ pc # "idle"
    /\ (IF pc = "compact" THEN "compact" ELSE "append") \in MayCrash
    /\ crashes < MaxCrashes
    /\ crashes' = crashes + 1
    /\ pc' = "idle"
    /\ doomed' = {}
    /\ UNCHANGED <<files, stored>>

Next ==
    \/ BeginAppend \/ WriteCheckpoint \/ CompressActive \/ RenameBackup
    \/ RemoveActive \/ RemovePeriod \/ AppendBlock \/ WritePeriod \/ CommitState
    \/ \E month \in ToSet(Months) : WriteAnnual(Year(month))
    \/ \E b \in doomed : RemoveMonthly(b)
    \/ Crash

Spec == Init /\ [][Next]_vars

-----------------------------------------------------------------------------
Archived ==
    ToSet(ActiveBlocks) \cup UNION {b.blocks : b \in backups}
        \cup UNION {annual[y] : y \in DOMAIN annual}

(* Every block whose state was committed can be read from the active file,  *)
(* a monthly or a yearly backup, wherever rollover or compaction stands.    *)
EveryBlockKept == 1..stored \subseteq Archived

(* A block leaves the active file only after a checkpoint of a state that   *)
(* includes it: rollover writes the checkpoint first.                       *)
CheckpointCovers ==
    \A h \in 1..stored :
        h \notin ToSet(ActiveBlocks) => \E c \in checkpoints : h <= c

(* The active file never exceeds max_active_bytes, also when a crash makes  *)
(* append_finalized write the same block twice.                             *)
ActiveBounded == Len(ActiveBlocks) <= MaxActive
=============================================================================
