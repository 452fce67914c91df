---------------------------- MODULE ConsensusWal -----------------------------
(***************************************************************************)
(* The vote log of consensus_wal.rs: a validator records a vote on disk    *)
(* before it broadcasts it, and reads the log when it starts.  The process *)
(* may die between any two steps, also in the middle of a line.            *)
(*                                                                         *)
(* A slot stands for a height, a round and a vote type.  The line of a     *)
(* vote and its newline are two writes: a line may be cut, or complete and *)
(* without its newline, and then the next line is glued to it.             *)
(***************************************************************************)
EXTENDS Naturals, FiniteSets, TLAPS

CONSTANTS
    Slots,   \* height, round and vote type
    Hashes,  \* block hashes
    None

Votes == [slot : Slots, hash : Hashes]

ASSUME WalAssumption == None \notin Votes

VARIABLES
    lines,      \* the votes on the lines of the log that can be read
    tail,       \* how the log ends: "ended", "unended" or "broken"
    signed,     \* the votes known to the running process
    writing,    \* the vote that record_before_broadcast is writing, or None
    pc,         \* "idle", "write", "newline", "insert", or "down"
    broadcast   \* every vote that was ever sent

walVars == <<lines, tail, signed, writing, pc, broadcast>>

WalInit ==
    /\ lines = {}
    /\ tail = "ended"
    /\ signed = {}
    /\ writing = None
    /\ pc = "idle"
    /\ broadcast = {}

\* A vote for a slot that is already signed: the same vote is sent again, and
\* another one is an error.
Repeat(v) ==
    /\ pc = "idle"
    /\ v \in signed
    /\ broadcast' = broadcast \cup {v}
    /\ UNCHANGED <<lines, tail, signed, writing, pc>>

RecordSameHash(v) ==
    /\ pc = "idle"
    /\ v \notin signed
    /\ writing' = v
    /\ pc' = "write"
    /\ UNCHANGED <<lines, tail, signed, broadcast>>

\* record_before_broadcast for a slot that is not signed yet.
Record(v) ==
    /\ pc = "idle"
    /\ \A s \in signed : s.slot # v.slot
    /\ writing' = v
    /\ pc' = "write"
    /\ UNCHANGED <<lines, tail, signed, broadcast>>

\* The line, without its newline.  Glued to an unended line it makes the log
\* unreadable.
WriteLine ==
    /\ pc = "write"
    /\ tail' = IF tail = "ended" THEN "unended" ELSE "broken"
    /\ lines' = IF tail = "ended" THEN lines \cup {writing} ELSE lines
    /\ pc' = "newline"
    /\ UNCHANGED <<signed, writing, broadcast>>

WriteNewline ==
    /\ pc = "newline"
    /\ tail' = IF tail = "unended" THEN "ended" ELSE tail
    /\ pc' = "insert"
    /\ UNCHANGED <<lines, signed, writing, broadcast>>

\* sync_data returned; the vote is remembered and sent.
InsertAndSend ==
    /\ pc = "insert"
    /\ signed' = signed \cup {writing}
    /\ broadcast' = broadcast \cup {writing}
    /\ writing' = None
    /\ pc' = "idle"
    /\ UNCHANGED <<lines, tail>>

\* The process dies; in the middle of a line it leaves a part of it.
Crash ==
    /\ pc # "down"
    /\ tail' \in IF pc = "write" THEN {tail, "broken"} ELSE {tail}
    /\ signed' = {}
    /\ writing' = None
    /\ pc' = "down"
    /\ UNCHANGED <<lines, broadcast>>

\* open and reload: a line that cannot be parsed, or two votes for one slot,
\* is an error, and the validator does not start.
Open ==
    /\ pc = "down"
    /\ tail # "broken"
    /\ \A v, w \in lines : v.slot = w.slot => v = w
    /\ signed' = lines
    /\ pc' = "idle"
    /\ UNCHANGED <<lines, tail, writing, broadcast>>

WalNext ==
    \/ \E v \in Votes : Record(v) \/ Repeat(v)
    \/ WriteLine \/ WriteNewline \/ InsertAndSend \/ Crash \/ Open

WalSpec == WalInit /\ [][WalNext]_walVars

-----------------------------------------------------------------------------
(* consensus_wal.rs: the validator never sends votes for two different       *)
(* blocks in one slot, however often it dies and starts again.               *)
NeverSignsTwice == \A v, w \in broadcast : v.slot = w.slot => v = w

(* The inductive invariant: every vote that was sent is known to the running *)
(* process and, unless a line of the log is broken, is on a line; the log    *)
(* holds nothing but what the process knows and the vote in progress, which  *)
(* is for a slot that it has not signed.                                     *)
Recorded ==
    /\ tail \in {"ended", "unended", "broken"}
    /\ pc \in {"idle", "write", "newline", "insert", "down"}
    /\ lines \subseteq Votes /\ signed \subseteq Votes
    /\ broadcast \subseteq Votes
    /\ writing \in Votes \cup {None}
    /\ pc \in {"write", "newline", "insert"} <=> writing # None
    /\ \A v, w \in lines \cup signed \cup broadcast : v.slot = w.slot => v = w
    /\ tail # "broken" => broadcast \cup signed \subseteq lines
    /\ pc \in {"newline", "insert"} /\ tail # "broken" => writing \in lines
    /\ pc # "down" => /\ broadcast \subseteq signed
                      /\ lines \subseteq signed \cup {writing}
    /\ writing # None => \A v \in signed : v.slot # writing.slot

-----------------------------------------------------------------------------
(***************************************************************************)
(* A validator that keeps the vote log never sends contradicting votes,    *)
(* for any heights, rounds and blocks and any number of crashes.           *)
(***************************************************************************)
(* Everything that record_before_broadcast, open and a crash between their   *)
(* writes do keeps the relation between the log, the process and the wire.   *)
LEMMA RecordedInvariant == WalSpec => []Recorded
<1>1. WalInit => Recorded
  BY DEF WalInit, Recorded
<1>2. Recorded /\ [WalNext]_walVars => Recorded'
  <2> SUFFICES ASSUME Recorded, [WalNext]_walVars
               PROVE  Recorded'
    OBVIOUS
  <2>1. ASSUME NEW v \in Votes, Record(v)
        PROVE  Recorded'
    BY <2>1, WalAssumption DEF Record, Recorded
  <2>2. ASSUME NEW v \in Votes, Repeat(v)
        PROVE  Recorded'
    BY <2>2 DEF Repeat, Recorded
  <2>3. CASE WriteLine
    BY <2>3, WalAssumption DEF WriteLine, Recorded
  <2>4. CASE WriteNewline
    BY <2>4 DEF WriteNewline, Recorded
  <2>5. CASE InsertAndSend
    BY <2>5, WalAssumption DEF InsertAndSend, Recorded
  <2>6. CASE Crash
    BY <2>6 DEF Crash, Recorded
  <2>7. CASE Open
    BY <2>7 DEF Open, Recorded
  <2>8. CASE UNCHANGED walVars
    BY <2>8 DEF walVars, Recorded
  <2>9. QED
    BY <2>1, <2>2, <2>3, <2>4, <2>5, <2>6, <2>7, <2>8 DEF WalNext
<1>3. QED
  BY <1>1, <1>2, PTL DEF WalSpec

(* consensus_wal.rs: no two different blocks are ever voted for in one slot, *)
(* whatever crashes and torn lines happen.                                   *)
THEOREM WalPreventsEquivocation == WalSpec => []NeverSignsTwice
<1>1. Recorded => NeverSignsTwice
  BY DEF Recorded, NeverSignsTwice
<1>2. QED
  BY <1>1, RecordedInvariant, PTL
=============================================================================
