------------------------------- MODULE Updater -------------------------------
(***************************************************************************)
(* The automatic update of updater.rs: the node checks the signed manifest *)
(* (on a timer, or when a peer announces a version), downloads the file    *)
(* and replaces its executable in steps, each of which may be the last     *)
(* before the process dies.  A service manager starts the node again.      *)
(*                                                                         *)
(* A file is a version, None when it does not exist, or Torn while it is   *)
(* written.  A version is a sequence of numbers.  Manifests and downloads  *)
(* that do not verify change nothing and are left out.                     *)
(***************************************************************************)
EXTENDS Naturals, Sequences

CONSTANTS
    Versions,    \* sequences of numbers
    First,       \* the version installed by hand
    None,
    Torn

VARIABLES
    current,    \* the executable
    next,       \* executable.new
    previous,   \* executable.previous
    running,    \* the version of the process, or None
    target,     \* the version it is installing
    pc,         \* the next step of stage_or_replace
    published,  \* the version of the manifest
    ran         \* the version that was started last, a history

vars == <<current, next, previous, running, target, pc, published, ran>>

Init ==
    /\ current = First /\ next = None /\ previous = None
    /\ running = First /\ target = None /\ pc = "idle"
    /\ published = First /\ ran = First

-----------------------------------------------------------------------------
Part(v, i) == IF i <= Len(v) THEN v[i] ELSE 0

\* is_newer: both filled up with zeros, in lexicographic order.
IsNewer(v, w) ==
    \E i \in 1..(Len(v) + Len(w)) :
        /\ Part(v, i) < Part(w, i)
        /\ \A j \in 1..(i - 1) : Part(v, j) = Part(w, j)

\* A release, or an older manifest that a cache still serves.
Publish(v) ==
    /\ published' = v
    /\ UNCHANGED <<current, next, previous, running, target, pc, ran>>


\* install_non_interactive up to fs::write of the .new file.
Check ==
    /\ running # None /\ pc = "idle"
    /\ IsNewer(running, published)
    /\ target' = published
    /\ next' = Torn
    /\ pc' = "write"
    /\ UNCHANGED <<current, previous, running, published, ran>>

WriteNext ==
    /\ pc = "write"
    /\ next' = target
    /\ pc' = "remove"
    /\ UNCHANGED <<current, previous, running, target, published, ran>>

RemovePrevious ==
    /\ pc = "remove"
    /\ previous' = None
    /\ pc' = "backup"
    /\ UNCHANGED <<current, next, running, target, published, ran>>

\* rename(current, previous).
BackupCurrent ==
    /\ pc = "backup"
    /\ previous' = current
    /\ current' = None
    /\ pc' = "swap"
    /\ UNCHANGED <<next, running, target, published, ran>>

\* rename(new, current); the main loop returns for the restart.
Swap ==
    /\ pc = "swap"
    /\ current' = next
    /\ next' = None
    /\ running' = None
    /\ pc' = "idle"
    /\ target' = None
    /\ UNCHANGED <<previous, published, ran>>


\* The second rename fails and the first is taken back.
SwapFails ==
    /\ pc = "swap"
    /\ current' = previous
    /\ previous' = None
    /\ pc' = "idle"
    /\ target' = None
    /\ UNCHANGED <<next, running, published, ran>>

\* The process dies at any step.
Crash ==
    /\ running # None
    /\ running' = None
    /\ pc' = "idle"
    /\ target' = None
    /\ UNCHANGED <<current, next, previous, published, ran>>

\* The service manager starts the executable.
Start ==
    /\ running = None
    /\ current \in Versions
    /\ running' = current
    /\ ran' = current
    /\ UNCHANGED <<current, next, previous, target, pc, published>>

Step ==
    Check \/ WriteNext \/ RemovePrevious \/ BackupCurrent \/ Swap

Next ==
    \/ \E v \in Versions : Publish(v)
    \/ Step
    \/ SwapFails
    \/ Crash
    \/ Start

Spec == Init /\ [][Next]_vars

\* Without crashes: the timer checks again, a rename that fails does not fail
\* for ever, and the service manager restarts.
UpdateNext ==
    \/ \E v \in Versions : Publish(v)
    \/ Step
    \/ SwapFails
    \/ Start

-----------------------------------------------------------------------------
(* Whatever the manifest says and wherever the process dies, a restart never *)
(* runs an older version than the process before it.                         *)
NeverDowngrades == [][~IsNewer(ran', ran)]_vars

(* Wherever the process dies, a complete executable is left, in place or as  *)
(* .previous, and what is in place is complete.                              *)
ExecutableKept ==
    /\ current \in Versions \/ previous \in Versions
    /\ current # Torn

(* A failed installation leaves the running version in place: the node that  *)
(* goes on running can be started again.                                     *)
RunningIsInstalled ==
    running # None /\ pc = "idle" => current = running

=============================================================================
