---------------------------- MODULE KeyValueStore ----------------------------
(***************************************************************************)
(* What embedded_db.rs promises: writes are buffered, a commit makes the   *)
(* whole buffer durable and counts one generation in a single step, and a  *)
(* lost process takes only the buffer with it.                             *)
(***************************************************************************)
EXTENDS Naturals

CONSTANTS Keys, Values, None

VARIABLES durable, generation, buffer

kvVars == <<durable, generation, buffer>>

Unwritten == "unwritten"

Empty == [k \in Keys |-> None]

NoWrites == [k \in Keys |-> Unwritten]

Overridden(base, writes) ==
    [k \in Keys |-> IF writes[k] = Unwritten THEN base[k] ELSE writes[k]]

KvInit ==
    /\ durable = Empty
    /\ generation = 0
    /\ buffer = NoWrites

Write(k, v) ==
    /\ buffer' = [buffer EXCEPT ![k] = v]
    /\ UNCHANGED <<durable, generation>>

CommitBuffer ==
    /\ durable' = Overridden(durable, buffer)
    /\ generation' = generation + 1
    /\ buffer' = NoWrites

\* The image of an older version arrives in one step, with its generation.
Adopt ==
    /\ durable = Empty /\ generation = 0
    /\ durable' \in [Keys -> Values \cup {None}]
    /\ generation' \in Nat
    /\ UNCHANGED buffer

LoseBuffer ==
    /\ buffer' = NoWrites
    /\ UNCHANGED <<durable, generation>>

KvNext ==
    \/ \E k \in Keys, v \in Values \cup {None} : Write(k, v)
    \/ CommitBuffer \/ Adopt \/ LoseBuffer

KvSpec == KvInit /\ [][KvNext]_kvVars
=============================================================================
