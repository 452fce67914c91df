----------------------------- MODULE BftRestart -----------------------------
(***************************************************************************)
(* BftConsensus with nodes that end and start again.  The blocks survive   *)
(* in the state database; the round, the locks and the record of the votes *)
(* are fields of ConsensusRuntime only.  ConsensusWal can keep votes on    *)
(* disk, but main.rs neither writes nor reads it.                          *)
(***************************************************************************)
EXTENDS BftConsensus

\* The start-up of main.rs: ConsensusRuntime::with_signer on the stored
\* chain, with BftConsensus::new and start_round at the next height.
Restart(n) ==
    /\ own[n] = None
    /\ height' = [height EXCEPT ![n] = HeightOf[tip[n]] + 1]
    /\ round' = [round EXCEPT ![n] = 0]
    /\ phase' = [phase EXCEPT ![n] = "Propose"]
    /\ proposal' = [proposal EXCEPT ![n] = None]
    /\ votes' = [votes EXCEPT ![n] = {}]
    /\ vote_history' = [vote_history EXCEPT ![n] = {}]
    /\ locked_value' = [locked_value EXCEPT ![n] = None]
    /\ locked_round' = [locked_round EXCEPT ![n] = None]
    /\ valid_value' = [valid_value EXCEPT ![n] = None]
    /\ valid_round' = [valid_round EXCEPT ![n] = None]
    /\ pending' = [pending EXCEPT ![n] = None]
    /\ valid_block' = [valid_block EXCEPT ![n] = None]
    /\ exited' = exited \ {n}
    /\ UNCHANGED <<tip, chain, own, proposed, signed>>

RestartNext == Next \/ \E n \in Honest : Restart(n)

RestartSpec == Init /\ [][RestartNext]_vars

-----------------------------------------------------------------------------
(* What the documents promise of a node that was restarted: it never signs  *)
(* two different votes of one type in one round of a height.                *)
NoDoubleSignAfterRestart == NoEquivocation
=============================================================================
