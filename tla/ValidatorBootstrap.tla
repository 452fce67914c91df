------------------------- MODULE ValidatorBootstrap --------------------------
(***************************************************************************)
(* How the servers of a new chain find their common validator set: the     *)
(* ValidatorRegistrationReceived handler of main.rs,                       *)
(* ConsensusRuntime::replace_bootstrap_validators, save_validators, and a  *)
(* restart, which loads the saved set.                                     *)
(*                                                                         *)
(* Servers are numbers in the order of their public keys.  A registration  *)
(* is the server it comes from; its signature is valid.                    *)
(***************************************************************************)
EXTENDS Naturals, FiniteSets

CONSTANTS
    Servers,        \* a set of numbers
    BootstrapSize,  \* 4
    Genesis,        \* Servers -> the validators of its first configuration
    MaxRestarts     \* bound, for model checking

VARIABLES
    registrations,  \* per server, the registrations it knows
    validators,     \* per server, the set its consensus runs with
    saved,          \* per server, config/validators.json
    saving,         \* servers between replace_bootstrap_validators and the save
    pending,        \* servers with a candidate block
    tip,            \* per server, the height of its chain: 0 or 1
    running,        \* servers whose process has not ended
    restarts

vars == <<registrations, validators, saved, saving, pending, tip, running,
          restarts>>

Init ==
    /\ registrations = [n \in Servers |-> {n}]
    /\ validators = Genesis
    /\ saved = Genesis
    /\ saving = {}
    /\ pending = {}
    /\ tip = [n \in Servers |-> 0]
    /\ running = Servers
    /\ restarts = 0

Working(n) == n \in running /\ n \notin saving

\* The first servers of a set, in the order of the BTreeMap.
First(S) == {n \in S : Cardinality({m \in S : m < n}) < BootstrapSize}

\* v0.19.6: only a configuration with too few validators was replaced.
SelectsSmallOnly(n, known) ==
    /\ Cardinality(known) >= BootstrapSize
    /\ tip[n] = 0
    /\ Cardinality(validators[n]) < BootstrapSize

\* The handler has a set to switch to.
Selects(n, known) ==
    /\ Cardinality(known) >= BootstrapSize
    /\ tip[n] = 0
    /\ First(known) # validators[n]

\* A registration that selects no other set.
Register(n, v) ==
    LET known == registrations[n] \cup {v}
    IN  /\ Working(n)
        /\ ~Selects(n, known)
        /\ registrations' = [registrations EXCEPT ![n] = known]
        /\ UNCHANGED <<validators, saved, saving, pending, tip, running,
                       restarts>>

\* One that does: replace_bootstrap_validators fails when a candidate is
\* pending, and the error ends the process.
SwitchSet(n, v) ==
    LET known == registrations[n] \cup {v}
    IN  /\ Working(n)
        /\ Selects(n, known)
        /\ registrations' = [registrations EXCEPT ![n] = known]
        /\ IF n \in pending
           THEN /\ running' = running \ {n}
                /\ UNCHANGED <<validators, saving>>
           ELSE /\ validators' = [validators EXCEPT ![n] = First(known)]
                /\ saving' = saving \cup {n}
                /\ UNCHANGED running
        /\ UNCHANGED <<saved, pending, tip, restarts>>

\* save_validators: a temporary file, renamed over the configuration.
Save(n) ==
    /\ n \in saving \cap running
    /\ saved' = [saved EXCEPT ![n] = validators[n]]
    /\ saving' = saving \ {n}
    /\ UNCHANGED <<registrations, validators, pending, tip, running,
                   restarts>>

\* A proposal of the first block arrives, is given up, or becomes final.  Only
\* a member of the set takes part, and one that is alone in it proposes, votes
\* and finalizes in one handler.
Propose(n) ==
    /\ Working(n) /\ tip[n] = 0 /\ n \notin pending
    /\ n \in validators[n] /\ validators[n] # {n}
    /\ pending' = pending \cup {n}
    /\ UNCHANGED <<registrations, validators, saved, saving, tip, running,
                   restarts>>

RoundChange(n) ==
    /\ Working(n) /\ n \in pending
    /\ pending' = pending \ {n}
    /\ UNCHANGED <<registrations, validators, saved, saving, tip, running,
                   restarts>>

Finalize(n) ==
    /\ Working(n)
    /\ n \in pending \/ (validators[n] = {n} /\ tip[n] = 0)
    /\ pending' = pending \ {n}
    /\ tip' = [tip EXCEPT ![n] = 1]
    /\ UNCHANGED <<registrations, validators, saved, saving, running,
                   restarts>>

\* The process ends, at any point, and starts again from its files.
Restart(n) ==
    /\ restarts < MaxRestarts
    /\ restarts' = restarts + 1
    /\ registrations' = [registrations EXCEPT ![n] = {n}]
    /\ validators' = [validators EXCEPT ![n] = saved[n]]
    /\ saving' = saving \ {n}
    /\ pending' = pending \ {n}
    /\ running' = running \cup {n}
    /\ UNCHANGED <<saved, tip>>

Next ==
    \/ \E n, v \in Servers : Register(n, v) \/ SwitchSet(n, v)
    \/ \E n \in Servers : Save(n) \/ Restart(n)
    \/ \E n \in Servers : Propose(n) \/ RoundChange(n) \/ Finalize(n)

Spec == Init /\ [][Next]_vars

-----------------------------------------------------------------------------
(* Servers that know the same registrations and have no block yet run with   *)
(* the same validators, in whatever order the registrations came and         *)
(* whatever their configuration files held.                                  *)
SameRegistrationsSameSet ==
    \A m, n \in running :
        /\ registrations[m] = registrations[n]
        /\ Cardinality(registrations[m]) >= BootstrapSize
        /\ tip[m] = 0 /\ tip[n] = 0
        => validators[m] = validators[n]

(* A block is finalized only by the set that a restart will load: the set    *)
(* behind the first block is never lost with the process.                    *)
FinalSetIsSaved ==
    \A n \in Servers : tip[n] = 1 => saved[n] = validators[n]
=============================================================================
