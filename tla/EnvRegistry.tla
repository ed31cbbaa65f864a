----------------------------- MODULE EnvRegistry -----------------------------
(***************************************************************************)
(* What the environment API promises about the identity of environments,   *)
(* without handlers, contexts, engine or store: an environment ID is       *)
(* registered once, becomes running at most once, and once it is gone no   *)
(* late write ever brings it back.  EnvLifecycle is shown to implement     *)
(* this specification for both stores.                                     *)
(***************************************************************************)

CONSTANT Envs               \* the environment IDs that uuid.New may produce

VARIABLE phase              \* phase[e]: what a store lookup of e can tell

Phases == {"unknown", "creating", "running", "gone"}

RegistryTypeOK == phase \in [Envs -> Phases]

RegistryInit == phase = [e \in Envs |-> "unknown"]

\* POST /v1/environments registers a fresh ID.
Register(e) == /\ phase[e] = "unknown"
               /\ phase' = [phase EXCEPT ![e] = "creating"]

\* The container is up: the record becomes usable by exec and file requests.
Activate(e) == /\ phase[e] = "creating"
               /\ phase' = [phase EXCEPT ![e] = "running"]

\* DELETE, a rolled back creation, the reaper, or the restart of a server
\* that keeps its records in memory (which retires several at once).
Retire(S) == /\ S # {}
             /\ \A e \in S : phase[e] \in {"creating", "running"}
             /\ phase' = [e \in Envs |-> IF e \in S THEN "gone" ELSE phase[e]]

RegistryNext == \/ \E e \in Envs : Register(e) \/ Activate(e)
                \/ \E S \in SUBSET Envs : Retire(S)

RegistrySpec == RegistryInit /\ [][RegistryNext]_phase
==============================================================================
