--------------------------- MODULE MCEnvLifecycle ---------------------------
(* Instances of EnvLifecycle for TLC.                                      *)
EXTENDS EnvLifecycle, TLC

CONSTANTS w1, w2, e1, e2, u1, u2

TwoWorkers == {w1, w2}
OneWorker == {w1}
TwoEnvs == {e1, e2}
OneEnv == {e1}
TwoUsers == {u1, u2}
OneUser == {u1}

\* Handlers, IDs and users are interchangeable; the reaper is not.
Symmetry == Permutations({w1, w2}) \cup Permutations(Envs) \cup Permutations(Users)

\* A server on a database that earlier processes have filled: each record is
\* of a running environment, or of a creation that was cut short before or
\* after its container was started.
RestartInit ==
    /\ clock = 0
    /\ used = Envs /\ stored = Envs
    /\ \E half \in SUBSET Envs :
          /\ rec \in [Envs -> {[NewRecord(u) EXCEPT !.status = s, !.cid = i] :
                         u \in Users, s \in Statuses, i \in {"no_id", "id"}}]
          /\ \A e \in Envs : /\ rec[e].status = IF e \in half THEN "creating" ELSE "running"
                             /\ rec[e].cid = IF e \in half THEN "no_id" ELSE "id"
          /\ container \in [Envs -> {"none", "running"}]
          /\ \A e \in Envs \ half : container[e] = "running"
    /\ pc = [w \in Workers |-> "idle"]
    /\ target = [w \in Workers |-> NoEnv]
    /\ caller = [w \in Workers |-> NoUser]
    /\ local = [w \in Workers |-> Blank]
    /\ ctx = [p \in Workers \cup {Reaper} |-> "live"]
    /\ rpc = "idle" /\ queue = {} /\ known = {} /\ rcur = NoEnv /\ lap = "first"
    /\ faults = 0 /\ crashes = 0
    /\ acked = {} /\ door = [e \in Envs |-> "shut"]

RestartSpec == RestartInit /\ [][Next]_vars /\ WF_vars(ReaperStep)
=============================================================================
