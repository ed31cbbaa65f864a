-------------------------------- MODULE Calls --------------------------------
(***************************************************************************)
(* The calls a request handler makes into the Docker engine and the store, *)
(* as Snapshots and Skills use them.  A handler passes its request's       *)
(* context to every call; the client may end that context at any time.     *)
(***************************************************************************)
EXTENDS Naturals

CONSTANTS
    Workers,       \* concurrent request handlers
    Store,         \* which store: "sql" or "memory"
    MaxFaults      \* bound: failed calls of the engine and the database

ASSUME CallsAssumption ==
    /\ Store \in {"sql", "memory"}
    /\ MaxFaults \in Nat

VARIABLES
    ctx,           \* the context of a handler's request, "live" or "done"
    faults         \* failed calls so far

Outcomes == {"ok", "failed", "lost"}
Contexts == {"live", "done"}

\* A call of handler w is "ok", "failed" (no effect) or "lost" (an effect but
\* an error, the context having ended or the connection broken in mid-call);
\* c is the context after it.
Call(w, out, c) ==
    \/ ctx[w] = "live" /\ out = "ok" /\ c = "live" /\ UNCHANGED faults
    \/ ctx[w] = "done" /\ out = "failed" /\ c = "done" /\ UNCHANGED faults
    \/ ctx[w] = "live" /\ out = "lost" /\ c = "done" /\ UNCHANGED faults
    \/ /\ ctx[w] = "live" /\ out \in {"failed", "lost"} /\ c = "live"
       /\ faults < MaxFaults
       /\ faults' = faults + 1

\* MemoryStore neither fails nor looks at the context.
StoreCall(w, out, c) == IF Store = "sql"
                        THEN Call(w, out, c)
                        ELSE out = "ok" /\ c = ctx[w] /\ UNCHANGED faults
=============================================================================
