---------------------------- MODULE EnvLifecycle ----------------------------
(***************************************************************************)
(* The life of environments in the HaaS server: the HTTP handlers that     *)
(* create, use and destroy an environment, the reaper goroutine, the store *)
(* that keeps the records and the Docker engine that keeps the containers. *)
(*                                                                         *)
(* Every call into the store or the engine is a step of its own, so that   *)
(* handlers, the reaper and the restarts of the server interleave between  *)
(* them.  A handler owns a context that its client may cancel; the reaper  *)
(* owns the 30 s context of one reap cycle.  Store chooses the store:      *)
(* SQLStore hands out copies of its rows and honours the context;          *)
(* MemoryStore hands out pointers to its own objects, ignores the context, *)
(* never fails, and is empty again after a restart.                        *)
(*                                                                         *)
(* The container ID of an environment is "no_id" until the handler has it  *)
(* ("" in the code, as is the user ID that "no_user" stands for);          *)
(* one container exists per environment (its name is "haas-" + ID).        *)
(***************************************************************************)
EXTENDS Naturals

CONSTANTS
    Envs,          \* environment IDs
    NoEnv,         \* stands for the target of an idle handler or reaper
    Users,         \* effective users, as auth.Middleware puts in the context
    Workers,       \* concurrent request handlers
    Reaper,        \* the reaper goroutine
    Store,         \* which store: "sql" or "memory"
    IdleTimeout,   \* config IdleTimeout, in clock units
    MaxLifetime,   \* config MaxLifetime, in clock units
    MaxClock,      \* bound: the clock stops here
    MaxFaults,     \* bound: failures of the engine, the database or a container
    MaxCrashes     \* bound: restarts of the server

ASSUME LifecycleAssumption ==
    /\ NoEnv \notin Envs
    /\ Reaper \notin Workers
    /\ "no_user" \notin Users
    /\ Store \in {"sql", "memory"}
    /\ IdleTimeout \in Nat
    /\ MaxLifetime \in Nat
    /\ MaxClock \in Nat
    /\ MaxFaults \in Nat
    /\ MaxCrashes \in Nat

VARIABLES
    clock,         \* time.Now()
    used,          \* IDs drawn so far
    stored,        \* IDs that have a record in the store
    rec,           \* the record of an ID (for MemoryStore: the shared object)
    container,     \* the Docker container of an ID
    pc,            \* where a handler is: the call it makes next
    target,        \* the environment a handler works on
    caller,        \* the effective user of a handler's request
    local,         \* a handler's private copy of the row (SQLStore only)
    ctx,           \* the contexts of the handlers and of the reap cycle
    rpc,           \* where the reaper is
    queue,         \* what is left of the cycle's ListExpired result
    known,         \* the IDs listed with a container ID (SQLStore copies)
    rcur,          \* the environment being reaped
    lap,           \* "first" until the cycle has dealt with an environment
    faults,        \* failures so far
    crashes,       \* restarts so far
    acked,         \* history: creations answered with status "running", and what
                   \*    became of the Update before the answer
    door           \* history: the first event that could orphan a container

storeVars == <<used, stored, rec>>
workerVars == <<pc, target, caller, local>>
reaperVars == <<rpc, queue, known, rcur, lap>>
failureVars == <<ctx, faults>>
historyVars == <<acked, door>>
vars == <<clock, storeVars, container, workerVars, failureVars,
          reaperVars, crashes, historyVars>>

Persistent == Store = "sql"
NoUser == "no_user"    \* userID "": the admin bypass of Get and Delete
Statuses == {"creating", "running"}     \* the ones the server ever assigns
Live == {"created", "running", "exited"}

\* The ways to lose a container: someone gave the environment up without its
\* container ID; StopContainer failed and left a container; a restart wiped
\* the record from memory.
Doors == {"blind", "stop_failed", "wiped"}
Opened(S, d) == [e \in Envs |-> IF e \in S /\ door[e] = "shut" THEN d ELSE door[e]]

EnvRecord == [user : Users \cup {NoUser}, status : Statuses, cid : {"no_id", "id"},
              created : Nat, lastUsed : Nat, expires : Nat]

Blank == [user |-> NoUser, status |-> "creating", cid |-> "no_id",
          created |-> 0, lastUsed |-> 0, expires |-> 0]

WorkerPCs == {"idle", "create_container", "start_container", "undo_start",
              "undo_create", "mark_running", "destroy_stop", "destroy_delete",
              "exec_call", "file_call", "touch", "ws_call", "ws_touch", "ws_stream"}

Init ==
    /\ clock = 0
    /\ used = {} /\ stored = {}
    /\ rec = [e \in Envs |-> Blank]
    /\ container = [e \in Envs |-> "none"]
    /\ pc = [w \in Workers |-> "idle"]
    /\ target = [w \in Workers |-> NoEnv]
    /\ caller = [w \in Workers |-> NoUser]
    /\ local = [w \in Workers |-> Blank]
    /\ ctx = [p \in Workers \cup {Reaper} |-> "live"]
    /\ rpc = "idle" /\ queue = {} /\ known = {} /\ rcur = NoEnv /\ lap = "first"
    /\ faults = 0 /\ crashes = 0
    /\ acked = {} /\ door = [e \in Envs |-> "shut"]

-----------------------------------------------------------------------------
(* Contexts, and the outcome of a call that runs under one.                *)

\* A client may drop its request at any time, except that a hijacked
\* WebSocket connection no longer cancels r.Context().  The 30 s of a reap
\* cycle are enough for its first container (StopContainer grants it 10 s).
MayCancel(p) == IF p = Reaper THEN rpc # "idle" /\ lap = "later"
                ELSE pc[p] \notin {"idle", "ws_touch", "ws_stream"}

\* Under context p a call succeeds ("ok"), has no effect and returns an error
\* ("failed"), or takes effect although its caller gets an error ("lost": the
\* context ended or the connection broke in mid-call); c is p's context after.
Call(p, out, c) ==
    \/ /\ ctx[p] = "live" /\ out = "ok" /\ c = "live"
       /\ UNCHANGED faults
    \/ /\ ctx[p] = "done" /\ out = "failed" /\ c = "done"
       /\ UNCHANGED faults
    \/ /\ ctx[p] = "live" /\ out \in {"failed", "lost"} /\ c = "live"
       /\ faults < MaxFaults
       /\ faults' = faults + 1
    \/ /\ ctx[p] = "live" /\ out = "lost" /\ c = "done"
       /\ MayCancel(p)
       /\ UNCHANGED faults

\* A store call: database/sql honours the context, the maps of MemoryStore
\* neither look at it nor fail.
StoreCall(p, out, c) == IF Persistent
                        THEN Call(p, out, c)
                        ELSE out = "ok" /\ c = ctx[p] /\ UNCHANGED faults

Outcomes == {"ok", "failed", "lost"}
Contexts == {"live", "done"}

\* The client goes away, or the 30 s of the reap cycle are over.
CancelContext(p) ==
    /\ ctx[p] = "live"
    /\ MayCancel(p)
    /\ ctx' = [ctx EXCEPT ![p] = "done"]
    /\ UNCHANGED <<clock, storeVars, container, workerVars, reaperVars,
                   faults, crashes, historyVars>>

-----------------------------------------------------------------------------
(* The store.                                                              *)

\* Wrong variants of some definitions ("Mutant...") stand before the
\* definitions they vary; each violates a property below.

\* Mutant: the owner of a record is not looked at.
MutantVisible(u, e) == e \in stored

\* Get and the WHERE clause of Delete: another user's record is not found.
Visible(u, e) == e \in stored /\ (u = NoUser \/ rec[e].user = u)

\* The *domain.Environment a handler holds: its own copy of a row, or the
\* very object in MemoryStore's map.
EnvOf(w) == IF Persistent THEN local[w] ELSE rec[target[w]]

\* The handler assigns to fields of that object.
Assign(w, r) == IF Persistent
                THEN local' = [local EXCEPT ![w] = r] /\ UNCHANGED rec
                ELSE rec' = [rec EXCEPT ![target[w]] = r] /\ UNCHANGED local

\* Mutant: an update renews the expiry.
MutantUpdatedRenews(e, r, out) ==
    IF e \in stored
    THEN [rec EXCEPT ![e] = [r EXCEPT !.expires = clock + MaxLifetime]] ELSE rec

\* store.Update(env) with env = r.
Updated(e, r, out) ==
    IF ~Persistent THEN [rec EXCEPT ![e] = r]
    ELSE IF out # "failed" /\ e \in stored /\ rec[e].user = r.user
         THEN [rec EXCEPT ![e] = [user |-> rec[e].user, status |-> r.status, cid |-> r.cid,
                                  created |-> rec[e].created, lastUsed |-> r.lastUsed,
                                  expires |-> r.expires]]
         ELSE rec

\* store.Delete(id, userID).
Deleted(u, e, out) == IF out # "failed" /\ Visible(u, e) THEN stored \ {e} ELSE stored

\* Mutant: >= in the idle condition.
MutantIdleExpired(r) == clock >= r.lastUsed + IdleTimeout

\* The two conditions of ListExpired.
IdleExpired(r) == clock > r.lastUsed + IdleTimeout
LifetimeExpired(r) == clock > r.expires
ListExpired == {e \in stored : IdleExpired(rec[e]) \/ LifetimeExpired(rec[e])}

-----------------------------------------------------------------------------
(* The engine.                                                             *)

\* ContainerStop then ContainerRemove: an error may leave the container
\* stopped but not removed.
StopResults(s, out) ==
    CASE s \notin Live   -> {s}
      [] s \in Live /\ out = "ok" -> {"removed"}
      [] s \in Live /\ out = "lost" ->
             {"removed", IF s = "running" THEN "exited" ELSE s}
      [] s \in Live /\ out = "failed" -> {s}

StopContainer(p, e, c) ==
    \E out \in Outcomes :
        /\ Call(p, out, c)
        /\ \E s \in StopResults(container[e], out) :
              /\ container' = [container EXCEPT ![e] = s]
              /\ door' = IF s \in Live THEN Opened({e}, "stop_failed") ELSE door

\* "if env.ContainerID != """: without an ID nothing is stopped.
StopKnown(p, e, cid, c) ==
    IF cid # "no_id"
    THEN StopContainer(p, e, c)
    ELSE /\ door' = Opened({e}, "blind")
         /\ c = ctx[p]
         /\ UNCHANGED <<container, faults>>

\* A container is OOM-killed, stopped or removed behind the server's back.
ContainerDies(e) ==
    /\ container[e] \in Live
    /\ faults < MaxFaults
    /\ faults' = faults + 1
    /\ \E s \in {"exited", "removed"} \ {container[e]} :
          /\ s = "exited" => container[e] = "running"
          /\ container' = [container EXCEPT ![e] = s]
    /\ UNCHANGED <<clock, storeVars, workerVars, ctx, reaperVars, crashes, historyVars>>

-----------------------------------------------------------------------------
(* Handlers.                                                               *)

Goto(w, l, c) == /\ pc' = [pc EXCEPT ![w] = l]
                 /\ ctx' = [ctx EXCEPT ![w] = c]
                 /\ UNCHANGED <<target, caller>>

Return(w) == /\ pc' = [pc EXCEPT ![w] = "idle"]
             /\ target' = [target EXCEPT ![w] = NoEnv]
             /\ caller' = [caller EXCEPT ![w] = NoUser]
             /\ local' = [local EXCEPT ![w] = Blank]
             /\ ctx' = [ctx EXCEPT ![w] = "live"]

\* A request of u for e holds the record r it has read or made.
Begin(w, l, u, e, r) == /\ pc' = [pc EXCEPT ![w] = l]
                        /\ target' = [target EXCEPT ![w] = e]
                        /\ caller' = [caller EXCEPT ![w] = u]
                        /\ local' = [local EXCEPT ![w] = IF Persistent THEN r ELSE Blank]
                        /\ UNCHANGED ctx

\* Mutant: a status that the handlers do not know.
MutantNewRecord(u) ==
    [user |-> u, status |-> "stopped", cid |-> "no_id", created |-> clock,
     lastUsed |-> clock, expires |-> clock + MaxLifetime]

NewRecord(u) == [user |-> u, status |-> "creating", cid |-> "no_id", created |-> clock,
                 lastUsed |-> clock, expires |-> clock + MaxLifetime]

\* CreateEnvironment up to store.Create.  A request that validation rejects
\* and an insert that fails leave no trace; an insert whose answer is lost
\* leaves a record that no handler cares for.
CreateEnvironment(w, u, e) ==
    /\ pc[w] = "idle"
    /\ e \notin used
    /\ used' = used \cup {e}
    /\ stored' = stored \cup {e}
    /\ rec' = [rec EXCEPT ![e] = NewRecord(u)]
    /\ \/ Begin(w, "create_container", u, e, NewRecord(u))
       \/ Persistent /\ UNCHANGED <<workerVars, ctx>>
    /\ UNCHANGED <<clock, container, reaperVars, faults, crashes, historyVars>>

\* Mutant: the container ID is not kept.
MutantCreateContainer(w) ==
    /\ pc[w] = "create_container"
    /\ Call(w, "ok", "live")
    /\ container' = [container EXCEPT ![target[w]] = "created"]
    /\ Goto(w, "start_container", "live")
    /\ UNCHANGED <<clock, storeVars, local, reaperVars, crashes, historyVars>>

\* engine.CreateContainer; on success env.ContainerID is set.
CreateContainer(w) ==
    LET e == target[w] IN
    /\ pc[w] = "create_container"
    /\ \E out \in Outcomes, c \in Contexts :
          /\ Call(w, out, c)
          /\ container' = IF out = "failed" THEN container
                          ELSE [container EXCEPT ![e] = "created"]
          /\ \/ /\ out = "ok"
                /\ Goto(w, "start_container", c)
                /\ Assign(w, [EnvOf(w) EXCEPT !.cid = "id"])
                /\ UNCHANGED door
             \/ /\ out # "ok"
                /\ Goto(w, "undo_create", c)
                /\ door' = IF out = "lost" THEN Opened({e}, "blind") ELSE door
                /\ UNCHANGED <<rec, local>>
    /\ UNCHANGED <<clock, used, stored, reaperVars, crashes, acked>>

\* engine.StartContainer: there must still be a container to start.
StartContainer(w) ==
    LET e == target[w] IN
    /\ pc[w] = "start_container"
    /\ \E out \in Outcomes, c \in Contexts :
          /\ Call(w, out, c)
          /\ container' = IF out # "failed" /\ container[e] = "created"
                          THEN [container EXCEPT ![e] = "running"] ELSE container
          /\ Goto(w, IF out = "ok" /\ container[e] = "created"
                     THEN "mark_running" ELSE "undo_start", c)
    /\ UNCHANGED <<clock, storeVars, local, reaperVars, crashes, historyVars>>

\* Mutant: a failed start is not rolled back.
MutantUndoStart(w) ==
    /\ pc[w] = "undo_start"
    /\ Goto(w, "undo_create", ctx[w])
    /\ UNCHANGED <<clock, storeVars, container, local, reaperVars, faults, crashes,
                   historyVars>>

\* Start failed: best-effort StopContainer.
UndoStart(w) ==
    /\ pc[w] = "undo_start"
    /\ \E c \in Contexts : StopContainer(w, target[w], c) /\ Goto(w, "undo_create", c)
    /\ UNCHANGED <<clock, storeVars, local, reaperVars, crashes, acked>>

\* Creation failed: store.Delete, then the error response.
UndoCreate(w) ==
    /\ pc[w] = "undo_create"
    /\ \E out \in Outcomes, c \in Contexts :
          /\ StoreCall(w, out, c)
          /\ stored' = Deleted(caller[w], target[w], out)
    /\ Return(w)
    /\ UNCHANGED <<clock, used, rec, container, reaperVars, crashes, historyVars>>

\* Mutant: the last Update of a creation is an upsert.
MutantMarkRunningUpserts(w) ==
    /\ pc[w] = "mark_running"
    /\ stored' = stored \cup {target[w]}
    /\ rec' = [rec EXCEPT ![target[w]].status = "running"]
    /\ Return(w)
    /\ acked' = acked \cup {[env |-> target[w], update |-> "ok"]}
    /\ UNCHANGED <<clock, used, container, reaperVars, faults, crashes, door>>

\* Skills injected (best effort), Status = running, store.Update whose error
\* is only logged, and the 201 response, which a waiting client receives.
MarkRunning(w) ==
    LET e == target[w] IN
    /\ pc[w] = "mark_running"
    /\ \E out \in Outcomes, c \in Contexts :
          /\ StoreCall(w, out, c)
          /\ rec' = Updated(e, [EnvOf(w) EXCEPT !.status = "running"], out)
          /\ acked' = IF c = "live" THEN acked \cup {[env |-> e, update |-> out]} ELSE acked
    /\ Return(w)
    /\ UNCHANGED <<clock, used, stored, container, reaperVars, crashes, door>>

\* The store.Get that opens every other request.  If it finds nothing, or
\* fails, the handler answers 404 or 500 and nothing has changed.
Lookup(w, l, u, e) ==
    /\ pc[w] = "idle"
    /\ Visible(u, e)
    /\ Begin(w, l, u, e, rec[e])
    /\ UNCHANGED <<clock, storeVars, container, reaperVars, faults, crashes, historyVars>>

DestroyEnvironment(w, u, e) == Lookup(w, "destroy_stop", u, e)

DestroyStop(w) ==
    /\ pc[w] = "destroy_stop"
    /\ \E c \in Contexts : /\ StopKnown(w, target[w], EnvOf(w).cid, c)
                           /\ Goto(w, "destroy_delete", c)
    /\ UNCHANGED <<clock, storeVars, local, reaperVars, crashes, acked>>

DestroyDelete(w) ==
    /\ pc[w] = "destroy_delete"
    /\ \E out \in Outcomes, c \in Contexts :
          /\ StoreCall(w, out, c)
          /\ stored' = Deleted(caller[w], target[w], out)
    /\ Return(w)
    /\ UNCHANGED <<clock, used, rec, container, reaperVars, crashes, historyVars>>

\* Mutant: a handler does not look at the status.
MutantLookupRunning(w, l, u, e) == Lookup(w, l, u, e)

\* Get and "Status != running" of the exec, file and WebSocket handlers.
LookupRunning(w, l, u, e) == rec[e].status = "running" /\ Lookup(w, l, u, e)

PrepareExec(w, u, e) == LookupRunning(w, "exec_call", u, e)
GetRunningEnv(w, u, e) == LookupRunning(w, "file_call", u, e)
OpenExecWS(w, u, e) == LookupRunning(w, "ws_call", u, e)

\* A rejected request (no command, bad path, missing file, failed upgrade) or
\* a failed engine call ends the handler; after a successful one it assigns
\* LastUsedAt = time.Now().
UseContainer(w, from, to) ==
    /\ pc[w] = from
    /\ \/ /\ Return(w)
          /\ UNCHANGED <<rec, faults>>
       \/ /\ Call(w, "ok", "live")
          /\ container[target[w]] \in (IF from = "file_call" THEN Live ELSE {"running"})
          /\ Assign(w, [EnvOf(w) EXCEPT !.lastUsed = clock])
          /\ Goto(w, to, "live")
    /\ UNCHANGED <<clock, used, stored, container, reaperVars, crashes, historyVars>>

StartExec(w) == UseContainer(w, "exec_call", "touch")
FileOp(w) == UseContainer(w, "file_call", "touch")
StartSession(w) == UseContainer(w, "ws_call", "ws_touch")

\* store.Update with the new LastUsedAt; an error is only logged.
Touch(w) ==
    /\ pc[w] \in {"touch", "ws_touch"}
    /\ \E out \in Outcomes, c \in Contexts :
          /\ StoreCall(w, out, c)
          /\ rec' = Updated(target[w], EnvOf(w), out)
          /\ IF pc[w] = "touch" THEN Return(w)
             ELSE Goto(w, "ws_stream", c) /\ UNCHANGED local
    /\ UNCHANGED <<clock, used, stored, container, reaperVars, crashes, historyVars>>

\* The keep-alive goroutine of a WebSocket session: every 30 s, under
\* context.Background().
KeepAlive(w) ==
    /\ pc[w] = "ws_stream"
    /\ Assign(w, [EnvOf(w) EXCEPT !.lastUsed = clock])
    /\ Goto(w, "ws_touch", ctx[w])
    /\ UNCHANGED <<clock, used, stored, container, reaperVars, faults, crashes, historyVars>>

\* Either side of the session ends (module ExecWS has the goroutines).
EndSession(w) ==
    /\ pc[w] = "ws_stream"
    /\ Return(w)
    /\ UNCHANGED <<clock, storeVars, container, reaperVars, faults, crashes, historyVars>>

-----------------------------------------------------------------------------
(* The reaper, the clock and restarts.                                     *)

\* A tick of the 30 s ticker: a fresh context and ListExpired.  If the query
\* fails the cycle is over and nothing has changed.
ReapList ==
    /\ rpc = "idle"
    /\ queue' = ListExpired
    /\ known' = {e \in ListExpired : rec[e].cid # "no_id"}
    /\ rpc' = IF ListExpired = {} THEN "idle" ELSE "scan"
    /\ lap' = "first"
    /\ ctx' = [ctx EXCEPT ![Reaper] = "live"]
    /\ UNCHANGED <<clock, storeVars, container, workerVars, rcur, faults, crashes, historyVars>>

\* The next element of the list; neither store orders it.
ReapNext(e) ==
    /\ rpc = "scan"
    /\ e \in queue
    /\ queue' = queue \ {e}
    /\ rcur' = e
    /\ rpc' = "stop"
    /\ UNCHANGED <<clock, storeVars, container, workerVars, known, lap, failureVars,
                   crashes, historyVars>>

\* The container ID the reaper holds: listed with the row, or read now from
\* the shared object.
ReaperCid == IF Persistent THEN (IF rcur \in known THEN "id" ELSE "no_id") ELSE rec[rcur].cid

\* Mutant: an error of StopContainer ("no such container" too) skips the Delete.
MutantReapStop ==
    /\ rpc = "stop"
    /\ \E c \in Contexts : /\ StopKnown(Reaper, rcur, ReaperCid, c)
                           /\ ctx' = [ctx EXCEPT ![Reaper] = c]
    /\ rpc' = IF ReaperCid = "no_id" \/ container[rcur] # container'[rcur] THEN "delete"
              ELSE IF queue = {} THEN "idle" ELSE "scan"
    /\ UNCHANGED <<clock, storeVars, workerVars, queue, known, rcur, lap, crashes, acked>>

ReapStop ==
    /\ rpc = "stop"
    /\ \E c \in Contexts : /\ StopKnown(Reaper, rcur, ReaperCid, c)
                           /\ ctx' = [ctx EXCEPT ![Reaper] = c]
    /\ rpc' = "delete"
    /\ UNCHANGED <<clock, storeVars, workerVars, queue, known, rcur, lap, crashes, acked>>

\* Delete with userID "" whatever StopContainer returned.
ReapDelete ==
    /\ rpc = "delete"
    /\ \E out \in Outcomes, c \in Contexts :
          /\ StoreCall(Reaper, out, c)
          /\ stored' = Deleted(NoUser, rcur, out)
          /\ ctx' = [ctx EXCEPT ![Reaper] = IF queue = {} THEN "live" ELSE c]
    /\ rpc' = IF queue = {} THEN "idle" ELSE "scan"
    /\ known' = IF queue = {} THEN {} ELSE known
    /\ rcur' = NoEnv
    /\ lap' = IF queue = {} THEN "first" ELSE "later"
    /\ UNCHANGED <<clock, used, rec, container, workerVars, queue, crashes, historyVars>>

\* One unit is the keep-alive interval: a streaming session refreshes its
\* record at least once in each.
Tick ==
    /\ clock < MaxClock
    /\ \A w \in Workers : pc[w] = "ws_stream" => EnvOf(w).lastUsed = clock
    /\ clock' = clock + 1
    /\ UNCHANGED <<storeVars, container, workerVars, failureVars, reaperVars,
                   crashes, historyVars>>

\* The server process dies and is started again: handlers and the reap cycle
\* are gone, the containers stay, and so do the records of a database.
Crash ==
    /\ crashes < MaxCrashes
    /\ crashes' = crashes + 1
    /\ pc' = [w \in Workers |-> "idle"]
    /\ target' = [w \in Workers |-> NoEnv]
    /\ caller' = [w \in Workers |-> NoUser]
    /\ local' = [w \in Workers |-> Blank]
    /\ ctx' = [p \in Workers \cup {Reaper} |-> "live"]
    /\ rpc' = "idle" /\ queue' = {} /\ known' = {} /\ rcur' = NoEnv /\ lap' = "first"
    /\ IF Persistent THEN UNCHANGED <<stored, door>>
       ELSE stored' = {} /\ door' = Opened(stored, "wiped")
    /\ UNCHANGED <<clock, used, rec, container, faults, acked>>

-----------------------------------------------------------------------------
ServiceStep(w) == \/ CreateContainer(w) \/ StartContainer(w) \/ UndoStart(w)
                  \/ UndoCreate(w) \/ MarkRunning(w) \/ DestroyStop(w)
                  \/ DestroyDelete(w) \/ StartExec(w) \/ FileOp(w)
                  \/ StartSession(w) \/ Touch(w) \/ KeepAlive(w) \/ EndSession(w)

Request(w, u, e) == \/ CreateEnvironment(w, u, e) \/ DestroyEnvironment(w, u, e)
                    \/ PrepareExec(w, u, e) \/ GetRunningEnv(w, u, e)
                    \/ OpenExecWS(w, u, e)

ReaperStep == ReapList \/ (\E e \in Envs : ReapNext(e)) \/ ReapStop \/ ReapDelete

Next == \/ \E w \in Workers, u \in Users, e \in Envs : Request(w, u, e)
        \/ \E w \in Workers : ServiceStep(w)
        \/ ReaperStep
        \/ \E p \in Workers \cup {Reaper} : CancelContext(p)
        \/ \E e \in Envs : ContainerDies(e)
        \/ Tick
        \/ Crash

Spec == Init /\ [][Next]_vars

\* The reaper goroutine runs until the server stops, so its next step is
\* never postponed forever.
FairSpec == Spec /\ WF_vars(ReaperStep)

-----------------------------------------------------------------------------
(* Properties.                                                             *)

\* Types of the state.
TypeOK ==
    /\ clock \in Nat /\ faults \in Nat /\ crashes \in Nat
    /\ used \subseteq Envs /\ stored \subseteq used
    /\ rec \in [Envs -> EnvRecord]
    /\ container \in [Envs -> Live \cup {"none", "removed"}]
    /\ pc \in [Workers -> WorkerPCs]
    /\ target \in [Workers -> Envs \cup {NoEnv}]
    /\ caller \in [Workers -> Users \cup {NoUser}]
    /\ local \in [Workers -> EnvRecord]
    /\ ctx \in [Workers \cup {Reaper} -> Contexts]
    /\ rpc \in {"idle", "scan", "stop", "delete"}
    /\ queue \subseteq Envs /\ known \subseteq Envs
    /\ rcur \in Envs \cup {NoEnv}
    /\ lap \in {"first", "later"}
    /\ acked \subseteq [env : used, update : Outcomes]
    /\ door \in [Envs -> Doors \cup {"shut"}]

\* A container that no record refers to any more, so that no request and no
\* reap cycle will ever remove it.
Orphan(e) == container[e] \in Live /\ e \notin stored

\* Whatever handlers, reaper, cancelled contexts, faults and restarts do, a
\* container is orphaned only through one of three doors: someone deleted the
\* record before the container ID was in it (or a failed ContainerCreate left
\* a container behind), StopContainer failed and the record was deleted all
\* the same, or a restart emptied the in-memory store.
OrphansExplained == \A e \in Envs : Orphan(e) => door[e] # "shut"

\* A record that says "running" has the ID of a container that has been
\* started, and so does every copy that an exec, file or WebSocket handler is
\* about to use: no engine call is ever made with an empty container ID.
RunningIsBound ==
    /\ \A e \in stored : rec[e].status = "running" =>
          rec[e].cid # "no_id" /\ container[e] \notin {"none", "created"}
    /\ \A w \in Workers :
          pc[w] \in {"exec_call", "file_call", "touch", "ws_call", "ws_touch", "ws_stream"} =>
             /\ EnvOf(w).status = "running" /\ EnvOf(w).cid # "no_id"
             /\ container[target[w]] \notin {"none", "created"}

\* The reaper never takes an environment earlier than one whole idle timeout
\* (or lifetime) after its creation, whatever late or lost updates of
\* last_used_at it has read, and it takes none whose ID was never issued.
NoEarlyReap ==
    \A e \in queue \cup ({rcur} \ {NoEnv}) :
        /\ e \in used
        /\ \/ clock > rec[e].created + IdleTimeout
           \/ clock > rec[e].created + MaxLifetime

\* expires_at is written back by every Update, from copies of any age; it is
\* still the creation time plus MaxLifetime in every record, so that nothing
\* a client does prolongs the life of an environment.
LifetimeIsFixed ==
    \A e \in used : rec[e].expires = rec[e].created + MaxLifetime

\* A handler works only on an environment of its own caller: the record it
\* looked up, and still the one it updates, stops or deletes later.
CallersOwnTargets ==
    \A w \in Workers : pc[w] # "idle" => rec[target[w]].user = caller[w]

\* A client that was told "running" finds a running record as long as there
\* is one at all, whatever copies of the row other handlers write back.
\* Exception: the Update before the answer failed, which is only logged; the
\* record then says "creating" for as long as it lives.
AckedIsRunning ==
    \A a \in acked : a.env \in stored /\ a.update # "failed" => rec[a.env].status = "running"

\* The abstract registry, as the store lookups show it.
Phase == [e \in Envs |-> IF e \in stored THEN rec[e].status
                         ELSE IF e \in used THEN "gone" ELSE "unknown"]

Registry == INSTANCE EnvRegistry WITH phase <- Phase

\* Every history of records is one the registry allows: an ID is registered
\* once, runs at most once, never goes back to creating, and neither a late
\* Update nor a rolled back creation resurrects a deleted record.
RefinesRegistry == Registry!RegistrySpec

\* The record of an environment past its lifetime is eventually removed, even
\* if its container is gone or cannot be stopped, and although reap cycles run
\* out of time after their first container.
ExpiredEventuallyReaped ==
    \A e \in Envs : (e \in stored /\ LifetimeExpired(rec[e])) ~> (e \notin stored)
=============================================================================
