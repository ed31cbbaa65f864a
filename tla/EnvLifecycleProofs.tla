------------------------ MODULE EnvLifecycleProofs ------------------------
(***************************************************************************)
(* The invariants of EnvLifecycle for any number of environments, users    *)
(* and handlers, any timeouts, and both stores.                            *)
(***************************************************************************)
EXTENDS EnvLifecycle, TLAPS

Started == {"running", "exited", "removed"}

Creating == {"create_container", "start_container", "undo_start",
             "undo_create", "mark_running"}

Using == {"exec_call", "file_call", "touch", "ws_call", "ws_touch", "ws_stream"}

\* What a record says is true of the container.
Bound(r, s) == /\ r.cid # "no_id" => s # "none"
               /\ r.status = "running" => r.cid # "no_id" /\ s \in Started

\* What a record says is true of the times.
Timed(r) == /\ r.created <= r.lastUsed
            /\ r.created <= clock
            /\ r.expires = r.created + MaxLifetime

\* Nothing, or something that has a name, is left of the container of e.
Settled(e) == door[e] # "shut" \/ container[e] = "removed"

\* Records in the store (or, in memory, still in a handler's hands).
RecordsOK == /\ \A e \in used : Timed(rec[e])
             /\ \A e \in Envs : Bound(rec[e], container[e])
             /\ \A e \in Envs \ used : container[e] = "none"

\* A busy handler holds a faithful, perhaps old, version of the record.
HandlerBase(w) ==
    /\ target[w] \in used
    /\ Timed(EnvOf(w))
    /\ Bound(EnvOf(w), container[target[w]])
    /\ EnvOf(w).user = rec[target[w]].user
    /\ EnvOf(w).created = rec[target[w]].created
    /\ rec[target[w]].user = caller[w]

\* What holds at each point of the handlers' code.
HandlerAt(w) ==
    /\ pc[w] \in Using => EnvOf(w).status = "running"
    /\ pc[w] = "create_container" => container[target[w]] = "none"
    /\ pc[w] = "start_container" => /\ EnvOf(w).cid # "no_id"
                                    /\ container[target[w]] \in {"created", "removed"}
    /\ pc[w] = "undo_start" => container[target[w]] # "none"
    /\ pc[w] = "mark_running" => /\ EnvOf(w).cid # "no_id"
                                 /\ container[target[w]] \in Started
    /\ pc[w] = "undo_create" => Settled(target[w]) \/ container[target[w]] = "none"
    /\ pc[w] = "destroy_delete" => Settled(target[w])

HandlerOK(w) == pc[w] # "idle" => HandlerBase(w) /\ HandlerAt(w)

HandlersOK == \A w \in Workers : HandlerOK(w)

\* An environment is created by one handler.
OneCreator == \A v, w \in Workers :
    pc[v] \in Creating /\ pc[w] \in Creating /\ target[v] = target[w] => v = w

ReaperOK == /\ queue \subseteq used
            /\ rcur \in used \cup {NoEnv}
            /\ rpc \in {"stop", "delete"} => rcur \in used
            /\ rpc = "delete" => Settled(rcur)
            /\ \A e \in known : container[e] # "none"
            /\ NoEarlyReap

\* A record that is gone left no container, or one that has a name; or its
\* container was never created and no handler is about to create it.
Gone(e) == \/ Settled(e)
           \/ /\ container[e] = "none"
              /\ \A w \in Workers : target[w] = e => pc[w] # "create_container"

GoneOK == \A e \in used \ stored : Gone(e)

IInv == TypeOK /\ RecordsOK /\ HandlersOK /\ OneCreator /\ ReaperOK /\ GoneOK

USE LifecycleAssumption DEF NoUser, Persistent

LEMMA Blanks == Blank \in EnvRecord
BY DEF Blank, EnvRecord, Statuses

LEMMA InitOK == Init => IInv
<1> SUFFICES ASSUME Init PROVE IInv
    OBVIOUS
<1>1. TypeOK
    BY Blanks DEF Init, TypeOK, WorkerPCs, Contexts, Live
<1>2. RecordsOK /\ HandlersOK /\ OneCreator /\ GoneOK
    BY DEF Init, RecordsOK, HandlersOK, HandlerOK, HandlerBase, HandlerAt, OneCreator, GoneOK, Bound, Blank, Creating
<1>3. ReaperOK
    BY DEF Init, ReaperOK, NoEarlyReap
<1> QED  BY <1>1, <1>2, <1>3 DEF IInv

-----------------------------------------------------------------------------
(* Types.                                                                  *)

LEMMA UpdatedType ==
    ASSUME TypeOK, NEW e \in Envs, NEW r \in EnvRecord, NEW out
    PROVE  Updated(e, r, out) \in [Envs -> EnvRecord]
BY DEF TypeOK, Updated, EnvRecord

LEMMA TouchedType ==
    ASSUME NEW r \in EnvRecord, NEW t \in Nat
    PROVE  [r EXCEPT !.lastUsed = t] \in EnvRecord
BY DEF EnvRecord

LEMMA EnvOfType ==
    ASSUME TypeOK, NEW w \in Workers, target[w] \in Envs
    PROVE  EnvOf(w) \in EnvRecord
BY DEF TypeOK, EnvOf

LEMMA OpenedType ==
    ASSUME TypeOK, NEW S, NEW d \in Doors
    PROVE  Opened(S, d) \in [Envs -> Doors \cup {"shut"}]
BY DEF TypeOK, Opened

LEMMA StopType ==
    ASSUME TypeOK, NEW p \in Workers \cup {Reaper}, NEW e \in Envs, NEW cid, NEW c \in Contexts,
           StopContainer(p, e, c) \/ StopKnown(p, e, cid, c)
    PROVE  /\ container' \in [Envs -> Live \cup {"none", "removed"}]
           /\ door' \in [Envs -> Doors \cup {"shut"}]
           /\ faults' \in Nat
<1>1. faults' \in Nat
    BY DEF TypeOK, StopContainer, StopKnown, Call
<1>2. door' \in [Envs -> Doors \cup {"shut"}]
    BY OpenedType DEF TypeOK, StopContainer, StopKnown, Doors
<1>3. container' \in [Envs -> Live \cup {"none", "removed"}]
    BY DEF TypeOK, StopContainer, StopKnown, StopResults, Outcomes, Live
<1> QED  BY <1>1, <1>2, <1>3

LEMMA TypeStep == TypeOK /\ HandlersOK /\ ReaperOK /\ [Next]_vars => TypeOK'
<1> SUFFICES ASSUME TypeOK, HandlersOK, ReaperOK, [Next]_vars PROVE TypeOK'
    OBVIOUS
<1> USE DEF storeVars, workerVars, reaperVars, failureVars, historyVars, Contexts, WorkerPCs
<1>1. ASSUME NEW w \in Workers, NEW u \in Users, NEW e \in Envs, Request(w, u, e)
      PROVE  TypeOK'
    <2>1. NewRecord(u) \in EnvRecord
        BY DEF NewRecord, EnvRecord, Statuses, TypeOK
    <2>2. CASE CreateEnvironment(w, u, e)
        BY <2>1, <2>2, Blanks DEF CreateEnvironment, Begin, TypeOK
    <2>3. ASSUME NEW l \in WorkerPCs, Lookup(w, l, u, e)
          PROVE  TypeOK'
        BY <2>3, Blanks DEF Lookup, Begin, TypeOK
    <2> QED  BY <1>1, <2>2, <2>3 DEF Request, DestroyEnvironment, PrepareExec,
                GetRunningEnv, OpenExecWS, LookupRunning
<1>2. ASSUME NEW w \in Workers, ServiceStep(w)
      PROVE  TypeOK'
    <2>0. target[w] \in Envs \/ pc[w] = "idle"
        BY DEF HandlersOK, HandlerOK, HandlerBase, HandlerAt, TypeOK
    <2>1. CASE CreateContainer(w)
        <3>1. target[w] \in Envs
            BY <2>0, <2>1 DEF CreateContainer
        <3>2. [EnvOf(w) EXCEPT !.cid = "id"] \in EnvRecord
            BY <3>1, EnvOfType DEF EnvRecord
        <3> DEFINE r == [EnvOf(w) EXCEPT !.cid = "id"]
        <3>3. rec' \in [Envs -> EnvRecord] /\ local' \in [Workers -> EnvRecord]
            <4> HIDE DEF r
            <4> QED BY <2>1, <3>1, <3>2 DEF CreateContainer, Assign, TypeOK, r
        <3>4. faults' \in Nat
            BY <2>1 DEF CreateContainer, Call, TypeOK
        <3>5. door' \in [Envs -> Doors \cup {"shut"}]
            BY <2>1, <3>1, OpenedType DEF CreateContainer, Doors, TypeOK
        <3>6. container' \in [Envs -> Live \cup {"none", "removed"}]
            BY <2>1, <3>1 DEF CreateContainer, Live, TypeOK
        <3> QED  BY <2>1, <3>3, <3>4, <3>5, <3>6 DEF CreateContainer, Goto, TypeOK
    <2>2. CASE StartContainer(w)
        BY <2>0, <2>2 DEF StartContainer, Goto, Call, Live, TypeOK
    <2>3. CASE UndoStart(w)
        <3>1. target[w] \in Envs
            BY <2>0, <2>3 DEF UndoStart
        <3>2. PICK c \in Contexts : StopContainer(w, target[w], c) /\ Goto(w, "undo_create", c)
            BY <2>3 DEF UndoStart
        <3>3. /\ container' \in [Envs -> Live \cup {"none", "removed"}]
              /\ door' \in [Envs -> Doors \cup {"shut"}]
              /\ faults' \in Nat
            BY <3>1, <3>2, StopType
        <3> QED  BY <2>3, <3>2, <3>3 DEF UndoStart, Goto, TypeOK
    <2>4. CASE UndoCreate(w)
        BY <2>0, <2>4, Blanks DEF UndoCreate, Deleted, Return, StoreCall, Call, TypeOK
    <2>5. CASE MarkRunning(w)
        <3>1. target[w] \in Envs
            BY <2>0, <2>5 DEF MarkRunning
        <3>2. [EnvOf(w) EXCEPT !.status = "running"] \in EnvRecord
            BY <3>1, EnvOfType DEF EnvRecord, Statuses
        <3>3. rec' \in [Envs -> EnvRecord]
            BY <2>5, <3>1, <3>2, UpdatedType DEF MarkRunning
        <3>4. acked' \subseteq [env : used, update : Outcomes]
            <4>1. target[w] \in used
                BY <2>5 DEF MarkRunning, HandlersOK, HandlerOK, HandlerBase
            <4> QED  BY <2>5, <4>1 DEF MarkRunning, TypeOK
        <3>5. faults' \in Nat
            BY <2>5 DEF MarkRunning, StoreCall, Call, TypeOK
        <3> QED  BY <2>5, <3>3, <3>4, <3>5, Blanks DEF MarkRunning, Return, TypeOK
    <2>6. CASE DestroyStop(w)
        BY <2>0, <2>6, StopType DEF DestroyStop, Goto, TypeOK
    <2>7. CASE DestroyDelete(w)
        BY <2>0, <2>7, Blanks DEF DestroyDelete, Deleted, Return, StoreCall, Call, TypeOK
    <2>8. ASSUME NEW from \in WorkerPCs, NEW to \in WorkerPCs, from # "idle",
                 UseContainer(w, from, to)
          PROVE  TypeOK'
        <3>1. target[w] \in Envs
            BY <2>0, <2>8 DEF UseContainer
        <3> DEFINE r == [EnvOf(w) EXCEPT !.lastUsed = clock]
        <3>2. r \in EnvRecord
            BY <3>1, EnvOfType, TouchedType DEF TypeOK
        <3>3. rec' \in [Envs -> EnvRecord] /\ local' \in [Workers -> EnvRecord]
            <4> HIDE DEF r
            <4> QED BY <2>8, <3>1, <3>2, Blanks DEF UseContainer, Assign, Return, TypeOK, r
        <3>4. faults' \in Nat
            BY <2>8 DEF UseContainer, Call, TypeOK
        <3> QED  BY <2>8, <3>3, <3>4 DEF UseContainer, Goto, Return, TypeOK
    <2>9. CASE Touch(w)
        <3>1. target[w] \in Envs
            BY <2>0, <2>9 DEF Touch
        <3>2. EnvOf(w) \in EnvRecord
            BY <3>1, EnvOfType
        <3>3. rec' \in [Envs -> EnvRecord]
            BY <2>9, <3>1, <3>2, UpdatedType DEF Touch
        <3>4. faults' \in Nat
            <4>1. PICK out \in Outcomes, c \in Contexts : StoreCall(w, out, c)
                BY <2>9 DEF Touch
            <4> QED  BY <4>1 DEF StoreCall, Call, TypeOK
        <3>5. CASE Return(w)
            BY <2>9, <3>3, <3>4, <3>5, Blanks DEF Touch, Return, TypeOK
        <3>6. ASSUME NEW c \in Contexts, Goto(w, "ws_stream", c), UNCHANGED local
              PROVE  TypeOK'
            BY <2>9, <3>3, <3>4, <3>6 DEF Touch, Goto, TypeOK
        <3> QED  BY <2>9, <3>5, <3>6 DEF Touch
    <2>10. CASE KeepAlive(w)
        <3>1. target[w] \in Envs
            BY <2>0, <2>10 DEF KeepAlive
        <3> DEFINE r == [EnvOf(w) EXCEPT !.lastUsed = clock]
        <3>2. r \in EnvRecord
            BY <3>1, EnvOfType, TouchedType DEF TypeOK
        <3>3. rec' \in [Envs -> EnvRecord] /\ local' \in [Workers -> EnvRecord]
            <4> HIDE DEF r
            <4> QED BY <2>10, <3>1, <3>2 DEF KeepAlive, Assign, TypeOK, r
        <3> QED  BY <2>10, <3>3 DEF KeepAlive, Goto, TypeOK
    <2>11. CASE EndSession(w)
        BY <2>11, Blanks DEF EndSession, Return, TypeOK
    <2> QED  BY <1>2, <2>1, <2>2, <2>3, <2>4, <2>5, <2>6, <2>7, <2>8, <2>9, <2>10, <2>11
             DEF ServiceStep, StartExec, FileOp, StartSession
<1>3. CASE ReaperStep
    <2>1. CASE ReapList
        BY <2>1 DEF ReapList, ListExpired, TypeOK
    <2>2. ASSUME NEW e \in Envs, ReapNext(e) PROVE TypeOK'
        BY <2>2 DEF ReapNext, TypeOK
    <2>3. CASE ReapStop
        BY <2>3, StopType DEF ReapStop, ReaperOK, TypeOK
    <2>4. CASE ReapDelete
        BY <2>4 DEF ReapDelete, Deleted, StoreCall, Call, TypeOK
    <2> QED  BY <1>3, <2>1, <2>2, <2>3, <2>4 DEF ReaperStep
<1>4. ASSUME NEW p \in Workers \cup {Reaper}, CancelContext(p) PROVE TypeOK'
    BY <1>4 DEF CancelContext, TypeOK
<1>5. ASSUME NEW e \in Envs, ContainerDies(e) PROVE TypeOK'
    BY <1>5 DEF ContainerDies, Live, TypeOK
<1>6. CASE Tick
    BY <1>6 DEF Tick, TypeOK
<1>7. CASE Crash
    BY <1>7, Blanks, OpenedType DEF Crash, Doors, TypeOK
<1>8. CASE UNCHANGED vars
    BY <1>8 DEF vars, TypeOK
<1> QED  BY <1>1, <1>2, <1>3, <1>4, <1>5, <1>6, <1>7, <1>8 DEF Next

-----------------------------------------------------------------------------
(* What every step does to an environment that others work on.             *)

\* A container only goes on: nothing but a removal follows an exit, and
\* nothing at all a removal.
Decay(s, t) == \/ t = s
               \/ s \in Live /\ t = "removed"
               \/ s = "running" /\ t = "exited"

Evolve(s, t) == \/ Decay(s, t)
                \/ s = "none" /\ t = "created"
                \/ s = "created" /\ t = "running"

\* The record of e keeps its owner and creation time, it does not lose what it
\* has gained, and what it says is still true.
Kept(e) == /\ rec'[e].user = rec[e].user
           /\ rec'[e].created = rec[e].created
           /\ rec[e].status = "running" => rec'[e].status = "running"
           /\ rec[e].cid # "no_id" => rec'[e].cid # "no_id"
           /\ Timed(rec[e])'
           /\ Bound(rec[e], container[e])'

World == /\ used \subseteq used'
         /\ clock <= clock'
         /\ \A e \in Envs : Evolve(container[e], container'[e])
         /\ \A e \in Envs : door[e] # "shut" => door'[e] # "shut"
         /\ \A e \in used : Kept(e)

LEMMA KeptIfSame ==
    ASSUME TypeOK, RecordsOK, NEW e \in used, rec'[e] = rec[e],
           clock' \in Nat, clock <= clock', Evolve(container[e], container'[e])
    PROVE  Kept(e)
BY DEF TypeOK, RecordsOK, Kept, Timed, Bound, Evolve, Decay, Live, Started, EnvRecord

LEMMA StopEffect ==
    ASSUME TypeOK, NEW p, NEW e \in Envs, NEW c, StopContainer(p, e, c)
    PROVE  /\ \A x \in Envs : Decay(container[x], container'[x])
           /\ \A x \in Envs : door[x] # "shut" => door'[x] # "shut"
           /\ container[e] # "none" => (Settled(e))'
<1>0. PICK out \in Outcomes : \E s \in StopResults(container[e], out) :
          /\ container' = [container EXCEPT ![e] = s]
          /\ door' = IF s \in Live THEN Opened({e}, "stop_failed") ELSE door
    BY DEF StopContainer
<1>1. PICK s \in StopResults(container[e], out) :
          /\ container' = [container EXCEPT ![e] = s]
          /\ door' = IF s \in Live THEN Opened({e}, "stop_failed") ELSE door
    BY <1>0
<1>2. Decay(container[e], s) /\ (container[e] # "none" => s \in Live \cup {"removed"})
    BY <1>1 DEF StopResults, Outcomes, Decay, Live, TypeOK
<1>3. \A x \in Envs : Opened({e}, "stop_failed")[x] # "shut" \/ (x # e /\ door[x] = "shut")
    BY DEF Opened
<1>4. \A x \in Envs : Decay(container[x], container'[x])
    BY <1>1, <1>2 DEF Decay, TypeOK
<1>5. \A x \in Envs : door[x] # "shut" => door'[x] # "shut"
    BY <1>1, <1>3
<1>6. container[e] # "none" => (Settled(e))'
    BY <1>1, <1>2, <1>3 DEF Settled, TypeOK
<1> QED  BY <1>4, <1>5, <1>6

LEMMA StopKnownEffect ==
    ASSUME TypeOK, NEW p, NEW e \in Envs, NEW cid, NEW c, StopKnown(p, e, cid, c),
           cid # "no_id" => container[e] # "none"
    PROVE  /\ \A x \in Envs : Decay(container[x], container'[x])
           /\ \A x \in Envs : door[x] # "shut" => door'[x] # "shut"
           /\ (Settled(e))'
<1>1. CASE cid # "no_id"
    BY <1>1, StopEffect DEF StopKnown
<1>2. CASE cid = "no_id"
    BY <1>2 DEF StopKnown, Opened, Decay, Settled, TypeOK
<1> QED  BY <1>1, <1>2

\* store.Update of what a handler holds.
LEMMA UpdateEffect ==
    ASSUME TypeOK, RecordsOK, NEW e \in used, NEW r \in EnvRecord, NEW out,
           Timed(r), Bound(r, container[e]), r.status = "running",
           r.user = rec[e].user, r.created = rec[e].created,
           rec' = Updated(e, r, out), container' = container, clock' = clock
    PROVE  /\ \A x \in used : Kept(x)
           /\ \A x \in Envs \ used : rec'[x] = rec[x]
<1>1. /\ \A x \in Envs \ {e} : rec'[x] = rec[x]
      /\ rec'[e] = rec[e] \/ rec'[e] = r
      /\ rec'[e] \in EnvRecord
    BY UpdatedType DEF Updated, TypeOK, EnvRecord
<1>2. \A x \in used \ {e} : Kept(x)
    BY <1>1, KeptIfSame DEF TypeOK, Evolve, Decay
<1>3. CASE rec'[e] = rec[e]
    <2>1. Kept(e)
        BY <1>3, KeptIfSame DEF TypeOK, Evolve, Decay
    <2> QED  BY <1>1, <1>2, <2>1 DEF TypeOK
<1>4. CASE rec'[e] = r
    <2>1. Kept(e)
        BY <1>4 DEF Kept, Timed, Bound
    <2> QED  BY <1>1, <1>2, <2>1 DEF TypeOK
<1> QED  BY <1>1, <1>3, <1>4

\* Assignments to the handler's object.
LEMMA AssignEffect ==
    ASSUME TypeOK, RecordsOK, NEW w \in Workers, NEW e \in used, target[w] = e,
           NEW r \in EnvRecord, Assign(w, r),
           Persistent \/ /\ Timed(r)
                         /\ rec[e].status = "running" => r.status = "running"
                         /\ rec[e].cid # "no_id" => r.cid # "no_id"
                         /\ r.user = rec[e].user
                         /\ r.created = rec[e].created
                         /\ Bound(r, container'[e]),
           \A x \in Envs : Evolve(container[x], container'[x]), clock' = clock
    PROVE  /\ \A x \in used : Kept(x)
           /\ \A x \in Envs \ used : rec'[x] = rec[x]
<1>1. CASE Persistent
    BY <1>1, KeptIfSame DEF Assign, TypeOK
<1>2. CASE ~Persistent
    <2>1. rec' = [rec EXCEPT ![e] = r]
        BY <1>2 DEF Assign
    <2>2. Kept(e)
        BY <1>2, <2>1 DEF Kept, Timed, Bound, TypeOK
    <2>3. \A x \in used \ {e} : Kept(x)
        BY <2>1, KeptIfSame DEF TypeOK
    <2> QED  BY <2>1, <2>2, <2>3 DEF TypeOK
<1> QED  BY <1>1, <1>2

\* A step that issues no ID and touches nothing that has none.
Steady == /\ World
          /\ used' = used
          /\ \A x \in Envs \ used : rec'[x] = rec[x] /\ container'[x] = container[x]

LEMMA RecordsStep ==
    ASSUME TypeOK, TypeOK', RecordsOK, Steady
    PROVE  RecordsOK'
BY DEF TypeOK, RecordsOK, Steady, World, Kept

\* Steps that leave the records alone and wear containers out, if anything.
LEMMA SteadyIfSame ==
    ASSUME TypeOK, TypeOK', RecordsOK, rec' = rec, used' = used, clock <= clock',
           \A x \in Envs : Decay(container[x], container'[x]),
           \A x \in Envs : door[x] # "shut" => door'[x] # "shut"
    PROVE  Steady
<1>1. \A x \in Envs : Evolve(container[x], container'[x])
    BY DEF Evolve
<1>2. \A x \in used : Kept(x)
    BY <1>1, KeptIfSame DEF TypeOK
<1>3. \A x \in Envs \ used : container'[x] = container[x]
    BY DEF RecordsOK, Decay, Live
<1> QED  BY <1>1, <1>2, <1>3 DEF Steady, World, TypeOK

LEMMA NewRecordOK ==
    ASSUME TypeOK, NEW u \in Users
    PROVE  /\ NewRecord(u) \in EnvRecord
           /\ Timed(NewRecord(u))
           /\ NewRecord(u).user = u /\ NewRecord(u).cid = "no_id"
           /\ NewRecord(u).status = "creating"
BY DEF TypeOK, NewRecord, EnvRecord, Statuses, Timed

LEMMA CreateEffect ==
    ASSUME TypeOK, TypeOK', RecordsOK, NEW w \in Workers, NEW u \in Users, NEW e \in Envs,
           CreateEnvironment(w, u, e)
    PROVE  World /\ RecordsOK'
<1> USE DEF storeVars, workerVars, reaperVars, failureVars, historyVars
<1>1. /\ e \notin used /\ used' = used \cup {e} /\ clock' = clock /\ container' = container
      /\ door' = door
      /\ rec'[e] = NewRecord(u) /\ \A x \in Envs \ {e} : rec'[x] = rec[x]
    BY DEF CreateEnvironment, TypeOK
<1>2. \A x \in used : Kept(x)
    BY <1>1, KeptIfSame DEF TypeOK, Evolve, Decay
<1>3. World
    BY <1>1, <1>2 DEF World, Evolve, Decay, TypeOK
<1>4. Timed(rec[e])' /\ Bound(rec[e], container[e])'
    BY <1>1, NewRecordOK DEF Timed, Bound
<1> QED  BY <1>1, <1>2, <1>3, <1>4 DEF RecordsOK, Kept, TypeOK

LEMMA ServiceEffect ==
    ASSUME IInv, TypeOK', NEW w \in Workers, ServiceStep(w)
    PROVE  Steady
<1> USE DEF storeVars, workerVars, reaperVars, failureVars, historyVars
<1> TypeOK /\ RecordsOK
    BY DEF IInv
<1>0. pc[w] # "idle"
    BY DEF ServiceStep, CreateContainer, StartContainer, UndoStart, UndoCreate, MarkRunning,
       DestroyStop, DestroyDelete, StartExec, FileOp, StartSession, UseContainer, Touch,
       KeepAlive, EndSession
<1>1. PICK e \in used : target[w] = e
    BY <1>0 DEF IInv, HandlersOK, HandlerOK, HandlerBase, HandlerAt
<1>2. /\ e \in Envs /\ EnvOf(w) \in EnvRecord /\ Timed(EnvOf(w)) /\ Bound(EnvOf(w), container[e])
      /\ EnvOf(w).user = rec[e].user /\ EnvOf(w).created = rec[e].created
      /\ pc[w] \in Using => EnvOf(w).status = "running"
      /\ ~Persistent => EnvOf(w) = rec[e]
    BY <1>0, <1>1, EnvOfType DEF IInv, HandlersOK, HandlerOK, HandlerBase, HandlerAt, EnvOf, TypeOK
<1> DEFINE touched == [EnvOf(w) EXCEPT !.lastUsed = clock]
<1>3. /\ touched \in EnvRecord /\ Timed(touched) /\ Bound(touched, container[e])
      /\ touched.user = rec[e].user /\ touched.created = rec[e].created
      /\ touched.status = EnvOf(w).status /\ touched.cid = EnvOf(w).cid
    BY <1>2 DEF EnvRecord, Timed, Bound, TypeOK
<1>4. ASSUME Assign(w, touched), clock' = clock, used' = used, container' = container, door' = door
      PROVE  Steady
    <2>1. \A x \in Envs : Evolve(container[x], container'[x])
        BY <1>4 DEF Evolve, Decay
    <2>2. /\ \A x \in used : Kept(x)
          /\ \A x \in Envs \ used : rec'[x] = rec[x]
        <3> HIDE DEF touched
        <3> QED  BY <1>1, <1>2, <1>3, <1>4, <2>1, AssignEffect
    <2> QED  BY <1>4, <2>1, <2>2 DEF Steady, World, TypeOK
<1>5. CASE CreateContainer(w)
    <2>1. PICK out \in Outcomes, c \in Contexts :
            /\ container' = IF out = "failed" THEN container
                            ELSE [container EXCEPT ![e] = "created"]
            /\ \/ /\ Assign(w, [EnvOf(w) EXCEPT !.cid = "id"])
                  /\ out = "ok"
                  /\ UNCHANGED door
               \/ /\ door' = IF out = "lost" THEN Opened({e}, "blind") ELSE door
                  /\ UNCHANGED rec
        BY <1>1, <1>5 DEF CreateContainer
    <2>2. container[e] = "none"
        BY <1>1, <1>5 DEF CreateContainer, IInv, HandlersOK, HandlerOK, HandlerBase, HandlerAt
    <2>3. \A x \in Envs : Evolve(container[x], container'[x])
        BY <2>1, <2>2 DEF Evolve, Decay, TypeOK
    <2>4. \A x \in Envs : door[x] # "shut" => door'[x] # "shut"
        BY <2>1 DEF Opened, TypeOK
    <2>5. clock' = clock /\ used' = used
        BY <1>5 DEF CreateContainer
    <2>6. /\ \A x \in used : Kept(x)
          /\ \A x \in Envs \ used : rec'[x] = rec[x]
        <3>1. CASE UNCHANGED rec
            BY <2>3, <2>5, <3>1, KeptIfSame DEF TypeOK
        <3>2. CASE Assign(w, [EnvOf(w) EXCEPT !.cid = "id"]) /\ out = "ok"
            <4> DEFINE r == [EnvOf(w) EXCEPT !.cid = "id"]
            <4>1. /\ r \in EnvRecord /\ Timed(r) /\ r.user = rec[e].user
                  /\ r.created = rec[e].created /\ r.cid = "id" /\ r.status = EnvOf(w).status
                BY <1>2 DEF EnvRecord, Timed
            <4>2. container'[e] = "created" /\ r.status # "running"
                BY <1>2, <2>1, <2>2, <3>2, <4>1 DEF Bound, Started, TypeOK
            <4>3. Bound(r, container'[e])
                BY <4>1, <4>2 DEF Bound
            <4> HIDE DEF r
            <4>4. Assign(w, r)
                BY <3>2 DEF r
            <4> QED  BY <1>1, <1>2, <2>3, <2>5, <4>1, <4>3, <4>4, AssignEffect
        <3> QED  BY <2>1, <3>1, <3>2
    <2> QED  BY <2>1, <2>3, <2>4, <2>5, <2>6 DEF Steady, World, TypeOK
<1>6. CASE StartContainer(w)
    <2>1. /\ \A x \in Envs : Evolve(container[x], container'[x])
          /\ \A x \in Envs \ used : container'[x] = container[x]
        BY <1>1, <1>6 DEF StartContainer, Evolve, Decay, TypeOK
    <2>2. clock' = clock /\ used' = used /\ rec' = rec /\ door' = door
        BY <1>6 DEF StartContainer
    <2>3. \A x \in used : Kept(x)
        BY <2>1, <2>2, KeptIfSame DEF TypeOK
    <2> QED  BY <2>1, <2>2, <2>3 DEF Steady, World, TypeOK
<1>7. CASE UndoStart(w)
    BY <1>1, <1>2, <1>7, StopEffect, SteadyIfSame DEF UndoStart, TypeOK
<1>8. CASE UndoCreate(w) \/ DestroyDelete(w) \/ EndSession(w)
    BY <1>8, SteadyIfSame DEF UndoCreate, DestroyDelete, EndSession, Decay, TypeOK
<1>9. CASE MarkRunning(w)
    <2> DEFINE r == [EnvOf(w) EXCEPT !.status = "running"]
    <2>1. PICK out \in Outcomes : rec' = Updated(e, r, out)
        BY <1>1, <1>9 DEF MarkRunning
    <2>2. /\ r \in EnvRecord /\ Timed(r) /\ r.user = rec[e].user /\ r.cid = EnvOf(w).cid
          /\ r.created = rec[e].created /\ r.status = "running"
        BY <1>2 DEF EnvRecord, Statuses, Timed
    <2>3. Bound(r, container[e])
        BY <1>1, <1>9, <2>2 DEF MarkRunning, IInv, HandlersOK, HandlerOK, HandlerBase, HandlerAt, Bound, Started
    <2>4. used' = used /\ clock' = clock /\ container' = container /\ door' = door
        BY <1>9 DEF MarkRunning
    <2>5. /\ \A x \in used : Kept(x)
          /\ \A x \in Envs \ used : rec'[x] = rec[x]
        <3> HIDE DEF r
        <3> QED  BY <2>1, <2>2, <2>3, <2>4, UpdateEffect
    <2> QED  BY <2>4, <2>5 DEF Steady, World, Evolve, Decay, TypeOK
<1>10. CASE DestroyStop(w)
    BY <1>1, <1>2, <1>10, StopKnownEffect, SteadyIfSame DEF DestroyStop, Bound, TypeOK
<1>11. CASE StartExec(w) \/ FileOp(w) \/ StartSession(w)
    <2>1. CASE Return(w) /\ UNCHANGED rec
        BY <1>11, <2>1, SteadyIfSame DEF StartExec, FileOp, StartSession, UseContainer, Decay, TypeOK
    <2>2. CASE Assign(w, touched)
        BY <1>4, <1>11, <2>2 DEF StartExec, FileOp, StartSession, UseContainer
    <2> QED  BY <1>11, <2>1, <2>2 DEF StartExec, FileOp, StartSession, UseContainer
<1>12. CASE Touch(w)
    <2>1. PICK out \in Outcomes : rec' = Updated(e, EnvOf(w), out)
        BY <1>1, <1>12 DEF Touch
    <2>2. EnvOf(w).status = "running"
        BY <1>2, <1>12 DEF Touch, Using
    <2>4. used' = used /\ clock' = clock /\ container' = container /\ door' = door
        BY <1>12 DEF Touch
    <2>5. /\ \A x \in used : Kept(x)
          /\ \A x \in Envs \ used : rec'[x] = rec[x]
        BY <1>2, <2>1, <2>2, <2>4, UpdateEffect
    <2> QED  BY <2>4, <2>5 DEF Steady, World, Evolve, Decay, TypeOK
<1>13. CASE KeepAlive(w)
    BY <1>4, <1>13 DEF KeepAlive
<1> QED  BY <1>5, <1>6, <1>7, <1>8, <1>9, <1>10, <1>11, <1>12, <1>13 DEF ServiceStep

LEMMA WorldStep ==
    ASSUME IInv, TypeOK', [Next]_vars
    PROVE  World /\ RecordsOK'
<1> USE DEF storeVars, workerVars, reaperVars, failureVars, historyVars
<1> TypeOK /\ RecordsOK
    BY DEF IInv
<1>1. ASSUME NEW w \in Workers, NEW u \in Users, NEW e \in Envs, Request(w, u, e)
      PROVE  World /\ RecordsOK'
    <2>1. CASE CreateEnvironment(w, u, e)
        BY <2>1, CreateEffect
    <2>2. ASSUME NEW l, Lookup(w, l, u, e)
          PROVE  Steady
        BY <2>2, SteadyIfSame DEF Lookup, Decay, TypeOK
    <2> QED  BY <1>1, <2>1, <2>2, RecordsStep DEF Steady, Request, DestroyEnvironment,
                PrepareExec, GetRunningEnv, OpenExecWS, LookupRunning
<1>2. ASSUME NEW w \in Workers, ServiceStep(w)
      PROVE  Steady
    BY <1>2, ServiceEffect
<1>3. CASE ReaperStep
    <2>1. CASE ReapList \/ (\E e \in Envs : ReapNext(e)) \/ ReapDelete
        BY <2>1, SteadyIfSame, RecordsStep DEF ReapList, ReapNext, ReapDelete, Decay, Steady, TypeOK
    <2>2. CASE ReapStop
        <3>1. PICK c \in Contexts : StopKnown(Reaper, rcur, ReaperCid, c)
            BY <2>2 DEF ReapStop
        <3>2. rcur \in Envs /\ (ReaperCid # "no_id" => container[rcur] # "none")
            BY <2>2 DEF ReapStop, IInv, ReaperOK, ReaperCid, RecordsOK, Bound, TypeOK
        <3>3. /\ \A x \in Envs : Decay(container[x], container'[x])
              /\ \A x \in Envs : door[x] # "shut" => door'[x] # "shut"
            BY <3>1, <3>2, StopKnownEffect
        <3> QED  BY <2>2, <3>3, SteadyIfSame, RecordsStep DEF ReapStop, Steady, TypeOK
    <2> QED  BY <1>3, <2>1, <2>2, RecordsStep DEF ReaperStep, Steady
<1>4. ASSUME NEW p, CancelContext(p) PROVE Steady
    BY <1>4, SteadyIfSame DEF CancelContext, Decay, TypeOK
<1>5. ASSUME NEW e \in Envs, ContainerDies(e) PROVE Steady
    BY <1>5, SteadyIfSame DEF ContainerDies, Decay, Live, TypeOK
<1>6. CASE Tick
    BY <1>6, SteadyIfSame, RecordsStep DEF Tick, Decay, Steady, TypeOK
<1>7. CASE Crash
    <2>1. \A x \in Envs : door[x] # "shut" => door'[x] # "shut"
        BY <1>7 DEF Crash, Opened, TypeOK
    <2> QED  BY <1>7, <2>1, SteadyIfSame, RecordsStep DEF Crash, Decay, Steady, TypeOK
<1>8. CASE UNCHANGED vars
    BY <1>8, SteadyIfSame, RecordsStep DEF vars, Decay, Steady, TypeOK
<1> QED  BY <1>1, <1>2, <1>3, <1>4, <1>5, <1>6, <1>7, <1>8, RecordsStep DEF Next, Steady

-----------------------------------------------------------------------------
(* Handlers.                                                               *)

\* What the others do keeps a handler's basis.
LEMMA BaseStep ==
    ASSUME TypeOK, TypeOK', World, NEW v \in Workers, HandlerBase(v),
           target'[v] = target[v], caller'[v] = caller[v], local'[v] = local[v]
    PROVE  HandlerBase(v)'
BY DEF TypeOK, World, Kept, HandlerBase, EnvOf, Timed, Bound, Evolve, Decay, Live, Started, EnvRecord

LEMMA FrameHandler ==
    ASSUME TypeOK, TypeOK', World, NEW v \in Workers, HandlerOK(v),
           pc'[v] = pc[v], target'[v] = target[v], caller'[v] = caller[v], local'[v] = local[v],
           pc[v] \in Creating => Decay(container[target[v]], container'[target[v]])
    PROVE  HandlerOK(v)'
<1> SUFFICES ASSUME pc[v] # "idle" PROVE HandlerBase(v)' /\ HandlerAt(v)'
    BY DEF HandlerOK
<1>1. HandlerBase(v) /\ HandlerAt(v)
    BY DEF HandlerOK
<1>2. HandlerBase(v)'
    BY <1>1, BaseStep
<1>3. PICK e \in used : target[v] = e
    BY <1>1 DEF HandlerBase
<1>4. /\ Kept(e) /\ e \in Envs /\ Evolve(container[e], container'[e])
      /\ door[e] # "shut" => door'[e] # "shut"
    BY <1>3 DEF World, TypeOK
<1>5. /\ EnvOf(v).status = "running" => EnvOf(v)'.status = "running"
      /\ EnvOf(v).cid # "no_id" => EnvOf(v)'.cid # "no_id"
    BY <1>3, <1>4 DEF EnvOf, Kept
<1>6. Settled(e) => Settled(e)'
    BY <1>4 DEF Settled, Evolve, Decay, Live
<1>7. HandlerAt(v)'
    BY <1>1, <1>3, <1>4, <1>5, <1>6 DEF HandlerAt, Creating, Evolve, Decay, Live, Started, Settled
<1> QED  BY <1>2, <1>7

LEMMA RequestHandlers ==
    ASSUME IInv, TypeOK', World, RecordsOK', NEW w \in Workers, NEW u \in Users, NEW e \in Envs,
           Request(w, u, e)
    PROVE  HandlersOK' /\ OneCreator'
<1> USE DEF storeVars, workerVars, reaperVars, failureVars, historyVars
<1> TypeOK /\ RecordsOK
    BY DEF IInv
<1>1. CASE CreateEnvironment(w, u, e)
    <2>1. /\ e \notin used /\ container' = container /\ used' = used \cup {e} /\ clock' = clock
          /\ rec'[e] = NewRecord(u)
        BY <1>1 DEF CreateEnvironment, TypeOK
    <2>2. CASE UNCHANGED <<workerVars, ctx>>
        <3>1. \A v \in Workers : HandlerOK(v)'
            BY <2>1, <2>2, FrameHandler DEF IInv, HandlersOK, Decay
        <3> QED  BY <2>2, <3>1 DEF HandlersOK, IInv, OneCreator
    <2>3. CASE Begin(w, "create_container", u, e, NewRecord(u))
        <3>1. ASSUME NEW v \in Workers, v # w PROVE HandlerOK(v)'
            BY <2>1, <2>3, <3>1, FrameHandler DEF IInv, HandlersOK, Decay, Begin, TypeOK
        <3>2. /\ pc'[w] = "create_container" /\ target'[w] = e /\ caller'[w] = u
              /\ EnvOf(w)' = NewRecord(u)
            BY <2>1, <2>3 DEF Begin, EnvOf, TypeOK
        <3>3. HandlerBase(w)'
            BY <2>1, <3>2, NewRecordOK DEF HandlerBase, Timed, Bound
        <3>4. HandlerAt(w)'
            BY <2>1, <3>2 DEF HandlerAt, Using, RecordsOK
        <3>5. \A v \in Workers \ {w} : pc[v] # "idle" => target[v] # e
            BY <2>1 DEF IInv, HandlersOK, HandlerOK, HandlerBase
        <3>6. OneCreator'
            BY <2>3, <3>2, <3>5 DEF IInv, OneCreator, Begin, Creating, TypeOK
        <3> QED  BY <3>1, <3>3, <3>4, <3>6 DEF HandlersOK, HandlerOK
    <2> QED  BY <1>1, <2>2, <2>3 DEF CreateEnvironment
<1>2. ASSUME NEW l, l \in Using \cup {"destroy_stop"}, Lookup(w, l, u, e),
             l \in Using => rec[e].status = "running"
      PROVE  HandlersOK' /\ OneCreator'
    <2>1. /\ container' = container /\ used' = used /\ rec' = rec /\ clock' = clock
          /\ rec[e].user = u /\ e \in used /\ pc[w] = "idle"
          /\ Begin(w, l, u, e, rec[e])
        BY <1>2 DEF Lookup, Visible, TypeOK
    <2>2. ASSUME NEW v \in Workers, v # w PROVE HandlerOK(v)'
        BY <2>1, <2>2, FrameHandler DEF IInv, HandlersOK, Decay, Begin, TypeOK
    <2>3. pc'[w] = l /\ target'[w] = e /\ caller'[w] = u /\ EnvOf(w)' = rec[e]
        BY <2>1 DEF Begin, EnvOf, TypeOK
    <2>4. HandlerBase(w)'
        BY <2>1, <2>3 DEF HandlerBase, RecordsOK, Timed, Bound
    <2>5. HandlerAt(w)'
        BY <1>2, <2>3 DEF HandlerAt, Using
    <2>6. OneCreator'
        BY <1>2, <2>1, <2>3 DEF IInv, OneCreator, Begin, Creating, Using, TypeOK
    <2> QED  BY <2>2, <2>4, <2>5, <2>6 DEF HandlersOK, HandlerOK
<1> QED  BY <1>1, <1>2 DEF Request, DestroyEnvironment, PrepareExec, GetRunningEnv, OpenExecWS,
            LookupRunning, Using

\* The other handlers, while w takes a step that creates or starts nothing.
LEMMA OthersStep ==
    ASSUME IInv, TypeOK', World, NEW w \in Workers,
           \A v \in Workers \ {w} : /\ pc'[v] = pc[v] /\ target'[v] = target[v]
                                    /\ caller'[v] = caller[v] /\ local'[v] = local[v],
           \A x \in Envs : Decay(container[x], container'[x])
    PROVE  \A v \in Workers \ {w} : HandlerOK(v)'
<1> SUFFICES ASSUME NEW v \in Workers, v # w PROVE HandlerOK(v)'
    OBVIOUS
<1>1. TypeOK /\ HandlerOK(v)
    BY DEF IInv, HandlersOK
<1>2. pc[v] \in Creating => target[v] \in Envs
    BY <1>1 DEF HandlerOK, HandlerBase, Creating, TypeOK
<1> QED  BY <1>1, <1>2, FrameHandler

\* A handler that has answered is idle.
LEMMA ReturnHandlers ==
    ASSUME IInv, TypeOK', World, NEW w \in Workers, Return(w),
           \A x \in Envs : Decay(container[x], container'[x])
    PROVE  HandlersOK' /\ OneCreator'
<1>1. \A v \in Workers \ {w} : HandlerOK(v)'
    BY OthersStep DEF Return, IInv, TypeOK
<1>2. HandlerOK(w)'
    BY DEF HandlerOK, Return, IInv, TypeOK
<1>3. OneCreator'
    BY DEF OneCreator, Return, IInv, TypeOK, Creating
<1> QED  BY <1>1, <1>2, <1>3 DEF HandlersOK

\* A handler that goes on from l to m with the object it has.
LEMMA GotoHandlers ==
    ASSUME IInv, TypeOK', World, NEW w \in Workers, NEW m, NEW c, Goto(w, m, c),
           pc[w] # "idle", HandlerAt(w)', HandlerBase(w)',
           m \in Creating => pc[w] \in Creating,
           \A v \in Workers \ {w} : local'[v] = local[v],
           \A x \in Envs : \/ Decay(container[x], container'[x])
                           \/ pc[w] \in Creating /\ x = target[w]
    PROVE  HandlersOK' /\ OneCreator'
<1>1. ASSUME NEW v \in Workers, v # w PROVE HandlerOK(v)'
    <2>1. TypeOK /\ HandlerOK(v)
        BY DEF IInv, HandlersOK
    <2>2. pc[v] \in Creating => target[v] \in Envs
        BY <2>1 DEF HandlerOK, HandlerBase, Creating, TypeOK
    <2>3. pc[v] \in Creating /\ pc[w] \in Creating => target[v] # target[w]
        BY <1>1 DEF IInv, OneCreator
    <2>4. pc'[v] = pc[v] /\ target'[v] = target[v] /\ caller'[v] = caller[v] /\ local'[v] = local[v]
        BY <1>1, <2>1 DEF Goto, TypeOK
    <2> QED  BY <2>1, <2>2, <2>3, <2>4, FrameHandler
<1>2. OneCreator'
    BY DEF OneCreator, Goto, IInv, TypeOK, Creating
<1> QED  BY <1>1, <1>2 DEF HandlersOK, HandlerOK

\* LastUsedAt = time.Now() on the way to the Update.
LEMMA TouchingHandlers ==
    ASSUME IInv, TypeOK', World, NEW w \in Workers, pc[w] \in Using,
           Assign(w, [EnvOf(w) EXCEPT !.lastUsed = clock]),
           NEW m \in {"touch", "ws_touch"}, NEW c, Goto(w, m, c),
           container' = container, clock' = clock, used' = used
    PROVE  HandlersOK' /\ OneCreator'
<1> TypeOK
    BY DEF IInv
<1>1. HandlerBase(w) /\ EnvOf(w).status = "running" /\ pc[w] # "idle"
    BY DEF IInv, HandlersOK, HandlerOK, HandlerAt, Using
<1>2. PICK e \in used : target[w] = e
    BY <1>1 DEF HandlerBase
<1>3. EnvOf(w) \in EnvRecord /\ e \in Envs
    BY <1>2, EnvOfType DEF TypeOK
<1> DEFINE r == [EnvOf(w) EXCEPT !.lastUsed = clock]
<1>4. /\ r.status = "running" /\ r.cid = EnvOf(w).cid /\ r.user = EnvOf(w).user
      /\ r.created = EnvOf(w).created /\ r.lastUsed = clock /\ r.expires = EnvOf(w).expires
    BY <1>1, <1>3 DEF EnvRecord
<1>5. Timed(r) /\ Bound(r, container[e])
    BY <1>1, <1>2, <1>3, <1>4 DEF HandlerBase, Timed, Bound, EnvRecord, TypeOK
<1>6. target'[w] = e /\ caller'[w] = caller[w] /\ pc'[w] = m
    BY <1>2 DEF Goto, TypeOK
<1>7. EnvOf(w)' = r
    <2> HIDE DEF r
    <2>1. Assign(w, r)
        BY DEF r
    <2> QED  BY <1>2, <1>3, <1>6, <2>1 DEF Assign, EnvOf, TypeOK
<1>8. rec'[e].user = rec[e].user /\ rec'[e].created = rec[e].created
    BY <1>2 DEF World, Kept
<1>9. HandlerBase(w)'
    <2> HIDE DEF r
    <2> QED  BY <1>1, <1>2, <1>4, <1>5, <1>6, <1>7, <1>8 DEF HandlerBase, Timed, Bound
<1>10. HandlerAt(w)'
    <2> HIDE DEF r
    <2> QED  BY <1>4, <1>6, <1>7 DEF HandlerAt
<1>11. \A v \in Workers \ {w} : local'[v] = local[v]
    BY DEF Assign, TypeOK
<1> QED  BY <1>1, <1>9, <1>10, <1>11, GotoHandlers DEF Creating, Decay

LEMMA ServiceHandlers ==
    ASSUME IInv, TypeOK', World, NEW w \in Workers, ServiceStep(w)
    PROVE  HandlersOK' /\ OneCreator'
<1> USE DEF storeVars, workerVars, reaperVars, failureVars, historyVars
<1> TypeOK
    BY DEF IInv
<1>0. pc[w] # "idle"
    BY DEF ServiceStep, CreateContainer, StartContainer, UndoStart, UndoCreate, MarkRunning,
       DestroyStop, DestroyDelete, StartExec, FileOp, StartSession, UseContainer, Touch,
       KeepAlive, EndSession
<1>1. HandlerBase(w) /\ HandlerAt(w)
    BY <1>0 DEF IInv, HandlersOK, HandlerOK
<1>2. PICK e \in used : target[w] = e
    BY <1>1 DEF HandlerBase
<1>3. EnvOf(w) \in EnvRecord /\ e \in Envs
    BY <1>2, EnvOfType DEF TypeOK
<1>4. CASE CreateContainer(w)
    <2>1. PICK out \in Outcomes, c \in Contexts :
            /\ container' = IF out = "failed" THEN container
                            ELSE [container EXCEPT ![e] = "created"]
            /\ \/ /\ Assign(w, [EnvOf(w) EXCEPT !.cid = "id"])
                  /\ out = "ok"
                  /\ Goto(w, "start_container", c)
               \/ /\ out # "ok"
                  /\ door' = IF out = "lost" THEN Opened({e}, "blind") ELSE door
                  /\ Goto(w, "undo_create", c)
                  /\ UNCHANGED <<rec, local>>
        BY <1>2, <1>4 DEF CreateContainer
    <2>2. container[e] = "none" /\ clock' = clock /\ used' = used /\ pc[w] \in Creating
        BY <1>1, <1>2, <1>4 DEF CreateContainer, HandlerAt, Creating
    <2>3. \A x \in Envs : Decay(container[x], container'[x]) \/ (pc[w] \in Creating /\ x = target[w])
        BY <1>2, <2>1, <2>2 DEF Decay, TypeOK
    <2>4. CASE /\ out # "ok"
               /\ door' = IF out = "lost" THEN Opened({e}, "blind") ELSE door
               /\ Goto(w, "undo_create", c)
               /\ UNCHANGED <<rec, local>>
        <3>1. HandlerBase(w)'
            BY <1>1, <2>4, BaseStep DEF Goto
        <3>2. Settled(e)' \/ container'[e] = "none"
            BY <1>3, <2>1, <2>2, <2>4 DEF Settled, Opened, Outcomes
        <3>3. HandlerAt(w)'
            BY <1>2, <2>4, <3>2 DEF HandlerAt, Goto, Using, Settled, TypeOK
        <3> QED  BY <1>0, <2>2, <2>3, <2>4, <3>1, <3>3, GotoHandlers
    <2>5. CASE /\ Assign(w, [EnvOf(w) EXCEPT !.cid = "id"])
               /\ out = "ok"
               /\ Goto(w, "start_container", c)
        <3> DEFINE r == [EnvOf(w) EXCEPT !.cid = "id"]
        <3>1. /\ r.status = EnvOf(w).status /\ r.cid = "id" /\ r.user = EnvOf(w).user
              /\ r.created = EnvOf(w).created /\ r.lastUsed = EnvOf(w).lastUsed
              /\ r.expires = EnvOf(w).expires
            BY <1>3 DEF EnvRecord
        <3>2. container'[e] = "created" /\ r.status # "running"
            BY <1>1, <1>2, <1>3, <2>1, <2>2, <2>5, <3>1 DEF HandlerBase, Bound, Started, TypeOK
        <3>3. target'[w] = e /\ caller'[w] = caller[w] /\ pc'[w] = "start_container"
            BY <1>2, <2>5 DEF Goto, TypeOK
        <3>4. EnvOf(w)' = r
            <4> HIDE DEF r
            <4>1. Assign(w, r)
                BY <2>5 DEF r
            <4> QED  BY <1>2, <1>3, <3>3, <4>1 DEF Assign, EnvOf, TypeOK
        <3>5. rec'[e].user = rec[e].user /\ rec'[e].created = rec[e].created
            BY <1>2 DEF World, Kept
        <3> HIDE DEF r
        <3>6. HandlerBase(w)'
            BY <1>1, <1>2, <2>2, <3>1, <3>2, <3>3, <3>4, <3>5 DEF HandlerBase, Timed, Bound
        <3>7. HandlerAt(w)'
            BY <3>1, <3>2, <3>3, <3>4 DEF HandlerAt, Using
        <3>8. \A v \in Workers \ {w} : local'[v] = local[v]
            BY <2>5 DEF Assign, TypeOK
        <3> QED  BY <1>0, <2>2, <2>3, <2>5, <3>6, <3>7, <3>8, GotoHandlers
    <2> QED  BY <2>1, <2>4, <2>5
<1>5. CASE StartContainer(w)
    <2>1. PICK out \in Outcomes, c \in Contexts :
            /\ container' = IF out # "failed" /\ container[e] = "created"
                            THEN [container EXCEPT ![e] = "running"] ELSE container
            /\ Goto(w, IF out = "ok" /\ container[e] = "created"
                       THEN "mark_running" ELSE "undo_start", c)
        BY <1>2, <1>5 DEF StartContainer
    <2>2. /\ EnvOf(w).cid # "no_id" /\ container[e] \in {"created", "removed"}
          /\ local' = local /\ rec' = rec /\ pc[w] \in Creating
        BY <1>1, <1>2, <1>5 DEF StartContainer, HandlerAt, Creating
    <2>3. \A x \in Envs : Decay(container[x], container'[x]) \/ (pc[w] \in Creating /\ x = target[w])
        BY <1>2, <2>1, <2>2 DEF Decay, TypeOK
    <2>4. HandlerBase(w)'
        BY <1>1, <2>1, <2>2, BaseStep DEF Goto
    <2>5. HandlerAt(w)'
        BY <1>2, <1>3, <2>1, <2>2 DEF HandlerAt, Goto, EnvOf, Using, Started, Outcomes, TypeOK
    <2>6. PICK m \in Creating : Goto(w, m, c)
        BY <2>1 DEF Creating
    <2> QED  BY <1>0, <2>2, <2>3, <2>4, <2>5, <2>6, GotoHandlers
<1>6. CASE UndoStart(w)
    <2>1. PICK c \in Contexts : StopContainer(w, e, c) /\ Goto(w, "undo_create", c)
        BY <1>2, <1>6 DEF UndoStart
    <2>2. container[e] # "none" /\ local' = local /\ pc[w] \in Creating
        BY <1>1, <1>2, <1>6 DEF UndoStart, HandlerAt, Creating
    <2>3. (\A x \in Envs : Decay(container[x], container'[x])) /\ Settled(e)'
        BY <1>3, <2>1, <2>2, StopEffect
    <2>4. HandlerBase(w)'
        BY <1>1, <2>1, <2>2, BaseStep DEF Goto
    <2>5. HandlerAt(w)'
        BY <1>2, <2>1, <2>3 DEF HandlerAt, Goto, Using, Settled, TypeOK
    <2> QED  BY <1>0, <2>1, <2>2, <2>3, <2>4, <2>5, GotoHandlers
<1>7. CASE UndoCreate(w) \/ DestroyDelete(w) \/ EndSession(w) \/ MarkRunning(w)
    BY <1>7, ReturnHandlers DEF UndoCreate, DestroyDelete, EndSession, MarkRunning, Decay
<1>8. CASE DestroyStop(w)
    <2>1. PICK c \in Contexts : /\ StopKnown(w, e, EnvOf(w).cid, c)
                                /\ Goto(w, "destroy_delete", c)
        BY <1>2, <1>8 DEF DestroyStop
    <2>2. (\A x \in Envs : Decay(container[x], container'[x])) /\ Settled(e)'
        BY <1>1, <1>2, <1>3, <2>1, StopKnownEffect DEF HandlerBase, Bound
    <2>3. local' = local
        BY <1>8 DEF DestroyStop
    <2>4. HandlerBase(w)'
        BY <1>1, <2>1, <2>3, BaseStep DEF Goto
    <2>5. HandlerAt(w)'
        BY <1>2, <2>1, <2>2 DEF HandlerAt, Goto, Using, Settled, TypeOK
    <2> QED  BY <1>0, <2>1, <2>2, <2>3, <2>4, <2>5, GotoHandlers DEF Creating
<1>9. CASE StartExec(w) \/ FileOp(w) \/ StartSession(w)
    <2>1. pc[w] \in Using /\ container' = container /\ clock' = clock /\ used' = used
        BY <1>9 DEF StartExec, FileOp, StartSession, UseContainer, Using
    <2>2. CASE Return(w)
        BY <2>1, <2>2, ReturnHandlers DEF Decay
    <2>3. CASE ~Return(w)
        <3>1. PICK m \in {"touch", "ws_touch"} : Goto(w, m, "live")
            BY <1>9, <2>3 DEF StartExec, FileOp, StartSession, UseContainer
        <3>2. Assign(w, [EnvOf(w) EXCEPT !.lastUsed = clock])
            BY <1>9, <2>3 DEF StartExec, FileOp, StartSession, UseContainer
        <3> QED  BY <2>1, <3>1, <3>2, TouchingHandlers
    <2> QED  BY <2>2, <2>3
<1>10. CASE Touch(w)
    <2>1. pc[w] \in Using /\ container' = container
        BY <1>10 DEF Touch, Using
    <2>2. CASE Return(w)
        BY <2>1, <2>2, ReturnHandlers DEF Decay
    <2>3. ASSUME NEW c \in Contexts, Goto(w, "ws_stream", c), UNCHANGED local,
                 NEW out \in Outcomes, rec' = Updated(target[w], EnvOf(w), out)
          PROVE  HandlersOK' /\ OneCreator'
        <3>1. HandlerBase(w)'
            BY <1>1, <2>3, BaseStep DEF Goto
        <3>2. EnvOf(w)' = EnvOf(w)
            BY <1>2, <1>3, <2>3 DEF EnvOf, Goto, Updated, TypeOK
        <3>3. HandlerAt(w)'
            BY <1>1, <2>1, <2>3, <3>2 DEF HandlerAt, Goto, TypeOK
        <3> QED  BY <1>0, <2>1, <2>3, <3>1, <3>3, GotoHandlers DEF Decay, Creating
    <2> QED  BY <1>10, <2>2, <2>3 DEF Touch
<1>11. CASE KeepAlive(w)
    BY <1>11, TouchingHandlers DEF KeepAlive, Using
<1> QED  BY <1>4, <1>5, <1>6, <1>7, <1>8, <1>9, <1>10, <1>11 DEF ServiceStep

LEMMA HandlersStep ==
    ASSUME IInv, TypeOK', [Next]_vars, World, RecordsOK'
    PROVE  HandlersOK' /\ OneCreator'
<1> USE DEF storeVars, workerVars, reaperVars, failureVars, historyVars
<1> TypeOK
    BY DEF IInv
<1>1. ASSUME UNCHANGED workerVars, \A x \in Envs : Decay(container[x], container'[x])
      PROVE  HandlersOK' /\ OneCreator'
    <2>1. ASSUME NEW v \in Workers PROVE HandlerOK(v)'
        <3>1. HandlerOK(v) /\ (pc[v] \in Creating => target[v] \in Envs)
            BY DEF IInv, HandlersOK, HandlerOK, HandlerBase, Creating, TypeOK
        <3> QED  BY <1>1, <3>1, FrameHandler
    <2> QED  BY <1>1, <2>1 DEF HandlersOK, IInv, OneCreator
<1>2. CASE ReaperStep
    <2>1. CASE ReapStop
        <3>1. PICK c \in Contexts : StopKnown(Reaper, rcur, ReaperCid, c)
            BY <2>1 DEF ReapStop
        <3>2. rcur \in Envs /\ (ReaperCid # "no_id" => container[rcur] # "none")
            BY <2>1 DEF ReapStop, IInv, ReaperOK, ReaperCid, RecordsOK, Bound, TypeOK
        <3> QED  BY <1>1, <2>1, <3>1, <3>2, StopKnownEffect DEF ReapStop
    <2>2. CASE ReapList \/ (\E e \in Envs : ReapNext(e)) \/ ReapDelete
        BY <1>1, <2>2 DEF ReapList, ReapNext, ReapDelete, Decay
    <2> QED  BY <1>2, <2>1, <2>2 DEF ReaperStep
<1>3. CASE \/ \E p \in Workers \cup {Reaper} : CancelContext(p)
           \/ Tick
           \/ UNCHANGED vars
    BY <1>1, <1>3 DEF CancelContext, Tick, vars, Decay
<1>4. ASSUME NEW e \in Envs, ContainerDies(e) PROVE HandlersOK' /\ OneCreator'
    BY <1>1, <1>4 DEF ContainerDies, Decay, Live, TypeOK
<1>5. CASE Crash
    BY <1>5 DEF Crash, HandlersOK, HandlerOK, OneCreator, Creating
<1> QED  BY <1>2, <1>3, <1>4, <1>5, RequestHandlers, ServiceHandlers DEF Next

-----------------------------------------------------------------------------
(* The reaper, and records that are gone.                                  *)

\* Steps of the others keep the reaper's facts.
LEMMA ReaperFrame ==
    ASSUME IInv, TypeOK', World, UNCHANGED reaperVars
    PROVE  ReaperOK'
<1> TypeOK /\ ReaperOK /\ UNCHANGED <<rpc, queue, known, rcur>>
    BY DEF IInv, reaperVars
<1>1. \A e \in Envs : Settled(e) => Settled(e)'
    BY DEF World, Settled, Evolve, Decay, Live
<1>2. \A e \in Envs : container[e] # "none" => container'[e] # "none"
    BY DEF World, Evolve, Decay
<1>3. NoEarlyReap'
    <2>1. NoEarlyReap
        BY DEF ReaperOK
    <2>2. \A e \in used : /\ e \in used' /\ rec'[e].created = rec[e].created
                         /\ rec[e].created \in Nat
        BY DEF World, Kept, EnvRecord, TypeOK
    <2>3. clock \in Nat /\ clock' \in Nat /\ clock <= clock'
        BY DEF World, TypeOK
    <2> QED  BY <2>1, <2>2, <2>3 DEF NoEarlyReap
<1>4. rpc = "delete" => Settled(rcur)'
    BY <1>1 DEF ReaperOK, TypeOK, Settled
<1> QED  BY <1>2, <1>3, <1>4 DEF ReaperOK, World, TypeOK

LEMMA ReaperOwnStep ==
    ASSUME IInv, TypeOK', World, ReaperStep
    PROVE  ReaperOK'
<1> USE DEF storeVars, workerVars, reaperVars, failureVars, historyVars
<1> TypeOK /\ ReaperOK /\ RecordsOK
    BY DEF IInv
<1>1. CASE ReapList
    <2>1. /\ queue' = ListExpired /\ known' = {e \in ListExpired : rec[e].cid # "no_id"}
          /\ rpc' \in {"idle", "scan"} /\ rcur' = rcur /\ rpc = "idle"
          /\ used' = used /\ rec' = rec /\ clock' = clock /\ container' = container
        BY <1>1 DEF ReapList
    <2>2. queue' \subseteq used
        BY <2>1 DEF ListExpired, TypeOK
    <2>3. \A e \in known' : container'[e] # "none"
        BY <2>1 DEF ListExpired, RecordsOK, Bound, TypeOK
    <2>4. \A e \in queue' : clock > rec[e].created + IdleTimeout \/ clock > rec[e].created + MaxLifetime
        BY <2>1, <2>2 DEF ListExpired, IdleExpired, LifetimeExpired, RecordsOK, Timed, EnvRecord, TypeOK
    <2>5. NoEarlyReap'
        BY <2>1, <2>2, <2>4 DEF NoEarlyReap, ReaperOK
    <2> QED  BY <2>1, <2>2, <2>3, <2>5 DEF ReaperOK
<1>2. ASSUME NEW e \in Envs, ReapNext(e) PROVE ReaperOK'
    <2>1. /\ e \in queue /\ queue' = queue \ {e} /\ rcur' = e /\ rpc' = "stop" /\ known' = known
          /\ used' = used /\ rec' = rec /\ clock' = clock /\ container' = container
        BY <1>2 DEF ReapNext
    <2> QED  BY <2>1 DEF ReaperOK, NoEarlyReap
<1>3. CASE ReapStop
    <2>1. PICK c \in Contexts : StopKnown(Reaper, rcur, ReaperCid, c)
        BY <1>3 DEF ReapStop
    <2>2. PICK e \in used : rcur = e
        BY <1>3 DEF ReapStop, ReaperOK
    <2>3. e \in Envs /\ (ReaperCid # "no_id" => container[e] # "none")
        BY <2>2 DEF ReaperOK, ReaperCid, RecordsOK, Bound, TypeOK
    <2>4. Settled(e)'
        BY <2>1, <2>2, <2>3, StopKnownEffect
    <2>5. \A x \in known : container'[x] # "none"
        BY DEF World, Evolve, Decay, ReaperOK, TypeOK
    <2>6. /\ queue' = queue /\ known' = known /\ rcur' = rcur /\ rpc' = "delete"
          /\ used' = used /\ rec' = rec /\ clock' = clock
        BY <1>3 DEF ReapStop
    <2> QED  BY <2>2, <2>4, <2>5, <2>6 DEF ReaperOK, NoEarlyReap, Settled
<1>4. CASE ReapDelete
    <2>1. /\ queue' = queue /\ known' \subseteq known /\ rcur' = NoEnv /\ rpc' \in {"idle", "scan"}
          /\ used' = used /\ rec' = rec /\ clock' = clock /\ container' = container
        BY <1>4 DEF ReapDelete
    <2> QED  BY <2>1 DEF ReaperOK, NoEarlyReap
<1> QED  BY <1>1, <1>2, <1>3, <1>4 DEF ReaperStep

LEMMA ReaperInvStep ==
    ASSUME IInv, TypeOK', [Next]_vars, World
    PROVE  ReaperOK'
<1>1. CASE ReaperStep
    BY <1>1, ReaperOwnStep
<1>2. CASE Crash
    BY <1>2 DEF Crash, ReaperOK, NoEarlyReap
<1>3. CASE UNCHANGED reaperVars
    BY <1>3, ReaperFrame
<1>4. ASSUME NEW w \in Workers, ServiceStep(w) PROVE UNCHANGED reaperVars
    BY <1>4 DEF ServiceStep, CreateContainer, StartContainer, UndoStart, UndoCreate, MarkRunning,
       DestroyStop, DestroyDelete, StartExec, FileOp, StartSession, UseContainer, Touch,
       KeepAlive, EndSession
<1>5. ASSUME NEW w \in Workers, NEW u \in Users, NEW e \in Envs, Request(w, u, e)
      PROVE  UNCHANGED reaperVars
    BY <1>5 DEF Request, CreateEnvironment, DestroyEnvironment, PrepareExec, GetRunningEnv,
       OpenExecWS, LookupRunning, Lookup
<1>6. ASSUME NEW p, CancelContext(p) PROVE UNCHANGED reaperVars
    BY <1>6 DEF CancelContext
<1>7. ASSUME NEW e, ContainerDies(e) PROVE UNCHANGED reaperVars
    BY <1>7 DEF ContainerDies
<1>8. CASE Tick
    BY <1>3, <1>8 DEF Tick
<1>9. CASE UNCHANGED vars
    BY <1>3, <1>9 DEF vars
<1> QED  BY <1>1, <1>2, <1>3, <1>4, <1>5, <1>6, <1>7, <1>8, <1>9 DEF Next

\* What was gone stays gone, unless someone creates it.
LEMMA GoneFrame ==
    ASSUME IInv, TypeOK', World, NEW e \in used, Gone(e),
           \A w \in Workers : pc'[w] = "create_container" /\ target'[w] = e
                              => pc[w] = "create_container" /\ target[w] = e,
           Decay(container[e], container'[e])
    PROVE  Gone(e)'
<1> e \in Envs
    BY DEF IInv, TypeOK
<1>1. Settled(e) => Settled(e)'
    BY DEF World, Settled, Decay, Live
<1>2. container[e] = "none" => container'[e] = "none"
    BY DEF Decay, Live
<1> QED  BY <1>1, <1>2 DEF Gone

\* A record is deleted by a handler or a reap cycle that has settled e, or by
\* the one handler that has failed to create its container.
LEMMA GoneStep ==
    ASSUME IInv, TypeOK', [Next]_vars, World
    PROVE  GoneOK'
<1> USE DEF storeVars, workerVars, reaperVars, failureVars, historyVars
<1> TypeOK /\ GoneOK /\ HandlersOK /\ OneCreator /\ ReaperOK /\ RecordsOK
    BY DEF IInv
<1>1. ASSUME NEW w \in Workers, Return(w), container' = container, door' = door, used' = used,
             NEW u, NEW out, stored' = Deleted(u, target[w], out),
             pc[w] \in {"undo_create", "destroy_delete"}
      PROVE  GoneOK'
    <2> SUFFICES ASSUME NEW e \in used, e \notin stored' PROVE Gone(e)'
        BY <1>1 DEF GoneOK
    <2>1. \A v \in Workers : pc'[v] = "create_container" /\ target'[v] = e
                             => pc[v] = "create_container" /\ target[v] = e
        BY <1>1 DEF Return, TypeOK
    <2>2. CASE e \notin stored
        BY <1>1, <2>1, <2>2, GoneFrame DEF GoneOK, Decay
    <2>3. CASE e \in stored
        <3>1. target[w] = e
            BY <1>1, <2>3 DEF Deleted
        <3>2. Settled(e) \/ (pc[w] = "undo_create" /\ container[e] = "none")
            BY <1>1, <3>1 DEF HandlersOK, HandlerOK, HandlerAt
        <3>3. pc[w] = "undo_create" =>
                 \A v \in Workers : target[v] = e => pc[v] # "create_container"
            BY <3>1 DEF OneCreator, Creating
        <3>4. Gone(e)
            BY <3>2, <3>3 DEF Gone
        <3> QED  BY <1>1, <2>1, <3>4, GoneFrame DEF Decay
    <2> QED  BY <2>2, <2>3
<1>2. ASSUME NEW w \in Workers, ServiceStep(w) PROVE GoneOK'
    <2>1. CASE UndoCreate(w)
        BY <1>1, <2>1 DEF UndoCreate
    <2>2. CASE DestroyDelete(w)
        BY <1>1, <2>2 DEF DestroyDelete
    <2>3. CASE CreateContainer(w)
        <3>1. /\ stored' = stored /\ used' = used /\ pc[w] = "create_container"
              /\ \E m \in WorkerPCs \ {"create_container"}, c \in Contexts : Goto(w, m, c)
              /\ \A x \in Envs \ {target[w]} : container'[x] = container[x]
            BY <2>3 DEF CreateContainer, WorkerPCs, TypeOK
        <3> SUFFICES ASSUME NEW e \in used, e \notin stored PROVE Gone(e)'
            BY <3>1 DEF GoneOK
        <3>2. e \in Envs /\ Gone(e)
            BY DEF GoneOK, TypeOK
        <3>3. CASE target[w] # e
            BY <3>1, <3>2, <3>3, GoneFrame DEF Decay, Goto, TypeOK
        <3>4. CASE target[w] = e
            <4>1. door[e] # "shut"
                BY <3>1, <3>2, <3>4 DEF Gone, Settled, HandlersOK, HandlerOK, HandlerAt
            <4> QED  BY <3>2, <4>1 DEF Gone, Settled, World
        <3> QED  BY <3>3, <3>4
    <2>4. CASE StartContainer(w)
        <3>1. /\ stored' = stored /\ used' = used /\ pc[w] = "start_container"
              /\ \E m \in WorkerPCs \ {"create_container"}, c \in Contexts : Goto(w, m, c)
              /\ \A x \in Envs \ {target[w]} : container'[x] = container[x]
            BY <2>4 DEF StartContainer, WorkerPCs, TypeOK
        <3> SUFFICES ASSUME NEW e \in used, e \notin stored PROVE Gone(e)'
            BY <3>1 DEF GoneOK
        <3>2. e \in Envs /\ Gone(e)
            BY DEF GoneOK, TypeOK
        <3>3. CASE target[w] # e
            BY <3>1, <3>2, <3>3, GoneFrame DEF Decay, Goto, TypeOK
        <3>4. CASE target[w] = e
            <4>1. Settled(e)
                BY <3>1, <3>2, <3>4 DEF Gone, HandlersOK, HandlerOK, HandlerAt
            <4>2. Settled(e)'
                BY <3>2, <4>1 DEF World, Settled, Evolve, Decay, Live
            <4> QED  BY <4>2 DEF Gone
        <3> QED  BY <3>3, <3>4
    <2>5. ASSUME stored' = stored, used' = used,
                 \A v \in Workers : pc'[v] = "create_container" =>
                                    pc[v] = "create_container" /\ target'[v] = target[v],
                 \A x \in Envs : Decay(container[x], container'[x])
          PROVE  GoneOK'
        <3> SUFFICES ASSUME NEW e \in used, e \notin stored PROVE Gone(e)'
            BY <2>5 DEF GoneOK
        <3> QED  BY <2>5, GoneFrame DEF GoneOK, TypeOK
    <2>6. CASE UndoStart(w)
        <3>1. target[w] \in Envs
            BY <2>6 DEF UndoStart, HandlersOK, HandlerOK, HandlerBase, TypeOK
        <3>2. \A x \in Envs : Decay(container[x], container'[x])
            BY <2>6, <3>1, StopEffect DEF UndoStart
        <3> QED  BY <2>5, <2>6, <3>2 DEF UndoStart, Goto, TypeOK
    <2>7. CASE DestroyStop(w)
        <3>1. /\ target[w] \in Envs
              /\ EnvOf(w).cid # "no_id" => container[target[w]] # "none"
            BY <2>7 DEF DestroyStop, HandlersOK, HandlerOK, HandlerBase, Bound, TypeOK
        <3>2. \A x \in Envs : Decay(container[x], container'[x])
            BY <2>7, <3>1, StopKnownEffect DEF DestroyStop
        <3> QED  BY <2>5, <2>7, <3>2 DEF DestroyStop, Goto, TypeOK
    <2>8. CASE MarkRunning(w) \/ EndSession(w)
        BY <2>5, <2>8 DEF MarkRunning, EndSession, Return, Decay, TypeOK
    <2>9. CASE StartExec(w) \/ FileOp(w) \/ StartSession(w) \/ KeepAlive(w)
        BY <2>5, <2>9 DEF StartExec, FileOp, StartSession, UseContainer, KeepAlive,
           Return, Goto, Decay, TypeOK
    <2>10. CASE Touch(w)
        BY <2>5, <2>10 DEF Touch, Return, Goto, Decay, TypeOK
    <2> QED  BY <1>2, <2>1, <2>2, <2>3, <2>4, <2>6, <2>7, <2>8, <2>9, <2>10 DEF ServiceStep
<1>3. ASSUME NEW w \in Workers, NEW u \in Users, NEW e \in Envs, Request(w, u, e)
      PROVE  GoneOK'
    <2>1. CASE CreateEnvironment(w, u, e)
        <3>1. /\ stored' = stored \cup {e} /\ used' = used \cup {e} /\ container' = container
              /\ e \notin used
              /\ \/ Begin(w, "create_container", u, e, NewRecord(u))
                 \/ UNCHANGED workerVars
            BY <2>1 DEF CreateEnvironment
        <3> SUFFICES ASSUME NEW x \in used, x \notin stored, x # e PROVE Gone(x)'
            BY <3>1 DEF GoneOK
        <3> QED  BY <3>1, GoneFrame DEF GoneOK, Decay, Begin, TypeOK
    <2>2. ASSUME NEW l, l # "create_container", Lookup(w, l, u, e) PROVE GoneOK'
        <3>1. /\ stored' = stored /\ used' = used /\ container' = container
              /\ Begin(w, l, u, e, rec[e])
            BY <2>2 DEF Lookup
        <3> SUFFICES ASSUME NEW x \in used, x \notin stored PROVE Gone(x)'
            BY <3>1 DEF GoneOK
        <3> QED  BY <2>2, <3>1, GoneFrame DEF GoneOK, Decay, Begin, TypeOK
    <2> QED  BY <1>3, <2>1, <2>2 DEF Request, DestroyEnvironment, PrepareExec, GetRunningEnv,
                OpenExecWS, LookupRunning
<1>4. ASSUME stored' = stored, used' = used, UNCHANGED workerVars,
             \A x \in Envs : Decay(container[x], container'[x])
      PROVE  GoneOK'
    <2> SUFFICES ASSUME NEW e \in used, e \notin stored PROVE Gone(e)'
        BY <1>4 DEF GoneOK
    <2> QED  BY <1>4, GoneFrame DEF GoneOK, TypeOK
<1>5. CASE ReaperStep
    <2>1. CASE ReapList \/ \E e \in Envs : ReapNext(e)
        BY <1>4, <2>1 DEF ReapList, ReapNext, Decay
    <2>2. CASE ReapStop
        <3>1. rcur \in Envs /\ (ReaperCid # "no_id" => container[rcur] # "none")
            BY <2>2 DEF ReapStop, ReaperOK, ReaperCid, RecordsOK, Bound, TypeOK
        <3> QED  BY <1>4, <2>2, <3>1, StopKnownEffect DEF ReapStop
    <2>3. CASE ReapDelete
        <3>1. /\ used' = used /\ container' = container /\ UNCHANGED workerVars
              /\ \A e \in stored : e \notin stored' => e = rcur
              /\ rpc = "delete"
            BY <2>3 DEF ReapDelete, Deleted
        <3> SUFFICES ASSUME NEW e \in used, e \notin stored' PROVE Gone(e)'
            BY <3>1 DEF GoneOK
        <3>2. Gone(e)
            BY <3>1 DEF GoneOK, ReaperOK, Gone
        <3> QED  BY <3>1, <3>2, GoneFrame DEF Decay
    <2> QED  BY <1>5, <2>1, <2>2, <2>3 DEF ReaperStep
<1>6. CASE \/ \E p \in Workers \cup {Reaper} : CancelContext(p)
           \/ Tick
           \/ UNCHANGED vars
    BY <1>4, <1>6 DEF CancelContext, Tick, vars, Decay
<1>7. ASSUME NEW e \in Envs, ContainerDies(e) PROVE GoneOK'
    BY <1>4, <1>7 DEF ContainerDies, Decay, Live, TypeOK
<1>8. CASE Crash
    <2> SUFFICES ASSUME NEW e \in used, e \notin stored' PROVE Gone(e)'
        BY <1>8 DEF GoneOK, Crash
    <2>1. CASE e \in stored
        BY <1>8, <2>1 DEF Crash, Opened, Gone, Settled, TypeOK
    <2>2. CASE e \notin stored
        BY <1>8, <2>2, GoneFrame DEF Crash, GoneOK, Decay
    <2> QED  BY <2>1, <2>2
<1> QED  BY <1>2, <1>3, <1>5, <1>6, <1>7, <1>8 DEF Next

-----------------------------------------------------------------------------
(* The theorems.                                                           *)

LEMMA InvStep == IInv /\ [Next]_vars => IInv'
<1> SUFFICES ASSUME IInv, [Next]_vars PROVE IInv'
    OBVIOUS
<1>1. TypeOK'
    BY TypeStep DEF IInv
<1>2. World /\ RecordsOK'
    BY <1>1, WorldStep
<1>3. HandlersOK' /\ OneCreator'
    BY <1>1, <1>2, HandlersStep
<1>4. ReaperOK'
    BY <1>1, <1>2, ReaperInvStep
<1>5. GoneOK'
    BY <1>1, <1>2, GoneStep
<1> QED  BY <1>1, <1>2, <1>3, <1>4, <1>5 DEF IInv

\* The inductive invariant: records, handlers, reaper and deleted records are
\* consistent with the containers in every reachable state.
THEOREM Invariance == Spec => []IInv
BY InitOK, InvStep, PTL DEF Spec

\* Every variable keeps its type, for all parameters and both stores.
THEOREM TypeCorrect == Spec => []TypeOK
<1>1. IInv => TypeOK
    BY DEF IInv
<1> QED  BY <1>1, Invariance, PTL

\* Containers are orphaned only through the three doors: no interleaving of
\* CreateEnvironment, DestroyEnvironment, the reaper, cancellations, faults
\* and restarts loses one in a fourth way.
THEOREM OnlyKnownOrphans == Spec => []OrphansExplained
<1>1. IInv => OrphansExplained
    <2> SUFFICES ASSUME IInv, NEW e \in Envs, Orphan(e) PROVE door[e] # "shut"
        BY DEF OrphansExplained
    <2>1. e \in used
        BY DEF Orphan, IInv, RecordsOK, Live
    <2>2. Gone(e)
        BY <2>1 DEF Orphan, IInv, GoneOK
    <2> QED  BY <2>2 DEF Orphan, Gone, Settled, Live
<1> QED  BY <1>1, Invariance, PTL

\* No handler calls the engine with an empty container ID, and "running" is
\* never said of an environment whose container was not started.
THEOREM RunningHasContainer == Spec => []RunningIsBound
<1>1. IInv => RunningIsBound
    <2> SUFFICES ASSUME IInv PROVE RunningIsBound
        OBVIOUS
    <2>1. \A e \in stored : rec[e].status = "running" =>
             rec[e].cid # "no_id" /\ container[e] \notin {"none", "created"}
        BY DEF IInv, TypeOK, RecordsOK, Bound, Started
    <2>2. ASSUME NEW w \in Workers, pc[w] \in Using
          PROVE  /\ EnvOf(w).status = "running" /\ EnvOf(w).cid # "no_id"
                 /\ container[target[w]] \notin {"none", "created"}
        BY <2>2 DEF IInv, HandlersOK, HandlerOK, HandlerBase, HandlerAt, Bound, Started, Using
    <2> QED  BY <2>1, <2>2 DEF RunningIsBound, Using
<1> QED  BY <1>1, Invariance, PTL

\* The reaper never takes an environment younger than the idle timeout or the
\* lifetime, whatever stale updates it has read.
THEOREM ReapsOnlyExpired == Spec => []NoEarlyReap
<1>1. IInv => NoEarlyReap
    BY DEF IInv, ReaperOK
<1> QED  BY <1>1, Invariance, PTL

\* No sequence of read-modify-write updates moves the expiry of a record.
THEOREM LifetimeFixed == Spec => []LifetimeIsFixed
<1>1. IInv => LifetimeIsFixed
    BY DEF IInv, RecordsOK, Timed, LifetimeIsFixed
<1> QED  BY <1>1, Invariance, PTL

\* A handler works on an environment of its caller from its Get to its last
\* store or engine call.
THEOREM TargetsOwned == Spec => []CallersOwnTargets
<1>1. IInv => CallersOwnTargets
    BY DEF IInv, HandlersOK, HandlerOK, HandlerBase, CallersOwnTargets
<1> QED  BY <1>1, Invariance, PTL

-----------------------------------------------------------------------------
(* What a client was told.                                                 *)

\* A record that is gone does not come back.
LEMMA NoReturn ==
    ASSUME [Next]_vars, TypeOK
    PROVE  stored' \cap used \subseteq stored
<1> USE DEF storeVars, workerVars, reaperVars, failureVars, historyVars
<1>1. CASE UNCHANGED stored
    BY <1>1
<1>2. ASSUME NEW w \in Workers, NEW u \in Users, NEW e \in Envs, Request(w, u, e)
      PROVE  stored' \cap used \subseteq stored
    <2>1. CASE CreateEnvironment(w, u, e)
        BY <2>1 DEF CreateEnvironment
    <2>2. ASSUME NEW l, Lookup(w, l, u, e) PROVE UNCHANGED stored
        BY <2>2 DEF Lookup
    <2> QED  BY <1>1, <1>2, <2>1, <2>2 DEF Request, DestroyEnvironment, PrepareExec, GetRunningEnv,
                OpenExecWS, LookupRunning
<1>3. ASSUME NEW w \in Workers, ServiceStep(w)
      PROVE  stored' \cap used \subseteq stored
    BY <1>3 DEF ServiceStep, CreateContainer, StartContainer, UndoStart, UndoCreate, MarkRunning,
       DestroyStop, DestroyDelete, StartExec, FileOp, StartSession, UseContainer, Touch,
       KeepAlive, EndSession, Deleted
<1>4. CASE ReaperStep
    BY <1>4 DEF ReaperStep, ReapList, ReapNext, ReapStop, ReapDelete, Deleted
<1>5. CASE \/ \E p \in Workers \cup {Reaper} : CancelContext(p)
           \/ \E e \in Envs : ContainerDies(e)
           \/ Tick \/ Crash
           \/ UNCHANGED vars
    BY <1>5 DEF CancelContext, ContainerDies, Tick, Crash, vars
<1> QED  BY <1>2, <1>3, <1>4, <1>5 DEF Next

\* An answer is given by MarkRunning, whose Update has reached the record
\* unless it failed.
LEMMA AckedNow ==
    ASSUME IInv, [Next]_vars, NEW a \in acked' \ acked, a.env \in stored', a.update # "failed"
    PROVE  rec'[a.env].status = "running"
<1> USE DEF storeVars, workerVars, reaperVars, failureVars, historyVars
<1>1. CASE UNCHANGED acked
    BY <1>1
<1>2. ASSUME NEW w \in Workers, MarkRunning(w) PROVE rec'[a.env].status = "running"
    <2> DEFINE e == target[w]
               r == [EnvOf(w) EXCEPT !.status = "running"]
    <2>1. PICK out \in Outcomes :
            /\ rec' = Updated(e, r, out)
            /\ acked' \subseteq acked \cup {[env |-> e, update |-> out]}
        BY <1>2 DEF MarkRunning
    <2>2. a.env = e /\ out # "failed" /\ e \in stored
        BY <1>2, <2>1 DEF MarkRunning
    <2>3. EnvOf(w).user = rec[e].user /\ e \in Envs /\ rec \in [Envs -> EnvRecord] /\ TypeOK
        BY <1>2, <2>2 DEF IInv, HandlersOK, HandlerOK, HandlerBase, MarkRunning, TypeOK
    <2>4. EnvOf(w) \in EnvRecord
        BY <2>3, EnvOfType
    <2>5. r.status = "running" /\ r.user = rec[e].user
        BY <2>3, <2>4 DEF EnvRecord
    <2> HIDE DEF e, r
    <2> QED  BY <2>1, <2>2, <2>3, <2>5 DEF Updated
<1>3. ASSUME NEW w \in Workers, NEW u \in Users, NEW e \in Envs, Request(w, u, e)
      PROVE  UNCHANGED acked
    BY <1>3 DEF Request, CreateEnvironment, DestroyEnvironment, PrepareExec, GetRunningEnv,
       OpenExecWS, LookupRunning, Lookup
<1>4. ASSUME NEW w \in Workers, ServiceStep(w), ~MarkRunning(w)
      PROVE  UNCHANGED acked
    BY <1>4 DEF ServiceStep, CreateContainer, StartContainer, UndoStart, UndoCreate,
       DestroyStop, DestroyDelete, StartExec, FileOp, StartSession, UseContainer, Touch,
       KeepAlive, EndSession
<1>5. CASE ReaperStep
    BY <1>1, <1>5 DEF ReaperStep, ReapList, ReapNext, ReapStop, ReapDelete
<1>6. CASE \/ \E p \in Workers \cup {Reaper} : CancelContext(p)
           \/ \E e \in Envs : ContainerDies(e)
           \/ Tick \/ Crash
           \/ UNCHANGED vars
    BY <1>1, <1>6 DEF CancelContext, ContainerDies, Tick, Crash, vars
<1> QED  BY <1>1, <1>2, <1>3, <1>4, <1>5, <1>6 DEF Next

\* No client of CreateEnvironment is told "running" of an environment that is
\* or will be "creating" in the store, unless the Update failed: no handler
\* has an old copy to write back over the status.
THEOREM AckedAlwaysRunning == Spec => []AckedIsRunning
<1>1. Init => AckedIsRunning
    BY DEF Init, AckedIsRunning
<1>2. IInv /\ AckedIsRunning /\ [Next]_vars => AckedIsRunning'
    <2> SUFFICES ASSUME IInv, AckedIsRunning, [Next]_vars,
                        NEW a \in acked', a.env \in stored', a.update # "failed"
                 PROVE  rec'[a.env].status = "running"
        BY DEF AckedIsRunning
    <2>1. CASE a \in acked
        <3>1. a.env \in used /\ a.env \in stored
            BY <2>1, NoReturn DEF IInv, TypeOK
        <3>2. Kept(a.env)
            BY <3>1, InvStep, WorldStep DEF IInv, World
        <3> QED  BY <2>1, <3>1, <3>2 DEF AckedIsRunning, Kept
    <2>2. CASE a \notin acked
        BY <2>2, AckedNow
    <2> QED  BY <2>1, <2>2
<1> QED  BY <1>1, <1>2, Invariance, PTL DEF Spec

-----------------------------------------------------------------------------
(* EnvLifecycle implements EnvRegistry.                                    *)

LEMMA PhaseType ==
    ASSUME TypeOK
    PROVE  \A e \in Envs : /\ e \in stored => Phase[e] = rec[e].status
                           /\ rec[e].status \in {"creating", "running"}
                           /\ e \in used \ stored => Phase[e] = "gone"
                           /\ e \notin used => Phase[e] = "unknown"
BY DEF TypeOK, Phase, EnvRecord, Statuses

\* Writes to at most one record, which does not fall back to creating.
LEMMA WriteSimulated ==
    ASSUME TypeOK, TypeOK', NEW e \in Envs, stored' = stored, used' = used,
           \A x \in Envs \ {e} : rec'[x] = rec[x],
           rec[e].status = "running" => rec'[e].status = "running"
    PROVE  [Registry!RegistryNext]_Phase
<1>1. \A x \in Envs \ {e} : Phase'[x] = Phase[x]
    BY DEF Phase
<1>2. CASE Phase'[e] = Phase[e]
    <2>1. Phase' = Phase
        BY <1>1, <1>2 DEF Phase
    <2> QED  BY <2>1
<1>3. CASE Phase'[e] # Phase[e]
    <2>1. e \in stored /\ Phase[e] = rec[e].status /\ Phase'[e] = rec'[e].status
        BY <1>3 DEF Phase, TypeOK
    <2>2. Phase[e] = "creating" /\ Phase'[e] = "running"
        BY <1>3, <2>1, PhaseType DEF TypeOK, EnvRecord, Statuses
    <2>3. Phase' = [Phase EXCEPT ![e] = "running"]
        BY <1>1, <2>2 DEF Phase
    <2>4. Registry!Activate(e)
        BY <2>2, <2>3 DEF Registry!Activate
    <2> QED  BY <2>4 DEF Registry!RegistryNext
<1> QED  BY <1>2, <1>3

\* Records that leave the store.
LEMMA RemovalSimulated ==
    ASSUME TypeOK, NEW S \in SUBSET Envs, S \subseteq stored, stored' = stored \ S,
           used' = used, rec' = rec
    PROVE  [Registry!RegistryNext]_Phase
<1>1. Phase' = [x \in Envs |-> IF x \in S THEN "gone" ELSE Phase[x]]
    BY DEF Phase, TypeOK
<1>2. CASE S = {}
    BY <1>2 DEF Phase
<1>3. CASE S # {}
    <2>1. Registry!Retire(S)
        BY <1>1, <1>3, PhaseType DEF Registry!Retire
    <2> QED  BY <2>1 DEF Registry!RegistryNext
<1> QED  BY <1>2, <1>3

LEMMA ServiceSimulated ==
    ASSUME IInv, TypeOK', World, NEW w \in Workers, ServiceStep(w)
    PROVE  [Registry!RegistryNext]_Phase
<1> USE DEF storeVars, workerVars, reaperVars, failureVars, historyVars
<1> TypeOK
    BY DEF IInv
<1>1. pc[w] # "idle"
    BY DEF ServiceStep, CreateContainer, StartContainer, UndoStart, UndoCreate, MarkRunning,
       DestroyStop, DestroyDelete, StartExec, FileOp, StartSession, UseContainer, Touch,
       KeepAlive, EndSession
<1>2. PICK e \in used : target[w] = e
    BY <1>1 DEF IInv, HandlersOK, HandlerOK, HandlerBase
<1>3. e \in Envs /\ (rec[e].status = "running" => rec'[e].status = "running")
    BY DEF World, Kept, TypeOK
<1>4. CASE UndoCreate(w) \/ DestroyDelete(w)
    <2>1. PICK S \in {{}, {e}} : S \subseteq stored /\ stored' = stored \ S
        BY <1>2, <1>4 DEF UndoCreate, DestroyDelete, Deleted, Visible
    <2> QED  BY <1>3, <1>4, <2>1, RemovalSimulated DEF UndoCreate, DestroyDelete
<1>5. ASSUME stored' = stored, used' = used, \A x \in Envs \ {e} : rec'[x] = rec[x]
      PROVE  [Registry!RegistryNext]_Phase
    BY <1>3, <1>5, WriteSimulated
<1>6. CASE CreateContainer(w)
    BY <1>2, <1>5, <1>6 DEF CreateContainer, Assign, TypeOK
<1>7. CASE MarkRunning(w)
    BY <1>2, <1>5, <1>7 DEF MarkRunning, Updated, TypeOK
<1>8. CASE Touch(w)
    BY <1>2, <1>5, <1>8 DEF Touch, Updated, TypeOK
<1>9. CASE StartExec(w) \/ FileOp(w) \/ StartSession(w) \/ KeepAlive(w)
    BY <1>2, <1>5, <1>9 DEF StartExec, FileOp, StartSession, UseContainer, KeepAlive, Assign, TypeOK
<1>10. CASE StartContainer(w) \/ UndoStart(w) \/ DestroyStop(w) \/ EndSession(w)
    BY <1>5, <1>10 DEF StartContainer, UndoStart, DestroyStop, EndSession
<1> QED  BY <1>4, <1>6, <1>7, <1>8, <1>9, <1>10 DEF ServiceStep

LEMMA StepSimulated ==
    ASSUME IInv, TypeOK', World, [Next]_vars
    PROVE  [Registry!RegistryNext]_Phase
<1> USE DEF storeVars, workerVars, reaperVars, failureVars, historyVars
<1> TypeOK
    BY DEF IInv
<1>1. ASSUME UNCHANGED storeVars PROVE [Registry!RegistryNext]_Phase
    BY <1>1 DEF Phase
<1>2. ASSUME NEW w \in Workers, NEW u \in Users, NEW e \in Envs, Request(w, u, e)
      PROVE  [Registry!RegistryNext]_Phase
    <2>1. CASE CreateEnvironment(w, u, e)
        <3>1. /\ e \notin used /\ used' = used \cup {e} /\ stored' = stored \cup {e}
              /\ rec' = [rec EXCEPT ![e] = NewRecord(u)]
            BY <2>1 DEF CreateEnvironment
        <3>2. Phase[e] = "unknown" /\ Phase' = [Phase EXCEPT ![e] = "creating"]
            <4>1. rec'[e].status = "creating" /\ \A x \in Envs \ {e} : rec'[x] = rec[x]
                BY <3>1, NewRecordOK DEF TypeOK
            <4>2. Phase[e] = "unknown" /\ Phase'[e] = "creating"
                BY <3>1, <4>1 DEF Phase, TypeOK
            <4>3. \A x \in Envs \ {e} : Phase'[x] = Phase[x]
                BY <3>1, <4>1 DEF Phase
            <4> QED  BY <4>2, <4>3 DEF Phase
        <3>3. Registry!Register(e)
            BY <3>2 DEF Registry!Register
        <3> QED  BY <3>3 DEF Registry!RegistryNext
    <2>2. ASSUME NEW l, Lookup(w, l, u, e) PROVE [Registry!RegistryNext]_Phase
        BY <1>1, <2>2 DEF Lookup
    <2> QED  BY <1>2, <2>1, <2>2 DEF Request, DestroyEnvironment, PrepareExec, GetRunningEnv,
                OpenExecWS, LookupRunning
<1>3. CASE ReaperStep
    <2>1. CASE ReapDelete
        <3>1. PICK S \in {{}, {rcur}} : S \subseteq stored /\ stored' = stored \ S
            BY <2>1 DEF ReapDelete, Deleted, Visible
        <3>2. S \in SUBSET Envs /\ used' = used /\ rec' = rec
            BY <2>1, <3>1 DEF ReapDelete, TypeOK
        <3> QED  BY <3>1, <3>2, RemovalSimulated
    <2>2. CASE ReapList \/ (\E e \in Envs : ReapNext(e)) \/ ReapStop
        BY <1>1, <2>2 DEF ReapList, ReapNext, ReapStop
    <2> QED  BY <1>3, <2>1, <2>2 DEF ReaperStep
<1>4. CASE \/ \E p \in Workers \cup {Reaper} : CancelContext(p)
           \/ \E e \in Envs : ContainerDies(e)
           \/ Tick
           \/ UNCHANGED vars
    BY <1>1, <1>4 DEF CancelContext, ContainerDies, Tick, vars
<1>5. CASE Crash
    <2>1. PICK S \in {{}, stored} : stored' = stored \ S
        BY <1>5 DEF Crash
    <2>2. S \in SUBSET Envs /\ S \subseteq stored /\ used' = used /\ rec' = rec
        BY <1>5, <2>1 DEF Crash, TypeOK
    <2> QED  BY <2>1, <2>2, RemovalSimulated
<1> QED  BY <1>2, <1>3, <1>4, <1>5, ServiceSimulated DEF Next

\* Both stores, under all interleavings, implement the registry: IDs are
\* issued once, become running at most once, and stay deleted.
THEOREM ImplementsRegistry == Spec => RefinesRegistry
<1>1. Init => Registry!RegistryInit
    BY DEF Init, Registry!RegistryInit, Phase
<1>2. IInv /\ [Next]_vars => [Registry!RegistryNext]_Phase
    <2> SUFFICES ASSUME IInv, [Next]_vars PROVE [Registry!RegistryNext]_Phase
        OBVIOUS
    <2>1. TypeOK'
        BY InvStep DEF IInv
    <2> QED  BY <2>1, WorldStep, StepSimulated
<1> QED  BY <1>1, <1>2, Invariance, PTL DEF Spec, RefinesRegistry, Registry!RegistrySpec
=============================================================================
