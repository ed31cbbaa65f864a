-------------------------------- MODULE Server --------------------------------
(***************************************************************************)
(* The life of the server processes on one database: migrate, bootstrap    *)
(* the keys, start the reaper and the listener, serve, and on a signal     *)
(* stop the reaper, shut down and exit.  Every statement of a migration is *)
(* a step, so that a process can die after any of them, and a second       *)
(* process may start, or serve already, while the first one migrates.      *)
(***************************************************************************)
EXTENDS Naturals, Sequences

CONSTANTS
    Processes,
    Keys,          \* API keys, the same for all processes
    NewIDs,        \* IDs of rows made while serving
    MaxDeaths,     \* bound: crashes, failed calls, signals before Notify
    MaxSignals     \* bound: signals while serving

ASSUME ServerAssumption == Keys # {} /\ MaxDeaths \in Nat /\ MaxSignals \in Nat

VARIABLES
    isPG,          \* PostgreSQL or SQLite
    schema,        \* tables, columns, indexes and foreign keys
    rows,          \* environments and snapshots
    apiKeys,       \* rows of api_keys, each with its user
    main,          \* where the main goroutine of each process is
    step,          \*    and its statement of the migration
    todo,          \*    the keys it has not bootstrapped
    listener,      \* the goroutine in ListenAndServe
    reaper,        \* the goroutine in Reaper.Start
    tick,          \* a tick waits in the reaper's ticker
    deaths, signals

dbVars == <<isPG, schema, rows, apiKeys>>
goroutines == <<listener, reaper, tick>>
counters == <<deaths, signals>>
vars == <<dbVars, main, step, todo, goroutines, counters>>

-----------------------------------------------------------------------------
(* The schema.                                                             *)

Table(t) == <<"table", t>>
Column(t, c) == <<"column", t, c>>
Index(t, c) == <<"index", t, c>>
ForeignKey(t) == <<"fkey", t>>
None == "none"   \* the empty string

Owned == {"environments", "snapshots", "skills"}
Tables == {"users", "api_keys"} \cup Owned
Columns(t) == IF t \in Owned THEN {Column(t, "user_id"), Column(t, "tenant_id")} ELSE {}

Stmt(do, t, c) == [do |-> do, table |-> t, column |-> c]

\* Mutant: indexes are created together with the tables.
MutantMigration ==
    <<Stmt("table", "users", None), Stmt("table", "api_keys", None),
      Stmt("table", "environments", None), Stmt("table", "snapshots", None),
      Stmt("table", "skills", None),
      Stmt("index", "environments", "user_id"), Stmt("index", "environments", "tenant_id"),
      Stmt("index", "snapshots", "user_id"), Stmt("index", "snapshots", "tenant_id"),
      Stmt("index", "skills", "user_id"), Stmt("index", "skills", "tenant_id"),
      Stmt("column", "environments", "user_id"), Stmt("column", "environments", "tenant_id"),
      Stmt("column", "snapshots", "tenant_id"),
      Stmt("backfill", "environments", None), Stmt("backfill", "snapshots", None)>>

\* The statements of migrate in their order, and those for PostgreSQL only.
Migration ==
    <<Stmt("table", "users", None), Stmt("table", "api_keys", None),
      Stmt("table", "environments", None), Stmt("table", "snapshots", None),
      Stmt("table", "skills", None),
      Stmt("column", "environments", "user_id"), Stmt("column", "environments", "tenant_id"),
      Stmt("column", "snapshots", "tenant_id"),
      Stmt("index", "environments", "user_id"), Stmt("index", "environments", "tenant_id"),
      Stmt("index", "snapshots", "user_id"), Stmt("index", "snapshots", "tenant_id"),
      Stmt("index", "skills", "user_id"), Stmt("index", "skills", "tenant_id"),
      Stmt("backfill", "environments", None), Stmt("backfill", "snapshots", None)>>

MigrationPG == <<Stmt("drop", "environments", None), Stmt("drop", "snapshots", None)>>

Steps == Len(Migration) + IF isPG THEN Len(MigrationPG) ELSE 0

\* Databases that earlier versions left: none; without users; without
\* tenants and snapshots; without tenants; without skills.
OldTables == [empty |-> {}, no_users |-> {"environments"},
              no_snapshots |-> {"users", "api_keys", "environments"},
              no_tenants |-> Tables \ {"skills"}, no_skills |-> Tables \ {"skills"}]
OldColumns(v) ==
    (UNION {Columns(t) : t \in OldTables[v]})
    \ ((IF v = "no_users" THEN {Column("environments", "user_id")} ELSE {})
       \cup (IF v # "no_skills" THEN {Column(t, "tenant_id") : t \in Owned} ELSE {}))
OldKeys(v) == {ForeignKey(t) : t \in OldTables[v] \cap {"environments", "snapshots"}}
OldUser(v) == IF v = "no_users" THEN None ELSE "owner"

Row(id, t, u, tenant) == [id |-> id, table |-> t, user |-> u, tenant |-> tenant]
OldRows(v) == {Row(t, t, OldUser(v), IF v = "no_skills" THEN OldUser(v) ELSE None) :
                 t \in OldTables[v] \cap {"environments", "snapshots"}}

Init ==
    /\ isPG \in BOOLEAN
    /\ \E v \in DOMAIN OldTables :
          /\ schema = {Table(t) : t \in OldTables[v]} \cup OldColumns(v)
                      \cup (IF v = "no_users" THEN {} ELSE OldKeys(v))
          /\ rows = OldRows(v)
    /\ apiKeys = {}
    /\ main = [p \in Processes |-> "down"]
    /\ step = [p \in Processes |-> 0] /\ todo = [p \in Processes |-> {}]
    /\ listener = [p \in Processes |-> "off"] /\ reaper = [p \in Processes |-> "off"]
    /\ tick = [p \in Processes |-> FALSE]
    /\ deaths = 0 /\ signals = 0

-----------------------------------------------------------------------------
(* Start.                                                                  *)

\* The end of a process, with all its goroutines.
Gone(p) ==
    /\ main' = [main EXCEPT ![p] = "down"]
    /\ step' = [step EXCEPT ![p] = 0] /\ todo' = [todo EXCEPT ![p] = {}]
    /\ listener' = [listener EXCEPT ![p] = "off"] /\ reaper' = [reaper EXCEPT ![p] = "off"]
    /\ tick' = [tick EXCEPT ![p] = FALSE]

\* A supervisor starts the process; openStore connects.
Start(p) ==
    /\ main[p] = "down"
    /\ main' = [main EXCEPT ![p] = "migrate"] /\ step' = [step EXCEPT ![p] = 1]
    /\ UNCHANGED <<dbVars, todo, goroutines, counters>>

Here(p) == IF step[p] <= Len(Migration) THEN Migration[step[p]] ELSE MigrationPG[step[p] - Len(Migration)]
At(p, do) == main[p] = "migrate" /\ Here(p).do = do

\* The next statement, or the bootstrap after the last.
Proceed(p) ==
    /\ \/ /\ step[p] < Steps
          /\ step' = [step EXCEPT ![p] = @ + 1] /\ main' = [main EXCEPT ![p] = "migrate"]
          /\ UNCHANGED todo
       \/ /\ step[p] = Steps
          /\ step' = [step EXCEPT ![p] = 0] /\ main' = [main EXCEPT ![p] = "bootstrap"]
          /\ todo' = [todo EXCEPT ![p] = Keys]
    /\ UNCHANGED goroutines

\* A statement of process p: the database refuses it without what it needs,
\* and main exits.
Exec(p, needed, changed, changedRows) ==
    /\ \/ needed \subseteq schema /\ Proceed(p) /\ schema' = changed /\ rows' = changedRows
       \/ ~(needed \subseteq schema) /\ Gone(p) /\ UNCHANGED <<schema, rows>>
    /\ UNCHANGED <<isPG, apiKeys, counters>>

\* CREATE TABLE IF NOT EXISTS: an existing table keeps the columns it has.
CreateTable(p) ==
    /\ At(p, "table")
    /\ LET t == Here(p).table
       IN  Exec(p, IF t = "api_keys" THEN {Table("users")} ELSE {},
                IF Table(t) \in schema THEN schema ELSE schema \cup {Table(t)} \cup Columns(t),
                rows)

\* addColumnIfMissing on PostgreSQL: ADD COLUMN IF NOT EXISTS.
AddColumnPG(p) ==
    /\ isPG /\ At(p, "column")
    /\ Exec(p, {Table(Here(p).table)}, schema \cup {Column(Here(p).table, Here(p).column)}, rows)

\* On SQLite: look whether the column is there,
InspectColumn(p) ==
    /\ ~isPG /\ At(p, "column")
    /\ \/ Column(Here(p).table, Here(p).column) \in schema /\ Proceed(p)
       \/ /\ Column(Here(p).table, Here(p).column) \notin schema
          /\ main' = [main EXCEPT ![p] = "alter"]
          /\ UNCHANGED <<step, todo, goroutines>>
    /\ UNCHANGED <<dbVars, counters>>

\* and then add it, which fails if another process has done so meanwhile.
AlterTable(p) ==
    /\ main[p] = "alter"
    /\ LET c == Column(Here(p).table, Here(p).column)
       IN  \/ c \notin schema /\ Proceed(p) /\ schema' = schema \cup {c}
           \/ c \in schema /\ Gone(p) /\ UNCHANGED schema
    /\ UNCHANGED <<isPG, rows, apiKeys, counters>>

CreateIndex(p) ==
    /\ At(p, "index")
    /\ Exec(p, {Column(Here(p).table, Here(p).column)},
            schema \cup {Index(Here(p).table, Here(p).column)}, rows)

\* Mutant: without the WHERE clause.
MutantBackfilled(t) == {IF r.table = t THEN [r EXCEPT !.tenant = r.user] ELSE r : r \in rows}

\* UPDATE t SET tenant_id = user_id WHERE tenant_id = ''.
Backfilled(t) ==
    {IF r.table = t /\ r.tenant = None THEN [r EXCEPT !.tenant = r.user] ELSE r : r \in rows}

Backfill(p) ==
    /\ At(p, "backfill")
    /\ Exec(p, Columns(Here(p).table), schema, Backfilled(Here(p).table))

\* DROP CONSTRAINT IF EXISTS.
DropConstraint(p) ==
    /\ At(p, "drop")
    /\ Exec(p, {Table(Here(p).table)}, schema \ {ForeignKey(Here(p).table)}, rows)

\* One transaction: the user, then the key.
BootstrapUser(p, k) ==
    /\ main[p] = "bootstrap" /\ k \in todo[p]
    /\ todo' = [todo EXCEPT ![p] = @ \ {k}]
    /\ apiKeys' = apiKeys \cup {k}
    /\ UNCHANGED <<isPG, schema, rows, main, step, goroutines, counters>>

\* Mutant: the listener is up before the keys are.
MutantLaunch(p) ==
    /\ main[p] = "bootstrap"
    /\ main' = [main EXCEPT ![p] = "serve"]
    /\ reaper' = [reaper EXCEPT ![p] = "spawned"] /\ listener' = [listener EXCEPT ![p] = "spawned"]
    /\ UNCHANGED <<dbVars, step, todo, tick, counters>>

\* The two goroutines are started and main waits for a signal.
Launch(p) ==
    /\ main[p] = "bootstrap" /\ todo[p] = {}
    /\ main' = [main EXCEPT ![p] = "serve"]
    /\ reaper' = [reaper EXCEPT ![p] = "spawned"] /\ listener' = [listener EXCEPT ![p] = "spawned"]
    /\ UNCHANGED <<dbVars, step, todo, tick, counters>>

-----------------------------------------------------------------------------
(* Serving.                                                                *)

\* ListenAndServe; after Shutdown it returns at once.
Listen(p) ==
    /\ listener[p] = "spawned"
    /\ listener' = [listener EXCEPT ![p] = IF main[p] = "shutdown" THEN "off" ELSE "open"]
    /\ UNCHANGED <<dbVars, main, step, todo, reaper, tick, counters>>

\* A foreign key refuses the row of an end user, who is not in users.  SQLite
\* checks foreign keys only on the connection that ran the PRAGMA, and the pool
\* may have others, so there a row may also be let in.
Admits(t, user) == user = "end" /\ isPG => ForeignKey(t) \notin schema

\* A request of an owner or an end user for an environment or a snapshot,
\* which may have been under way at Shutdown.  A refused one changes nothing.
Serve(p, id, t, user) ==
    /\ listener[p] \in {"open", "draining"} /\ \A r \in rows : r.id # id
    /\ Admits(t, user)
    /\ rows' = rows \cup {Row(id, t, user, "owner")}
    /\ UNCHANGED <<isPG, schema, apiKeys, main, step, todo, goroutines, counters>>

Stopped(p) == main[p] \in {"stopping", "shutdown"}

\* The reaper's goroutine: wg.Add, then its loop.
ReaperBegins(p) ==
    /\ reaper[p] = "spawned"
    /\ reaper' = [reaper EXCEPT ![p] = "waiting"]
    /\ UNCHANGED <<dbVars, main, step, todo, listener, tick, counters>>

\* 30 s pass.  A goroutine that finds stopCh closed is gone long before.
Tick(p) ==
    /\ ~tick[p]
    /\ reaper[p] = "reaping" \/ (reaper[p] = "waiting" /\ ~Stopped(p))
    /\ tick' = [tick EXCEPT ![p] = TRUE]
    /\ UNCHANGED <<dbVars, main, step, todo, listener, reaper, counters>>

\* select takes either of the channels that are ready.
SelectTick(p) ==
    /\ reaper[p] = "waiting" /\ tick[p]
    /\ reaper' = [reaper EXCEPT ![p] = "reaping"] /\ tick' = [tick EXCEPT ![p] = FALSE]
    /\ UNCHANGED <<dbVars, main, step, todo, listener, counters>>

SelectStop(p) ==
    /\ reaper[p] = "waiting" /\ Stopped(p)
    /\ reaper' = [reaper EXCEPT ![p] = "off"] /\ tick' = [tick EXCEPT ![p] = FALSE]
    /\ UNCHANGED <<dbVars, main, step, todo, listener, counters>>

\* The end of a cycle, at the latest when its 30 s context ends.
ReapEnds(p) ==
    /\ reaper[p] = "reaping"
    /\ reaper' = [reaper EXCEPT ![p] = "waiting"]
    /\ UNCHANGED <<dbVars, main, step, todo, listener, tick, counters>>

-----------------------------------------------------------------------------
(* Stop.                                                                   *)

\* Main gets the signal and closes stopCh.
Signal(p) ==
    /\ main[p] = "serve" /\ signals < MaxSignals
    /\ main' = [main EXCEPT ![p] = "stopping"] /\ signals' = signals + 1
    /\ UNCHANGED <<dbVars, step, todo, goroutines, deaths>>

\* Mutant: close(stopCh) without wg.Wait().
MutantStopReturns(p) ==
    /\ main[p] = "stopping"
    /\ main' = [main EXCEPT ![p] = "shutdown"]
    /\ listener' = [listener EXCEPT ![p] = IF @ = "open" THEN "draining" ELSE @]
    /\ UNCHANGED <<dbVars, step, todo, reaper, tick, counters>>

\* wg.Wait returns, at once if the goroutine has not yet added itself; then
\* Shutdown closes the listener.
StopReturns(p) ==
    /\ main[p] = "stopping" /\ reaper[p] \in {"spawned", "off"}
    /\ main' = [main EXCEPT ![p] = "shutdown"]
    /\ listener' = [listener EXCEPT ![p] = IF @ = "open" THEN "draining" ELSE @]
    /\ UNCHANGED <<dbVars, step, todo, reaper, tick, counters>>

\* Shutdown returns, at the latest after 30 s, and so does main.
Exit(p) ==
    /\ main[p] = "shutdown"
    /\ Gone(p)
    /\ UNCHANGED <<dbVars, counters>>

\* A crash, a failed call of the database or Docker, or of ListenAndServe, and
\* a signal before signal.Notify: the process ends where it is.
Die(p) ==
    /\ main[p] # "down" /\ deaths < MaxDeaths
    /\ deaths' = deaths + 1 /\ Gone(p)
    /\ UNCHANGED <<dbVars, signals>>

-----------------------------------------------------------------------------
Migrate(p) == \/ CreateTable(p) \/ AddColumnPG(p) \/ InspectColumn(p) \/ AlterTable(p)
              \/ CreateIndex(p) \/ Backfill(p) \/ DropConstraint(p)

Next ==
    \E p \in Processes :
        \/ Start(p) \/ Migrate(p) \/ (\E k \in Keys : BootstrapUser(p, k)) \/ Launch(p)
        \/ Listen(p)
        \/ \E id \in NewIDs, t \in {"environments", "snapshots"}, user \in {"owner", "end"} : Serve(p, id, t, user)
        \/ ReaperBegins(p) \/ Tick(p) \/ SelectTick(p) \/ SelectStop(p) \/ ReapEnds(p)
        \/ Signal(p) \/ StopReturns(p) \/ Exit(p) \/ Die(p)

Spec == Init /\ [][Next]_vars

\* Processes and goroutines run; a supervisor restarts; select, which chooses
\* at random, does not pass over a closed channel for ever.
Fairness ==
    \A p \in Processes :
        /\ WF_vars(Start(p)) /\ WF_vars(Migrate(p))
        /\ WF_vars(\E k \in Keys : BootstrapUser(p, k)) /\ WF_vars(Launch(p))
        /\ WF_vars(Listen(p)) /\ WF_vars(ReaperBegins(p)) /\ WF_vars(ReapEnds(p))
        /\ SF_vars(SelectStop(p))
        /\ WF_vars(StopReturns(p)) /\ WF_vars(Exit(p))

FairSpec == Spec /\ Fairness

-----------------------------------------------------------------------------
(* Properties.                                                             *)

Items == {Table(t) : t \in Tables} \cup (UNION {Columns(t) : t \in Owned})
         \cup {Index(t, c) : t \in Owned, c \in {"user_id", "tenant_id"}}

\* No row is stored twice, in particular not in both shapes of a backfill.
TypeOK ==
    /\ schema \subseteq Items \cup {ForeignKey("environments"), ForeignKey("snapshots")}
    /\ \A r, q \in rows : r.id = q.id => r = q
    /\ apiKeys \subseteq Keys
    /\ \A p \in Processes :
          /\ main[p] \in {"down", "migrate", "alter", "bootstrap", "serve", "stopping", "shutdown"}
          /\ step[p] \in IF main[p] \in {"migrate", "alter"} THEN 1..Steps ELSE {0}
          /\ reaper[p] \in {"off", "spawned", "waiting", "reaping"}
          /\ listener[p] \in {"off", "spawned", "open", "draining"}
          /\ main[p] \notin {"serve", "stopping", "shutdown"} => reaper[p] = "off" /\ listener[p] = "off"

\* Whatever an earlier version or a process that died half way left behind,
\* a server that serves has every table, column and index, all its keys, no row
\* of a user that the lists of its tenant would miss, no row twice (TypeOK), and
\* on PostgreSQL no foreign key that would refuse end users.  On SQLite migrate
\* drops none: an old database keeps its keys, and end users may be refused.
ServingSchema ==
    /\ TypeOK
    /\ \A p \in Processes :
        main[p] \in {"serve", "stopping", "shutdown"} =>
            /\ Items \subseteq schema
            /\ isPG => \A t \in {"environments", "snapshots"} : ForeignKey(t) \notin schema
            /\ apiKeys = Keys
            /\ \A r \in rows : r.user # None => r.tenant # None

\* A migration loses no row and changes none but for a tenant that was
\* missing: rows of end users written by a process that serves keep theirs
\* while another process migrates.
RowsKept ==
    [][\A r \in rows : r \in rows' \/ (r.tenant = None /\ [r EXCEPT !.tenant = r.user] \in rows')]_vars

\* Once Reaper.Stop has returned no cycle is under way and none begins, so
\* that the exit of the process does not cut one short: also if Stop came
\* before the goroutine had added itself to the wait group.
QuietAfterStop == \A p \in Processes : main[p] = "shutdown" => reaper[p] # "reaping"

\* With finitely many deaths and signals every process serves in the end.  A
\* signal ends the process, although the reaper may go on with pending ticks
\* for a while, and no migration, however interrupted or raced, leaves a database that the
\* next start cannot finish.
AllServeInTheEnd == \A p \in Processes : <>[](main[p] = "serve" /\ listener[p] = "open")
=============================================================================
