# HaaS: models, checks and proofs

HaaS ("harness as a service") is a Go server that gives AI agents short-lived
Docker containers, called environments, over HTTP. This directory holds TLA+
models of its core, the TLC configurations that check them on small instances,
and TLAPS proofs for every instance. `PROJECT.json` lists components, runs,
mutants, hazards, findings and theorems, and maps each definition to the lines
it models.

## The system

| Component | State | Operations | Talks to |
|---|---|---|---|
| environment service (`internal/service/environment.go`) | none of its own | CreateEnvironment, DestroyEnvironment, Get, List | store, engine |
| exec and file services (`exec.go`, `file.go`) | none | exec, list, read, write; each stamps `LastUsedAt` | store, engine |
| environment store (`internal/store`) | records (rows, or objects in a map) | Create, Get, Update, Delete, List, ListExpired | database |
| reaper (`internal/lifecycle`) | the list of one cycle, its 30 s context | reap: list, stop, delete | store, engine |
| Docker engine (`internal/engine`) | containers, images, exec sessions (in the daemon) | create, start, stop, exec, copy, commit | Docker daemon |
| interactive terminal (`internal/api/execws.go`) | a WebSocket, an exec session, five goroutines | bridge, ping, keep-alive, closeAll | store, engine, client |
| snapshots (`service/snapshot.go`) | records and images | create, delete, restore | store, engine |
| HTTP exec stream (`internal/api/exec.go`, SDK's Exec) | an attached exec, a response being written | start, demultiplex, inspect, end | engine, client |
| skills (`service/skill.go`) | library rows, directories in containers | register, delete, inject, install, list installed | store, engine |
| authentication (`internal/auth`) | key hashes | Bearer key and `X-Haas-User-ID` to tenant and effective user | every handler |
| SQL schema (`store/sql.go`, migrate) | tables | five-phase migration, BootstrapUser | database |
| server process (`cmd/haas/main.go`, `lifecycle/reaper.go` Start, Stop) | main, reaper and listener goroutines | start, serve, stop on a signal | database, store |
| MCP server (`internal/mcpserver`, embedded or standalone) | REST keys | authenticate, then one HTTP request per tool call | the server |
| Go SDK (`pkg/sdk`) | key and end user | one HTTP request per call | the server |
| configuration, plumbing | none | | |

Handlers run concurrently, one goroutine per request, and share nothing but the
store and the daemon. What is hard: no transaction spans a record and its
container (or image), so every early return between two calls is a state
others can see; a request's context is cancelled when its client goes away, and
rollbacks run under that same context; SQLStore hands out copies that are
written back whole, MemoryStore hands out the stored objects; the reaper acts
on a list that grows old while it works; a restart forgets handlers but not
containers; a terminal session has two blocking reads that only `closeAll`
can free; an exec over HTTP reads a stream that its timeout does not reach; the
skills of an environment are listed, loaded and extracted one call at a time
while the library changes; a migration is up to eighteen statements without a
transaction; SQLStore keeps times in whole seconds while MemoryStore and the
tickers do not; a request may have passed through two processes, each with its
own idea of keys and users, before a row is looked up.

Correctness, per component:

- environments: a container is never forgotten except where the code gives it
  up; what a client was told holds; nobody works on another user's
  environment; nothing prolongs a lifetime or resurrects a record; what is
  expired goes, and nothing else does;
- terminal: the session ends when any side ends, leaves nothing behind, and
  tells the client the truth and all of it;
- snapshots: an acknowledged snapshot stays restorable until its owner deletes
  it, and images are not left behind;
- HTTP exec: a result without error is complete and carries an exit code, and
  handler and client both come to an end;
- skills: one skill per user and name, a stable ID, injection of what the
  library holds and of nobody else's, a push that stays on top;
- tenancy: a request sees exactly its own scope, by whatever way it came and
  over restarts;
- server: whoever serves has a complete schema, whatever was there before; no row
  is lost or changed on the way; a signal ends the process between two reap
  cycles and not inside one;
- files: every spelling of a path means the same file to read, write and list;
  limits cut nothing off; archives stay in their directory;
- expiry: never early, late by a bounded time for every cycle of the reaper that
  fails, and in the middle of a use only for reasons that can be named.

## Modules

| Module | What it is |
|---|---|
| `EnvRegistry` | abstract: an environment ID is unknown, creating, running or gone, and only moves forward |
| `EnvLifecycle` | environment, exec and file services, both stores, containers, reaper, restarts |
| `MCEnvLifecycle` | instances of it for TLC |
| `EnvLifecycleProofs` | theorems about it |
| `ExecWS`, `ExecWSProofs` | one terminal session: five goroutines, two connections, process, daemon and client, and theorems about it |
| `ExecStream` | one command over HTTP, from the attached exec to the SDK's result |
| `Calls` | a handler's call into engine or store and its context, shared by the two modules below |
| `Snapshots`, `MCSnapshots`, `SnapshotsProofs` | records and images of snapshots, instances for TLC, and theorems |
| `Skills`, `MCSkills`, `SkillsProofs` | the library of skills and the skills inside one environment, instances for TLC, and theorems |
| `Tenancy`, `MCTenancy`, `TenancyProofs` | identities and what each caller sees, over REST, SDK and MCP server, instances for TLC, and theorems |
| `Server`, `ServerProofs` | server processes on one database: migration, bootstrap, serving, reaper goroutine, shutdown, and theorems |
| `Files` | paths, file operations, listings and the extraction of archives on a tree of files |
| `ExecFileProofs` | theorems about the two streams of work inside a container, `ExecStream` and `Files` |
| `Expiry`, `ExpiryProofs` | stamps, whole seconds, tickers and the reaper's cycle on one clock, and theorems about them |

Definitions named `Mutant...` are wrong variants of the definition that follows
them. They are part of no specification; replacing the original by one must
make TLC report the property they are listed with in `PROJECT.json`.

### EnvLifecycle

Each handler is a program counter `pc[w]` that names the call it makes next, so
every other process may act between two calls of a request. `target`, `caller`
and `local` are its environment, user and (SQLStore) private copy of the row;
with MemoryStore `EnvOf(w)` is the stored object itself, and an assignment to a
field is visible at once. `Store` selects the store.

A call (`Call`) succeeds, fails without effect, or takes effect although the
caller gets an error ("lost"). It fails for free when its context is done;
other failures are counted by `faults`. A client may cancel its request at any
moment (`CancelContext`); a hijacked WebSocket no longer can. The reap context
may end any time after the first container of the cycle: 30 s are enough for
one stop of at most 10 s, not for many. Time is counted in keep-alive
intervals; a streaming session refreshes its record once in each.

| Code | Actions |
|---|---|
| `CreateEnvironment` | `CreateEnvironment`, `CreateContainer`, `StartContainer`, `UndoStart`, `UndoCreate`, `MarkRunning` |
| `DestroyEnvironment` | `DestroyEnvironment`, `DestroyStop`, `DestroyDelete` |
| exec, files, WebSocket | `PrepareExec`, `GetRunningEnv`, `OpenExecWS`; `StartExec`, `FileOp`, `StartSession`; `Touch`, `KeepAlive`, `EndSession` |
| `Reaper.reap` | `ReapList`, `ReapNext`, `ReapStop`, `ReapDelete` |
| outside | `CancelContext`, `ContainerDies`, `Tick`, `Crash` |

Abstracted: images, resources, environment variables, commands, paths and file
contents. A request that validation rejects does not start. Failed reads (Get,
ListExpired) end a request with no change and are left out. With MemoryStore
the fields of an object change atomically; the data races of the code on them
(writes without the lock) are not explored further.

`door[e]` is a history variable: the first event that could orphan the
container of `e`, one of "blind" (given up before its ID was known), "stop_failed"
and "wiped". `OrphansExplained` says these are the only ones.

### ExecWS

`pc` holds the position of `main`, `out`, `in`, `ping` and `keep`. A blocking
read is an action that is enabled only when the read can return. `closeAll` is
three steps, because `sync.Once` lets one caller run the body (session first,
then connection) and keeps the others waiting; the window between the two
closings is real. `ReadResults` is the contract of `io.Reader`, data together
with the end of the stream included. The client is ok, silent (connected but answering
nothing) or gone; a frame above the size limit counts as gone. `DeadlinePasses`
needs a client that does not answer or an `in` that is not reading, since
pongs are handled inside ReadMessage.

### Snapshots

The handlers of creation, deletion and restore, with the same calls and
contexts as EnvLifecycle. `image` and `row` are the two halves of a snapshot.
Docker refuses to remove the image of a running container, so `inUse` holds the
snapshots from which a running environment was restored. `leak` plays the part
of `door`.

### ExecStream

| Code | Actions |
|---|---|
| `ExecHandler.Exec` after PrepareExec | `StartExec`, `SendFrame`, `ExitCode`, `SendExit` |
| `DemuxDockerStream` | `ReadFrame` |
| SDK `Client.Exec`, and the MCP server's exec, which reads alike | `ClientReads`, `ClientEnds` |
| outside | `ProcessWrites`, `ProcessExits`, `LinkLost`, `ClientLeaves`, `TimerFires`, `GoneNoticed` |

The output is counted in frames, and the response in events, one for each
frame. `Window` is what the connection to the client holds; a write waits for
room. `long` marks frames whose event exceeds the line limit of
`bufio.Scanner`. The context is passed to the Docker client's calls only: the
module assumes, as the code gives no other means, that the connection of an
attached exec is not closed when the context ends.

### Skills

One environment is followed from its started container, which has no skills, to
its end.

| Code | Actions |
|---|---|
| `RegisterSkill`, `UpsertSkill` | `RegisterSkill`, `UpsertSkill`, `ReflectSkill` |
| `DeleteSkill` | `DeleteSkill`, a single statement |
| `injectSkills` in CreateEnvironment | `CreateEnvironment`, `ListSkills`, `GetSkillArchive`, `InjectSkill`, `MarkRunning` |
| `InstallSkillToEnvironment` | `InstallSkill`, `PushSkill` |
| `ListInstalledSkills` | `ListInstalledSkills`, `ListFiles`, `ReadManifest`, `AnswerListing` |
| outside | `DestroyEnvironment` (a destroy or the reaper), `CancelContext` |

The SQL upsert and the select that reflects the stored row are two steps, the
MemoryStore's are one. An archive is a value that is valid or not; extraction
adds it to a directory (`tree`) and records who wrote last (`top`). `answered`,
`given`, `kept`, `pushed` and `want` are history variables: they hold what
clients were told or may expect, and no action depends on them. Left out:
restarts (only a request in progress would be lost), the content of archives,
and the requests of a caller with an empty user ID, whom the store shows
everything; Tenancy shows that there is none.

### Tenancy

One request at a time is on its way: `Ask` chooses a route, a key, a user and a
way (`AskREST`, `AskSDK`, `AskTool`); a tool call passes `CallTool`, where the
MCP server checks the key and sends a request with a key and a header of its own
choice; `Unauthorized` or one of the `Serve...` actions answers. IDs are derived
by injective functions of key and name (`deriveUserID`, `deriveEndUserID`, UUIDs
of version 5 in the code). `maker` and `due` are history variables, filled from
what the client meant (its key, the name without blanks) and never from derived
IDs: `AnswersMatchMakers` compares the two worlds, also where a snapshot or a
restore looks up the row it starts from. What a request without a name sees of
the rows of end users is left open there, because the code shows none of them
and README.md:342 promises all. For a standalone MCP server the meant tenant is
that of its `HAAS_API_KEY`, as `cmd/haas-mcp/main.go` documents. `Restart`
changes the keys of the server under its rows. A row is an environment, a
snapshot or a skill; what happens inside an operation is in the other modules,
so that an environment is used ("use": exec, files, installed skills) in one
step here.

### Server

| Code | Actions |
|---|---|
| `openStore`, `migrate`, `addColumnIfMissing` | `Start`; `CreateTable`, `AddColumnPG`, `InspectColumn`, `AlterTable`, `CreateIndex`, `Backfill`, `DropConstraint` |
| `BootstrapUser` for each key | `BootstrapUser` |
| `main` up to the wait, `ListenAndServe` | `Launch`, `Listen`, `Serve` |
| `Reaper.Start` | `ReaperBegins`, `Tick`, `SelectTick`, `ReapEnds`, `SelectStop` |
| signal, `Reaper.Stop`, `Shutdown` | `Signal`, `StopReturns`, `Exit` |
| outside | `Die`: a crash or a failed call anywhere, a signal before `signal.Notify` |

`Migration` is the list of statements; the database refuses one that lacks the
table or column it names, and then the process exits. The databases to start
from are those that the migration's phases are for: none at all, without
users, without snapshots and tenants, without tenants, without skills. They are
inferred from `migrate`, as no older version is in the repository. Where there
were users, environments and snapshots have foreign keys to them, with either
database: `sql_test.go:127` still bootstraps users for their sake, and only PostgreSQL
drops them. A key refuses rows of end users (`Admits`), with SQLite only on the
connection of the pool that ran the PRAGMA, so there a row is refused or not. A comment at
`addColumnIfMissing` excludes concurrent migrations "in practice"; the model
includes them, because two servers may be started on one database.

### Files

A raw path is a sequence of segments, names, dots and empty ones; a tree maps
places to files and directories. `sanitizePath` is `Clean` of the rooted path,
and the reference is `Walk`, which follows the client's spelling step by step.
`find -printf` works only on images with GNU find (`gnu`); otherwise the code
falls back to `ls`, a second call between which and the first the container may
change the tree. An archive is a sequence of entries with a name, which may be
rooted or climb, and a type; `Extract` is a plain tar without checks of its own,
so that `ExtractsInside` rests on `validateSkillTar` alone. Types include links,
and pipes, which stand for devices too.

Every call of the engine may fail. A read that fails before the header of its tar
is answered with an error; one whose stream breaks off later is a 200 with the
beginning of the file, as the handler ignores the error of `io.Copy`. A
`CopyToContainer` that reports an error may have removed the old file, or written
part or all of the new one (`Torn`). The output of `find` or `ls` may end early
unnoticed (`ListBreaks`). Answers carry whether the link broke while they were
made, so that properties can name the exception. Left out: symbolic links already
in the container, file modes, and names that break the parsers of listings (line
breaks, tabs).

### Expiry

The clock counts fractions of a second. `last` and `expires` are the exact times,
`row` the whole seconds of SQLStore; `ExpiredInMemory` and `ExpiredInSQL` are
the two `ListExpired`. The tickers of reaper and terminal fire within `Slack` of
their time.

| Code | Actions |
|---|---|
| exec, terminal | `StartExec`, `StartTerminal`, `FirstStamp`, `KeepAliveTick`, `EndUse` |
| file operations, and stamps of handlers that outlive the container | `FileOp` |
| `Reaper.reap` | `ReapList`, `ReapListFails`, `ReapStop`, `ReapDelete`, `ReapEnds` |
| outside | `Tick` |

A stamp is read from the clock up to `Lag` before its Update takes effect, so a
late one may rewind the row, or it fails and is only logged (`Lost`), the first
ones of exec and terminal as well. A cycle lists, stops and deletes in separate
steps under a context of `ReapTimeout`, while time passes and the environment may
be used again. The list may fail, the stop may fail, and the Delete may fail or come
after the context, because other environments of the cycle took its time.
`missed` counts such cycles, `skipped` the stamps of a terminal that failed in a
row, and `found` keeps what was known when the list was drawn up; all three are
history.

## Runs

| Run | Instance | Shows |
|---|---|---|
| `lifecycle_sql` | 2 handlers, 1 environment, SQLStore, 1 fault, 1 restart, clock to 1 | types, orphans, binding of running records, no early reap, fixed lifetimes, truthful answers, refinement of the registry |
| `lifecycle_memory` | the same, MemoryStore, 2 users, clock to 3 | ownership, and orphans where a restart empties the store; the rest holds for MemoryStore by the theorems |
| `reap_cycle_sql` | 2 environments that are stored at the start, 1 handler, 1 fault | liveness: what is past its lifetime is eventually removed |
| `ws_ends` | two chunks of output | safety of a session, the causes of a missing or untrue exit message, its end, and the fate of silent clients |
| `exec_stream` | 3 frames, window of 1 | complete answers with an exit code, and the end of both sides |
| `exec_timeout` | 1 frame | violated: a silent command outlives `timeout_seconds` |
| `snapshots_sql` | 2 handlers, 2 users, 2 snapshots, SQLStore, 1 fault, 1 restart | acknowledged snapshots, explained images |
| `skills_sql` | 2 handlers, 2 users, 2 skill IDs, 2 valid names and 1 invalid, 1 valid archive and 1 invalid, SQLStore, 1 fault | answered IDs, ownership and completeness of what is installed and listed |
| `tenancy_keys` | 2 keys, 1 name with and without blanks, and none, 2 rows, 1 restart, both kinds of MCP server | isolation both ways, stable identities |
| `server_life` | 2 processes, 1 key, 1 new row, 1 death, 1 signal, both databases, 5 old schemas | complete schema while serving, no old foreign keys with PostgreSQL, rows kept, quiet stop, exit, recovery |
| `files_tree` | 2 names, raw paths of 3 segments, depth 2, limit 1, archives of 1 or 2 entries | paths against a walk, whole contents, complete listings, archives inside, with failing calls and broken streams |
| `expiry_seconds` | 2 clock units to the second, timeouts of 4 and 10 units, intervals of 2, a cycle of 1, slack and lag of 1, 1 failed stamp, 1 failed cycle, clock to 21, every phase of clock and reaper | agreement of the stores, bound on expiry, uses spared but for the named reasons |

The types of `ExecWS`, `Snapshots`, `Skills`, `Tenancy`, `Server` and `Files` are the
first conjunct (`TypeOK`, in Files `FilesTypeOK`) of `ReturnsClean`, `ImagesExplained`,
`InstalledIsOwners`, `RowsKeepMakers`, `ServingSchema` and `ListingComplete`, and are
proved with them.

Bounds. Two handlers and the reaper are enough for every pairwise race; the
races between environments are only those inside one reap cycle, which has a
run of its own with two. One fault and one restart, plus any number of
cancelled requests, reach each error path alone and each pair of a fault with
a cancellation. The clock reaches the first instant after the idle timeout in
`lifecycle_sql` and after both timeouts in `lifecycle_memory` and
`reap_cycle_sql`. Two skill IDs are the least for a replaced skill and for a
failure that must not touch another skill; one valid archive suffices because
a second version would differ only in a value that every step copies. Three
frames and a window of one let the handler wait for the client with a frame
in hand and another in the stream. Two
chunks are the least that can be read together, apart, or with the end of the
stream. Two keys and one name give four callers, of whom any two may differ in
key, in name or in both; two rows are the least that can be mixed up. Two
processes, one of them possibly serving, meet every statement of the other's
migration; after the one death or signal a process starts again on what it left
behind. Three segments reach a climb above the root and back down; a limit of one
byte has the sizes below, at and above it. A second of two units gives every
rounding of times that are no whole seconds; the lifetime of ten units leaves room
for a use that begins, is stamped late or not at all, is listed and stopped, and the clock
outlasts the latest reap with a failed cycle. The theorems below
have none of these bounds. Handlers and users are
symmetric in the runs without liveness. Deadlock is not checked in
EnvLifecycle, Snapshots, Skills, Tenancy and Expiry: when the bounds are used
up they may stop. In Server and Files something can always happen.
ExecWS and ExecStream have a `Rest` step that only a finished session or
request can take, so there deadlock is checked and would be a goroutine leak.

Fairness. `reap_cycle_sql` assumes weak fairness of the reaper's steps: its
goroutine loops until the server stops. Nothing is assumed of handlers or
clients. `ws_ends` assumes that goroutines that can proceed do, that timers
fire, and that writes to a dead connection fail in the end (TCP); nothing makes
the process exit, write or read, nor the client send. `exec_stream` and
`exec_timeout` assume that the handler's goroutine goes on when it can, and that a
client that is there reads; nothing makes the process write or exit, the
client leave, or the timer fire. `server_life` assumes that a supervisor
restarts a process that has ended, that goroutines which can proceed do, and
strong fairness of the branch of `select` on `stopCh`: Go chooses at random among
the ready channels, so a closed one is not passed over for ever although a tick
may be pending each time. Requests, ticks, signals and deaths are not fair, and
the last two are finitely many.

## Proofs

`EnvLifecycleProofs` proves, for any sets of environments, users and handlers,
any timeouts, any number of faults and restarts and either store: `TypeCorrect`,
`OnlyKnownOrphans`, `RunningHasContainer`, `ReapsOnlyExpired`, `LifetimeFixed`,
`TargetsOwned`, `AckedAlwaysRunning` and `ImplementsRegistry`. The only
assumption is `LifecycleAssumption` (natural-number timeouts and bounds, and
distinct placeholders).

None of these is inductive alone. `IInv` adds: every copy of a row agrees with
its record on user, creation and expiry, and its status and container ID are
never ahead of what the position of its handler implies (`RecordsOK`,
`HandlersOK`); at most one handler is creating an environment, and no reader
holds a copy from before its creation ended that could write it back
(`OneCreator`); what the reaper listed was expired and its knowledge of
container IDs is explained (`ReaperOK`); a deleted or never created environment
has no live container unless its door is open (`GoneOK`). Each action preserves
each part; the refinement then follows step by step, every step of EnvLifecycle
being a Register, an Activate, a Retire or a stutter of EnvRegistry. For
`AckedAlwaysRunning` a record that is gone does not come back (`NoReturn`), a
record that is answered as running by a stored Update is so in that step
(`AckedNow`), and no copy that can still be written back has another status.

`ExecFileProofs` proves, for any amount of output and any window,
`StreamTypes`, `CompleteAnswer` and `AnswerWithExit`, from `StreamAssumption`
(`MaxFrames` a natural number, `Window` a positive one). The client's result
says nothing about the process by itself; the invariant carries the fact from
one side to the other. `LoopOK` counts the frame in hand, `DrainedOK` says that
a loop that has ended has sent all that an exited process wrote, unless client
or connection was lost, `CodeOK` ties the exit event to the same cause,
`ResponseOK` orders response and handler, and `ClientOK` says that a client
only answers when the response has ended and all of it was read.

The same module proves of `Files`, for any names, limit, length of raw paths and
depth of the tree, `ReadsAlwaysLastWrite`, `ListingsAlwaysComplete`,
`ManifestAlwaysInstalled` and `AlwaysExtractsInside`, from `NamesAssumption` (names are
no dots and not empty, and `skills` and `SKILL.md` are among them) and
`BoundsAssumption` (natural numbers, and room in the tree for `skills/SKILL.md`).
They rest on two theorems about paths of any length:

- `SanitizeIsWalk`: `sanitizePath` gives the place to which a walk from the root
  along the client's segments leads. Cleaning a rooted path and walking make
  the same step (`CleanWalkStep`), because what has been cleaned so far is made
  of names.
- `StaysBelow`: a relative path whose clean form does not begin with `..` leads to
  the place below its start that the clean form names, from every directory. The
  argument follows the cleaned prefix: once it begins with `..` it does so for ever
  (`LeftItStep`), and until then the walk is at the start followed by the prefix
  (`BelowStep`). It is why the check of names in `validateSkillTar` suffices.

Both are inductions over the segments. The library's induction theorems cannot be
used, so the induction is an argument by the least counterexample: `Least` takes
the smallest element of a set of naturals from the well-foundedness of `<`, `UpTo`
is the induction up to a bound that follows, and `StepsExist` shows that a
function defined step by step exists, which gives the values of the recursive
functions in `Clean` and `Walk` (`CleanSteps`, `WalkSteps`).

The inductive invariant `FilesInv` says that the tree is a tree with a directory
at its root (`TreeOK`), that a job in progress has the path that was meant or a
validated archive (`JobOK`), that the acknowledged file is in the tree with its
whole content (`AckOK`), and that an answer made over an unbroken link agrees
with the tree as long as it is not taken, while one over a broken link has no
more than the file (`AnswerOK`). What a failed write may leave is a tree in any
case (`TornOK`). Everything above a place in the tree is a directory
(`AboveAreDirs`), so nothing is extracted below a file (`NotBelowAFile`), and an
entry after the manifest leaves the tree a tree; an extraction removes nothing
(`ExtractKeeps`), so the manifest of a complete push is there at its end.

`ExpiryProofs` proves `ExpiryTypes`, `StoresAlwaysAgree`, `AlwaysReapedInTime` and
`UseAlwaysSpared` for any length of a second, of the timeouts and of the
intervals, and any number of failed stamps and cycles, from `ExpiryAssumption`
(natural numbers, the lengths positive); nothing relates the timeouts to each
other. The bound on expiry is not inductive, because a state says nothing about
the cycles that have passed. `Sched` gives each position of a cycle the latest time
at which it can have been reached: a cycle that found nothing began while the
environment was not yet expired by more than a second, plus a round for each
missed cycle, and the next tick follows within a gap of it. `Kept` says that a
terminal whose stamp was stored is stamped again within one keep-alive interval,
plus one for each that failed, and `Excused` that a use which is on the reaper's list
already has one of the reasons of `UseIsSpared`; the reasons are facts about the
time of the list, so later stamps do not take them away. The arithmetic rests on
`FloorOrder`: whole seconds differ only if the times do, and always do if the times
differ by a second.

`SnapshotsProofs` proves `AckedAlwaysRestorable` and `ImagesAlwaysExplained` for
any sets of snapshots, users and handlers and either store, from
`SnapshotsAssumption` and `CallsAssumption` (distinct placeholders, natural
bounds). An acknowledgement says nothing of the other handlers. The invariant
adds that until its row is stored only its creator works on a snapshot
(`OneCreator`), that an ID not yet drawn is nowhere (`Undrawn`), and, at each
position of a handler, what it has in hand: a handler that removes was asked to
by the owner, and when it drops the row the image is gone or recorded as a leak
(`HandlersOK`).

`TenancyProofs` proves `AnswersAlwaysMatch`, `RowsAlwaysKeepMakers` and
`OnlyMakersEverRemove` for any keys, names, rows and restarts, from
`TenancyAssumption`. The derived IDs are injective (`UsersDiffer`, `TenantsDiffer`)
and never the empty ID that bypasses the checks (`NeverNoUser`); a tool call
stands for the tenant that its MCP server will act for (`ToolOK`), what is on the
wire carries the key and the name of whom it stands for (`WireOK`), and the
columns of a row are those derived from its maker (`RowsOK`). What a query selects
by derived IDs is then what the caller made: `Exact` holds for requests without
a name too, and `DueIsOwned` gives the weaker claim that `AnswersMatchMakers` makes
of them.

`ExecWSProofs` proves `AlwaysReturnsClean` and `ExitAlwaysExplained` for any amount
of output, from `OutputAssumption`. The invariant follows `closeAll`: who runs
its body and how far it is (`Closing`), why each goroutine is about to run it
(`Causes`), what the output side has read and sent at each of its positions
(`Stream`), and what it knows of the process (`Exit`). An exit of 0 for a running
process is thereby traced to the side that closed the session first.

`ServerProofs` proves `ServingSchemaAlways`, `AlwaysQuietAfterStop` and
`RowsAlwaysKept` for any number of processes, keys, deaths and signals, both
databases and all earlier schemas, from `ServerAssumption`. The schema alone does
not tell how far a process is, and others change it meanwhile. `Effect(i)` is what
statement i brings about; `Progress` says that for each process the effects of
all statements before its own hold. The lemmas show that no statement of
another process, no request and no bootstrap undoes an effect (`Sound`), so a
process at the end of its list has all of them (`Migrated`), which is the
complete schema. `Inherited` is what the old databases contribute without any
statement looking.

`SkillsProofs` proves `AnsweredIdsAlwaysResolve`, `InstalledAlwaysOwners`,
`StableSkillsAlwaysInjected`, `PushAlwaysOnTop` and `ListingAlwaysComplete` for any
sets of users, handlers, names, archives and IDs and either store, from
`SkillsAssumption` and `CallsAssumption`. `Library` and `Drawing` make IDs and
names unique in the table and among registrations in flight; `UpsertGrows` is
the lemma about the upsert: nothing is lost, and what is new has the archive of
the request. `Creator` says that one handler creates the environment and is
done before it runs, from which `PushIsOnTop` follows; `Giving` that what is
loaded or in hand is the owner's; `Keeping` that a name kept in the library is
installed, in hand or still ahead in the loop; `Listing` that what a listing
owes was found or is still ahead.

TLC finds each of these invariants to hold on the instance of its component's run
as well.

Every invariant and every action property of a passing run is thus proved. Only
model-checked are `ExpiredEventuallyReaped`, `SessionEnds`, `SilentClientDropped`,
`ExecEnds` and `AllServeInTheEnd`: liveness under fairness, out of the prover's reach.

## Findings

`exec_timeout` shows that `timeout_seconds` does not end a silent command, against
the descriptions of the tools that take it. `PROJECT.json` quotes the lines.

Other disagreements, which the passing properties state as exceptions:

- Rollbacks run under the context whose cancellation made them necessary
  (`environment.go:152`, `snapshot.go:72`): a container or an image is left with
  no record, although ARCHITECTURE.md:316 gives every container an idle timeout
  and a lifetime (`OrphansExplained`, `ImagesExplained`).
- The last Update of a creation may fail silently (`environment.go:165`): the
  client was told "running", as in README.md:417, and with SQLStore the record
  stays in creating (the exception in `AckedIsRunning`).
- The reaper acts on a list from the start of its cycle (`reaper.go:79`): it can
  stop an environment whose terminal was opened since, against the comment at
  `execws.go:173`; so it can if the first stamp of the terminal failed, which is only
  logged, or if the idle timeout is configured as short as the keep-alive interval,
  which nothing compares (the exceptions in `UseIsSpared`).
- `ExecExitCode` ignores Running (`docker.go:253`): a terminal whose session is
  torn down is told exit 0 of a process that runs; `execws.go:71` calls the message
  "process exited". `ExitExplained` lists the causes; one is input typed after the
  process has exited, which can also swallow the message.
- Pongs wait behind a blocked `session.Write`, so a client that answers every ping
  can be dropped (`SilentClientDropped` has the exception).
- With SQLStore a late Update rewinds `last_used_at` by as long as it took (`Lag` in
  `ReapedInTime` and `UseIsSpared`).
- A file whose stream breaks off is answered 200 with its beginning
  (`api/files.go:58`), and a write that fails may have destroyed the file it was to
  replace (the exceptions in `ReadsLastWrite`).
- `migrate` drops the foreign keys of earlier schemas "so end-user derived UUIDs ...
  can be stored" (`sql.go:165`) with PostgreSQL only: on an old SQLite database
  requests with `X-Haas-User-ID` may be refused (the exception in `ServingSchema`).
- README.md:342 says that requests without `X-Haas-User-ID` "can see all environments
  (equivalent to the tenant-admin view)"; the list shows those made without the
  header, and only the tenant lists show all (the exception in `AnswersMatchMakers`).
- The tool `haas_write_file` promises to create parent directories
  (`mcpserver/server.go`); a write into a missing directory fails
  (`WriteFile` in Files).
- With GNU find a directory is listed among its own children, and a directory that
  does not exist is listed as empty (`ListingComplete`, `listFilesWithLS`).

## Not modelled, and the plan

Left out for good: HTTP plumbing, the parsing of the configuration, Docker
options, the wording of results, the frontmatter of skills, and test support,
which keep no state of their own. `ListInstalledSkills` answers any error of
its listing with an empty list (`skill.go:138`); no property is stated about
that, as the code means it. `Reaper.Stop` would panic if called twice; `main` calls it
once.

Next:

`Files` and `Skills` composed: pushes over trees in which earlier pushes failed.
