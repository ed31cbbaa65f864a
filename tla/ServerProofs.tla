---------------------------- MODULE ServerProofs -----------------------------
(***************************************************************************)
(* Proofs about Server: for any number of processes that migrate, serve,   *)
(* stop and die on one database, for any keys, and for any number of       *)
(* deaths and signals.                                                     *)
(***************************************************************************)
EXTENDS Server, TLAPS

-----------------------------------------------------------------------------
(* The statements of a migration.                                          *)

Statement(i) == IF i <= Len(Migration) THEN Migration[i] ELSE MigrationPG[i - Len(Migration)]

Backfilling == {"environments", "snapshots"}

LEMMA StepsIs == isPG \in BOOLEAN => Steps \in Nat /\ Steps = IF isPG THEN 18 ELSE 16
BY DEF Steps, Migration, MigrationPG

LEMMA Lengths == Len(Migration) = 16 /\ Len(MigrationPG) = 2
BY DEF Migration, MigrationPG

\* What each statement is, by its number.
LEMMA Tabled ==
    /\ Statement(1) = Stmt("table", "users", None) /\ Statement(2) = Stmt("table", "api_keys", None)
    /\ Statement(3) = Stmt("table", "environments", None) /\ Statement(4) = Stmt("table", "snapshots", None)
    /\ Statement(5) = Stmt("table", "skills", None)
BY Lengths DEF Statement, Migration

LEMMA Columned ==
    /\ Statement(6) = Stmt("column", "environments", "user_id")
    /\ Statement(7) = Stmt("column", "environments", "tenant_id")
    /\ Statement(8) = Stmt("column", "snapshots", "tenant_id")
BY Lengths DEF Statement, Migration

LEMMA Indexed ==
    /\ Statement(9) = Stmt("index", "environments", "user_id")
    /\ Statement(10) = Stmt("index", "environments", "tenant_id")
    /\ Statement(11) = Stmt("index", "snapshots", "user_id")
    /\ Statement(12) = Stmt("index", "snapshots", "tenant_id")
    /\ Statement(13) = Stmt("index", "skills", "user_id")
    /\ Statement(14) = Stmt("index", "skills", "tenant_id")
BY Lengths DEF Statement, Migration

LEMMA Filling ==
    /\ Statement(15) = Stmt("backfill", "environments", None)
    /\ Statement(16) = Stmt("backfill", "snapshots", None)
    /\ Statement(17) = Stmt("drop", "environments", None)
    /\ Statement(18) = Stmt("drop", "snapshots", None)
BY Lengths DEF Statement, Migration, MigrationPG

LEMMA StatementType ==
    ASSUME isPG \in BOOLEAN, NEW i \in 1 .. Steps
    PROVE  LET s == Statement(i) IN
           /\ s.do = "table" => s.table \in Tables
           /\ s.do \in {"column", "index"} => s.table \in Owned /\ s.column \in {"user_id", "tenant_id"}
           /\ s.do \in {"backfill", "drop"} => s.table \in Backfilling
           /\ s.do \in {"table", "column", "index", "backfill", "drop"}
<1>1. i \in 1 .. 18
  BY StepsIs
<1>2. CASE i \in 1 .. 5
  BY <1>2, Tabled DEF Stmt, Tables, Owned
<1>3. CASE i \in 6 .. 8
  BY <1>3, Columned DEF Stmt, Owned
<1>4. CASE i \in 9 .. 14
  BY <1>4, Indexed DEF Stmt, Owned
<1>5. CASE i \in 15 .. 18
  BY <1>5, Filling DEF Stmt, Backfilling
<1>. QED BY <1>1, <1>2, <1>3, <1>4, <1>5

-----------------------------------------------------------------------------
(* The inductive invariant.                                                *)

Mains == {"down", "migrate", "alter", "bootstrap", "serve", "stopping", "shutdown"}
AllRows == [id : NewIDs \cup Backfilling, table : Backfilling,
            user : {None, "owner", "end"}, tenant : {None, "owner", "end"}]

Types ==
    /\ isPG \in BOOLEAN /\ rows \subseteq AllRows
    /\ main \in [Processes -> Mains] /\ step \in [Processes -> Nat]
    /\ todo \in [Processes -> SUBSET Keys]
    /\ listener \in [Processes -> {"off", "spawned", "open", "draining"}]
    /\ reaper \in [Processes -> {"off", "spawned", "waiting", "reaping"}]
    /\ tick \in [Processes -> BOOLEAN]

\* What no statement of a migration checks: tables that no version had
\* without these columns.
Inherited ==
    /\ Table("skills") \in schema => Columns("skills") \subseteq schema
    /\ Table("snapshots") \in schema => Column("snapshots", "user_id") \in schema

\* Every row of t that has a user has a tenant.
Filled(t) == \A r \in rows : r.table = t /\ r.user # None => r.tenant # None

\* What statement i has brought about once it has succeeded, and what no
\* later step of any process undoes.
Effect(i) ==
    LET s == Statement(i) IN
    /\ s.do = "table" => Table(s.table) \in schema
    /\ s.do = "column" => Column(s.table, s.column) \in schema
    /\ s.do = "index" => Index(s.table, s.column) \in schema
    /\ s.do = "backfill" => Filled(s.table)
    /\ s.do = "drop" => ForeignKey(s.table) \notin schema

Migrated == \A i \in 1 .. Steps : Effect(i)

\* How far each process is: all statements before its own have succeeded.
Progress ==
    \A p \in Processes :
        /\ main[p] \in {"migrate", "alter"} => step[p] \in 1 .. Steps /\ \A i \in 1 .. step[p] - 1 : Effect(i)
        /\ main[p] = "alter" => Here(p).do = "column"
        /\ main[p] \in {"bootstrap", "serve", "stopping", "shutdown"} => Migrated
        /\ main[p] = "bootstrap" => Keys \subseteq apiKeys \cup todo[p]
        /\ main[p] \in {"serve", "stopping", "shutdown"} => Keys \subseteq apiKeys

\* No tick waits for a reaper that has not begun or has ended, nor after Stop.
Ticks ==
    \A p \in Processes :
        /\ reaper[p] \in {"off", "spawned"} => ~tick[p]
        /\ main[p] = "shutdown" => reaper[p] # "reaping" /\ ~tick[p]

IInv == Types /\ TypeOK /\ Inherited /\ Progress /\ Ticks

-----------------------------------------------------------------------------
(* The schema.                                                             *)

\* Items of different kinds differ.
LEMMA Different ==
    /\ \A t, u : Table(t) # ForeignKey(u) /\ (Table(t) = Table(u) => t = u) /\ (ForeignKey(t) = ForeignKey(u) => t = u)
    /\ \A t, u, c : Column(t, c) # Table(u) /\ Column(t, c) # ForeignKey(u)
    /\ \A t, u, c : Index(t, c) # Table(u) /\ Index(t, c) # ForeignKey(u)
    /\ \A t, u, c, d : Index(t, c) # Column(u, d)
    /\ \A t, u, c, d : Column(t, c) = Column(u, d) => t = u /\ c = d
BY DEF Table, Column, Index, ForeignKey

ForeignKeys == {ForeignKey("environments"), ForeignKey("snapshots")}

LEMMA ColumnsAre ==
    /\ \A t \in Owned : Columns(t) = {Column(t, "user_id"), Column(t, "tenant_id")}
    /\ \A t : Columns(t) \subseteq {Column(t, "user_id"), Column(t, "tenant_id")} /\ (t \notin Owned => Columns(t) = {})
BY DEF Columns

LEMMA ItemsAre ==
    \A x : x \in Items <=> \/ \E t \in Tables : x = Table(t)
                           \/ \E t \in Owned, c \in {"user_id", "tenant_id"} : x = Column(t, c) \/ x = Index(t, c)
<1>. DEFINE U == UNION {Columns(t) : t \in Owned}
<1>1. \A x : x \in U <=> \E t \in Owned : x \in Columns(t)
  OBVIOUS
<1>2. Items = {Table(t) : t \in Tables} \cup U \cup {Index(t, c) : t \in Owned, c \in {"user_id", "tenant_id"}}
  BY DEF Items
<1>. HIDE DEF U
<1>3. \A x : x \in U <=> \E t \in Owned, c \in {"user_id", "tenant_id"} : x = Column(t, c)
  BY <1>1, ColumnsAre
<1>. QED BY <1>2, <1>3

LEMMA ColumnsAreItems == \A t : Columns(t) \subseteq Items
BY ColumnsAre, ItemsAre

\* A migration that went through leaves a complete schema.
LEMMA MigratedIs ==
    ASSUME Types, TypeOK, Inherited, Migrated
    PROVE  /\ Items \subseteq schema
           /\ isPG => \A t \in {"environments", "snapshots"} : ForeignKey(t) \notin schema
           /\ \A r \in rows : r.user # None => r.tenant # None
<1>0. /\ \A i \in 1 .. 16 : Effect(i)
      /\ isPG => Effect(17) /\ Effect(18)
  BY StepsIs DEF Types, Migrated
<1>1. Table("users") \in schema /\ Table("api_keys") \in schema /\ Table("environments") \in schema
      /\ Table("snapshots") \in schema /\ Table("skills") \in schema
  BY <1>0, Tabled DEF Effect, Stmt
<1>2. Column("environments", "user_id") \in schema /\ Column("environments", "tenant_id") \in schema
      /\ Column("snapshots", "tenant_id") \in schema
  BY <1>0, Columned DEF Effect, Stmt
<1>3. Column("snapshots", "user_id") \in schema /\ Column("skills", "user_id") \in schema
      /\ Column("skills", "tenant_id") \in schema
  BY <1>1 DEF Inherited, Columns, Owned
<1>4. \A t \in Owned, c \in {"user_id", "tenant_id"} : Index(t, c) \in schema
  BY <1>0, Indexed DEF Effect, Stmt, Owned
<1>5. Items \subseteq schema
  BY <1>1, <1>2, <1>3, <1>4, ItemsAre DEF Tables, Owned
<1>6. Filled("environments") /\ Filled("snapshots")
  BY <1>0, Filling DEF Effect, Stmt
<1>7. \A r \in rows : r.user # None => r.tenant # None
  BY <1>6 DEF Filled, Types, AllRows, Backfilling
<1>8. isPG => \A t \in {"environments", "snapshots"} : ForeignKey(t) \notin schema
  BY <1>0, Filling DEF Effect, Stmt
<1>. QED BY <1>5, <1>7, <1>8

LEMMA Initially == Init => IInv
<1>. SUFFICES ASSUME Init PROVE IInv
  OBVIOUS
<1>1. PICK v \in DOMAIN OldTables :
          /\ schema = {Table(t) : t \in OldTables[v]} \cup OldColumns(v)
                      \cup (IF v = "no_users" THEN {} ELSE OldKeys(v))
          /\ rows = OldRows(v)
  BY DEF Init
<1>2. /\ v \in {"empty", "no_users", "no_snapshots", "no_tenants", "no_skills"}
      /\ OldTables[v] = CASE v = "empty" -> {} [] v = "no_users" -> {"environments"}
                          [] v = "no_snapshots" -> {"users", "api_keys", "environments"}
                          [] OTHER -> Tables \ {"skills"}
  BY DEF OldTables
<1>3. OldTables[v] \subseteq Tables \ {"skills"}
  BY <1>2 DEF Tables, Owned
<1>4. schema \subseteq Items \cup ForeignKeys
  BY <1>1, <1>3, ItemsAre, ColumnsAreItems DEF OldColumns, OldKeys, ForeignKeys
<1>5. Inherited
  <2>1. Table("skills") \notin schema
    BY <1>1, <1>3, Different DEF OldColumns, OldKeys, Columns
  <2>2. Table("snapshots") \in schema => "snapshots" \in OldTables[v]
    BY <1>1, Different DEF OldColumns, OldKeys, Columns
  <2>3. "snapshots" \in OldTables[v] => Column("snapshots", "user_id") \in OldColumns(v)
    <3>1. "snapshots" \in Owned /\ \A t \in Owned : Column("snapshots", "user_id") # Column(t, "tenant_id")
      BY Different DEF Owned
    <3>2. Column("snapshots", "user_id") # Column("environments", "user_id")
      BY Different
    <3>3. "snapshots" \in OldTables[v] => Column("snapshots", "user_id") \in UNION {Columns(t) : t \in OldTables[v]}
      BY <3>1, ColumnsAre
    <3>4. Column("snapshots", "user_id") \notin {Column(t, "tenant_id") : t \in Owned}
      BY <3>1
    <3>. QED BY <3>2, <3>3, <3>4 DEF OldColumns
  <2>. QED BY <1>1, <2>1, <2>2, <2>3 DEF Inherited
<1>6. rows \subseteq AllRows /\ \A r, q \in rows : r.id = q.id => r = q
  BY <1>1 DEF OldRows, Row, OldUser, AllRows, Backfilling
<1>7. Types
  BY <1>6 DEF Init, Types, Mains
<1>8. TypeOK
  BY <1>4, <1>6 DEF Init, TypeOK, ForeignKeys
<1>9. Progress /\ Ticks
  BY DEF Init, Progress, Ticks
<1>. QED BY <1>5, <1>7, <1>8, <1>9 DEF IInv

-----------------------------------------------------------------------------
(* Steps of the database.                                                  *)

\* What every step leaves: no effect of a statement is undone.
Kept ==
    /\ isPG' = isPG /\ apiKeys \subseteq apiKeys'
    /\ \A x \in schema \ ForeignKeys : x \in schema'
    /\ \A x \in ForeignKeys : x \in schema' => x \in schema
    /\ Filled("environments") => Filled("environments")'
    /\ Filled("snapshots") => Filled("snapshots")'

\* And what it does not break.
Sound ==
    /\ Kept /\ schema' \subseteq Items \cup ForeignKeys /\ apiKeys' \subseteq Keys
    /\ rows' \subseteq AllRows /\ \A r, q \in rows' : r.id = q.id => r = q
    /\ Inherited'

\* A step that changes no row and only adds items that are not tables.
LEMMA AddingIsSound ==
    ASSUME IInv, NEW c, schema' = schema \cup {c}, c \in Items, \A t : c # Table(t),
           UNCHANGED <<isPG, rows, apiKeys>>
    PROVE  Sound
<1>1. c \notin ForeignKeys
  BY ItemsAre, Different DEF ForeignKeys
<1>2. Inherited'
  BY <1>1, ColumnsAre DEF IInv, Inherited, ForeignKeys, Owned
<1>. QED BY <1>1, <1>2 DEF IInv, Types, TypeOK, Sound, Kept, Filled, ForeignKeys

LEMMA SameIsSound ==
    ASSUME IInv, UNCHANGED <<isPG, schema, rows, apiKeys>>
    PROVE  Sound
BY DEF IInv, Types, TypeOK, Sound, Kept, Filled, Inherited, ForeignKeys

LEMMA TableIsSound ==
    ASSUME IInv, NEW t \in Tables, schema' = schema \cup {Table(t)} \cup Columns(t),
           UNCHANGED <<isPG, rows, apiKeys>>
    PROVE  Sound
<1>1. ForeignKeys \cap ({Table(t)} \cup Columns(t)) = {} /\ \A u : Table(u) \notin Columns(t)
  BY ColumnsAre, Different DEF ForeignKeys
<1>2. Table(t) \in Items /\ Columns(t) \subseteq Items
  BY ItemsAre, ColumnsAreItems
<1>3. Inherited'
  <2>1. Table("skills") \in schema' => Columns("skills") \subseteq schema'
    BY <1>1, Different DEF IInv, Inherited
  <2>2. Table("snapshots") \in schema' => Column("snapshots", "user_id") \in schema'
    BY <1>1, Different, ColumnsAre DEF IInv, Inherited, Owned
  <2>. QED BY <2>1, <2>2 DEF Inherited
<1>. QED BY <1>1, <1>2, <1>3 DEF IInv, Types, TypeOK, Sound, Kept, Filled, ForeignKeys

LEMMA DropIsSound ==
    ASSUME IInv, NEW t \in Backfilling, schema' = schema \ {ForeignKey(t)},
           UNCHANGED <<isPG, rows, apiKeys>>
    PROVE  Sound
<1>1. ForeignKey(t) \in ForeignKeys /\ \A u, c : ForeignKey(t) # Column(u, c)
  BY Different DEF ForeignKeys, Backfilling
<1>2. Inherited'
  BY <1>1, ColumnsAre, Different DEF IInv, Inherited, Owned
<1>. QED BY <1>1, <1>2 DEF IInv, Types, TypeOK, Sound, Kept, Filled, ForeignKeys

\* A backfilled row keeps all but a tenant that was missing.
LEMMA BackfilledIs ==
    ASSUME Types, NEW t, NEW q \in Backfilled(t)
    PROVE  \E r \in rows : /\ q \in AllRows /\ q.id = r.id /\ q.table = r.table /\ q.user = r.user
                           /\ q.tenant = IF r.table = t /\ r.tenant = None THEN r.user ELSE r.tenant
<1>1. PICK r \in rows : q = IF r.table = t /\ r.tenant = None THEN [r EXCEPT !.tenant = r.user] ELSE r
  BY DEF Backfilled
<1>2. r \in AllRows
  BY DEF Types
<1>. QED BY <1>1, <1>2 DEF AllRows

LEMMA BackfillIsSound ==
    ASSUME IInv, NEW t \in Backfilling, rows' = Backfilled(t), UNCHANGED <<isPG, schema, apiKeys>>
    PROVE  Sound /\ Filled(t)'
<1>1. Types
  BY DEF IInv
<1>2. rows' \subseteq AllRows
  BY <1>1, BackfilledIs
<1>3. \A r, q \in rows' : r.id = q.id => r = q
  <2>. SUFFICES ASSUME NEW r \in rows', NEW q \in rows', r.id = q.id PROVE r = q
    OBVIOUS
  <2>1. PICK x \in rows : r.id = x.id /\ r.table = x.table /\ r.user = x.user
                           /\ r.tenant = IF x.table = t /\ x.tenant = None THEN x.user ELSE x.tenant
    BY <1>1, BackfilledIs
  <2>2. PICK y \in rows : q.id = y.id /\ q.table = y.table /\ q.user = y.user
                           /\ q.tenant = IF y.table = t /\ y.tenant = None THEN y.user ELSE y.tenant
    BY <1>1, BackfilledIs
  <2>0. \A a, b \in rows : a.id = b.id => a = b
    BY DEF IInv, TypeOK
  <2>3. x = y
    BY <2>0, <2>1, <2>2
  <2>4. r.table = q.table /\ r.user = q.user /\ r.tenant = q.tenant
    BY <2>1, <2>2, <2>3
  <2>5. r \in AllRows /\ q \in AllRows
    BY <1>2
  <2>. QED BY <2>4, <2>5 DEF AllRows
<1>4. Filled(t)'
  BY <1>1, BackfilledIs DEF Filled
<1>5. \A u : Filled(u) => Filled(u)'
  <2>. SUFFICES ASSUME NEW u, Filled(u), NEW q \in rows', q.table = u, q.user # None PROVE q.tenant # None
    BY DEF Filled
  <2>1. PICK r \in rows : q.table = r.table /\ q.user = r.user
                           /\ q.tenant = IF r.table = t /\ r.tenant = None THEN r.user ELSE r.tenant
    BY <1>1, BackfilledIs
  <2>. QED BY <2>1 DEF Filled
<1>. QED BY <1>2, <1>3, <1>4, <1>5 DEF IInv, TypeOK, Sound, Kept, Inherited, ForeignKeys

-----------------------------------------------------------------------------
(* Steps of the processes.                                                 *)

\* A statement that has succeeded has done so for good.
LEMMA EffectStays ==
    ASSUME Types, Kept, NEW i \in 1 .. Steps, Effect(i)
    PROVE  Effect(i)'
<1>. DEFINE s == Statement(i)
<1>1. /\ s.do = "table" => Table(s.table) \in schema'
      /\ s.do = "column" => Column(s.table, s.column) \in schema'
      /\ s.do = "index" => Index(s.table, s.column) \in schema'
  BY Different DEF Effect, Kept, ForeignKeys
<1>2. s.do = "drop" => ForeignKey(s.table) \notin schema'
  BY StatementType DEF Types, Effect, Kept, ForeignKeys, Backfilling
<1>3. s.do = "backfill" => Filled(s.table)'
  <2>1. s.do = "backfill" => s.table \in Backfilling
    BY StatementType DEF Types
  <2>2. s.do = "backfill" => Filled(s.table)
    BY DEF Effect
  <2>3. CASE s.table = "environments"
    BY <2>2, <2>3 DEF Kept, Filled
  <2>4. CASE s.table = "snapshots"
    BY <2>2, <2>4 DEF Kept, Filled
  <2>. QED BY <2>1, <2>3, <2>4 DEF Backfilling
<1>. QED BY <1>1, <1>2, <1>3 DEF Effect

LEMMA MigratedStays == Types /\ Kept /\ Migrated => Migrated'
<1>. SUFFICES ASSUME Types, Kept, Migrated PROVE Migrated'
  OBVIOUS
<1>1. Steps' = Steps
  BY DEF Kept, Steps
<1>. QED BY <1>1, EffectStays DEF Migrated

\* What a step of p leaves of the others.
Still(q) == /\ main'[q] = main[q] /\ step'[q] = step[q] /\ todo'[q] = todo[q]
            /\ listener'[q] = listener[q] /\ reaper'[q] = reaper[q] /\ tick'[q] = tick[q]

\* The conjuncts of the invariant that speak of one process.
Well(q) ==
    /\ step[q] \in IF main[q] \in {"migrate", "alter"} THEN 1 .. Steps ELSE {0}
    /\ main[q] \notin {"serve", "stopping", "shutdown"} => reaper[q] = "off" /\ listener[q] = "off"
    /\ main[q] \in {"migrate", "alter"} => \A i \in 1 .. step[q] - 1 : Effect(i)
    /\ main[q] = "alter" => Statement(step[q]).do = "column"
    /\ main[q] \in {"bootstrap", "serve", "stopping", "shutdown"} => Migrated
    /\ main[q] = "bootstrap" => Keys \subseteq apiKeys \cup todo[q]
    /\ main[q] \in {"serve", "stopping", "shutdown"} => Keys \subseteq apiKeys
    /\ reaper[q] \in {"off", "spawned"} => ~tick[q]
    /\ main[q] = "shutdown" => reaper[q] # "reaping" /\ ~tick[q]

GoroutineTypes ==
    /\ main \in [Processes -> Mains] /\ step \in [Processes -> Nat] /\ todo \in [Processes -> SUBSET Keys]
    /\ listener \in [Processes -> {"off", "spawned", "open", "draining"}]
    /\ reaper \in [Processes -> {"off", "spawned", "waiting", "reaping"}]
    /\ tick \in [Processes -> BOOLEAN]

LEMMA WellIs == IInv => \A q \in Processes : Well(q)
BY DEF IInv, TypeOK, Progress, Ticks, Well, Here, Statement

LEMMA StillWell ==
    ASSUME IInv, Kept, NEW q \in Processes, Still(q)
    PROVE  Well(q)'
<1>1. Steps' = Steps /\ Well(q)
  BY WellIs DEF Kept, Steps
<1>2. Types /\ main[q] \in Mains /\ (Migrated => Migrated')
  BY MigratedStays DEF IInv, Types
<1>3. main[q] \in {"migrate", "alter"} => \A i \in 1 .. step[q] - 1 : Effect(i)'
  <2>. SUFFICES ASSUME main[q] \in {"migrate", "alter"}, NEW i \in 1 .. step[q] - 1 PROVE Effect(i)'
    OBVIOUS
  <2>1. i \in 1 .. Steps /\ Effect(i)
    BY <1>1, StepsIs DEF Well, IInv, Types
  <2>. QED BY <1>2, <2>1, EffectStays
<1>. QED BY <1>1, <1>2, <1>3 DEF Still, Well, Kept

\* A step of p is judged by the database and by p alone.
LEMMA StepOf ==
    ASSUME IInv, Sound, NEW p \in Processes, GoroutineTypes', Well(p)',
           \A q \in Processes \ {p} : Still(q)
    PROVE  IInv'
<1>1. \A q \in Processes : Well(q)'
  BY StillWell DEF Sound
<1>2. Types'
  BY DEF Types, GoroutineTypes, Sound, Kept, IInv
<1>3. TypeOK'
  BY <1>1 DEF TypeOK, Well, GoroutineTypes, Mains, Sound, ForeignKeys
<1>4. Progress'
  BY <1>1 DEF Progress, Well, Here, Statement
<1>5. Ticks'
  BY <1>1 DEF Ticks, Well
<1>. QED BY <1>2, <1>3, <1>4, <1>5 DEF IInv, Sound

LEMMA GoneStep ==
    ASSUME IInv, Sound, NEW p \in Processes, Gone(p)
    PROVE  IInv'
<1>1. GoroutineTypes'
  BY DEF IInv, Types, GoroutineTypes, Gone, Mains
<1>2. Well(p)' /\ \A q \in Processes \ {p} : Still(q)
  BY DEF IInv, Types, Gone, Well, Still
<1>. QED BY <1>1, <1>2, StepOf

LEMMA ProceedStep ==
    ASSUME IInv, Sound, NEW p \in Processes, main[p] \in {"migrate", "alter"}, Proceed(p),
           NEW n, n = step[p], Effect(n)'
    PROVE  IInv'
<1>1. GoroutineTypes' /\ \A q \in Processes \ {p} : Still(q)
  BY DEF IInv, Types, GoroutineTypes, Proceed, goroutines, Mains, Still
<1>2. Well(p) /\ Steps' = Steps /\ Steps \in Nat /\ step[p] \in 1 .. Steps
  BY WellIs, StepsIs DEF Sound, Kept, Steps, IInv, Types, Well
<1>3. \A i \in 1 .. n : Effect(i)'
  <2>. SUFFICES ASSUME NEW i \in 1 .. n, i # n PROVE Effect(i)'
    OBVIOUS
  <2>1. i \in 1 .. Steps /\ Effect(i)
    BY <1>2 DEF Well
  <2>. QED BY <2>1, EffectStays DEF IInv, Sound
<1>4. Well(p)'
  <2>1. CASE step[p] < Steps /\ step' = [step EXCEPT ![p] = @ + 1] /\ main' = [main EXCEPT ![p] = "migrate"]
    BY <1>2, <1>3, <2>1 DEF Well, Proceed, goroutines, IInv, Types
  <2>2. CASE step[p] = Steps /\ step' = [step EXCEPT ![p] = 0] /\ main' = [main EXCEPT ![p] = "bootstrap"]
             /\ todo' = [todo EXCEPT ![p] = Keys]
    <3>1. Migrated'
      BY <1>2, <1>3, <2>2 DEF Migrated
    <3>. QED BY <1>2, <2>2, <3>1 DEF Well, Proceed, goroutines, IInv, Types
  <2>. QED BY <2>1, <2>2 DEF Proceed
<1>. QED BY <1>1, <1>4, StepOf

\* A statement that succeeds does what it is for, and one that is refused
\* does nothing.
LEMMA MigrateStep ==
    ASSUME IInv, NEW p \in Processes, Migrate(p)
    PROVE  IInv'
<1>. SUFFICES ASSUME NEW n, n = step[p] PROVE IInv'
  OBVIOUS
<1>. DEFINE s == Statement(n)
            t == Statement(n).table
            c == Statement(n).column
<1>0. ASSUME main[p] \in {"migrate", "alter"}
      PROVE  /\ n \in 1 .. Steps /\ Here(p) = s
             /\ s.do = "table" => t \in Tables
             /\ s.do \in {"column", "index"} => t \in Owned /\ c \in {"user_id", "tenant_id"}
             /\ s.do \in {"backfill", "drop"} => t \in Backfilling
  <2>1. n \in 1 .. Steps /\ Here(p) = s /\ isPG \in BOOLEAN
    BY <1>0 DEF IInv, Progress, Here, Statement, Types
  <2>. QED BY <2>1, StatementType
<1>1. ASSUME NEW needed, NEW changed, NEW changedRows,
             main[p] = "migrate", Exec(p, needed, changed, changedRows),
             schema' = changed /\ rows' = changedRows /\ UNCHANGED <<isPG, apiKeys>> => Sound /\ Effect(n)'
      PROVE  IInv'
  <2>1. CASE Proceed(p) /\ schema' = changed /\ rows' = changedRows
    BY <1>1, <2>1, ProceedStep DEF Exec
  <2>2. CASE Gone(p) /\ UNCHANGED <<schema, rows>>
    BY <1>1, <2>2, SameIsSound, GoneStep DEF Exec
  <2>. QED BY <1>1, <2>1, <2>2 DEF Exec
<1>2. CASE CreateTable(p)
  <2>. DEFINE new == IF Table(t) \in schema THEN schema ELSE schema \cup {Table(t)} \cup Columns(t)
  <2>1. main[p] = "migrate" /\ s.do = "table" /\ t \in Tables /\ \E needed : Exec(p, needed, new, rows)
    BY <1>0, <1>2 DEF CreateTable, At
  <2>2. ASSUME schema' = new, UNCHANGED <<rows, isPG, apiKeys>>
        PROVE  Sound /\ Effect(n)'
    BY <2>1, <2>2, SameIsSound, TableIsSound DEF Effect
  <2>. HIDE DEF new
  <2>. QED BY <1>1, <2>1, <2>2
<1>3. CASE AddColumnPG(p)
  <2>1. main[p] = "migrate" /\ s.do = "column" /\ t \in Owned /\ c \in {"user_id", "tenant_id"}
        /\ Exec(p, {Table(t)}, schema \cup {Column(t, c)}, rows)
    BY <1>0, <1>3 DEF AddColumnPG, At
  <2>2. Column(t, c) \in Items /\ \A u : Column(t, c) # Table(u)
    BY <2>1, ItemsAre, Different
  <2>3. ASSUME schema' = schema \cup {Column(t, c)}, UNCHANGED <<rows, isPG, apiKeys>>
        PROVE  Sound /\ Effect(n)'
    BY <2>1, <2>2, <2>3, AddingIsSound DEF Effect
  <2>. QED BY <1>1, <2>1, <2>3
<1>4. CASE CreateIndex(p)
  <2>1. main[p] = "migrate" /\ s.do = "index" /\ t \in Owned /\ c \in {"user_id", "tenant_id"}
        /\ Exec(p, {Column(t, c)}, schema \cup {Index(t, c)}, rows)
    BY <1>0, <1>4 DEF CreateIndex, At
  <2>2. Index(t, c) \in Items /\ \A u : Index(t, c) # Table(u)
    BY <2>1, ItemsAre, Different
  <2>3. ASSUME schema' = schema \cup {Index(t, c)}, UNCHANGED <<rows, isPG, apiKeys>>
        PROVE  Sound /\ Effect(n)'
    BY <2>1, <2>2, <2>3, AddingIsSound DEF Effect
  <2>. QED BY <1>1, <2>1, <2>3
<1>5. CASE Backfill(p)
  <2>1. main[p] = "migrate" /\ s.do = "backfill" /\ t \in Backfilling
        /\ \E needed : Exec(p, needed, schema, Backfilled(t))
    BY <1>0, <1>5 DEF Backfill, At
  <2>2. ASSUME rows' = Backfilled(t), UNCHANGED <<schema, isPG, apiKeys>>
        PROVE  Sound /\ Effect(n)'
    BY <2>1, <2>2, BackfillIsSound DEF Effect
  <2>. QED BY <1>1, <2>1, <2>2
<1>6. CASE DropConstraint(p)
  <2>1. main[p] = "migrate" /\ s.do = "drop" /\ t \in Backfilling
        /\ Exec(p, {Table(t)}, schema \ {ForeignKey(t)}, rows)
    BY <1>0, <1>6 DEF DropConstraint, At
  <2>2. ASSUME schema' = schema \ {ForeignKey(t)}, UNCHANGED <<rows, isPG, apiKeys>>
        PROVE  Sound /\ Effect(n)'
    BY <2>1, <2>2, DropIsSound DEF Effect
  <2>. QED BY <1>1, <2>1, <2>2
<1>7. CASE InspectColumn(p)
  <2>1. main[p] = "migrate" /\ s.do = "column" /\ Here(p) = s /\ UNCHANGED dbVars
    BY <1>0, <1>7 DEF InspectColumn, At
  <2>2. Sound
    BY <2>1, SameIsSound DEF dbVars
  <2>3. CASE Column(t, c) \in schema /\ Proceed(p)
    <3>1. Effect(n)'
      BY <2>1, <2>3 DEF Effect, dbVars
    <3>. QED BY <2>1, <2>2, <2>3, <3>1, ProceedStep
  <2>4. CASE main' = [main EXCEPT ![p] = "alter"] /\ UNCHANGED <<step, todo, goroutines>>
    <3>1. GoroutineTypes' /\ \A q \in Processes \ {p} : Still(q)
      BY <2>4 DEF IInv, Types, GoroutineTypes, goroutines, Mains, Still
    <3>2. Well(p) /\ Steps' = Steps /\ step[p] \in 1 .. Steps
      BY <1>0, <2>1, WellIs DEF Steps, dbVars
    <3>3. \A i \in 1 .. step[p] - 1 : Effect(i)'
      BY <2>1, <3>2 DEF Well, Effect, Filled, dbVars
    <3>4. Well(p)'
      BY <2>1, <2>4, <3>2, <3>3 DEF Well, goroutines, IInv, Types
    <3>. QED BY <2>2, <3>1, <3>4, StepOf
  <2>. QED BY <1>7, <2>1, <2>3, <2>4 DEF InspectColumn
<1>8. CASE AlterTable(p)
  <2>1. main[p] = "alter" /\ s.do = "column" /\ Here(p) = s /\ t \in Owned /\ c \in {"user_id", "tenant_id"}
        /\ UNCHANGED <<isPG, rows, apiKeys>>
    BY <1>0, <1>8 DEF AlterTable, IInv, Progress
  <2>2. Column(t, c) \in Items /\ \A u : Column(t, c) # Table(u)
    BY <2>1, ItemsAre, Different
  <2>3. CASE Proceed(p) /\ schema' = schema \cup {Column(t, c)}
    <3>1. Sound /\ Effect(n)'
      BY <2>1, <2>2, <2>3, AddingIsSound DEF Effect
    <3>. QED BY <2>1, <2>3, <3>1, ProceedStep
  <2>4. CASE Gone(p) /\ UNCHANGED schema
    BY <2>1, <2>4, SameIsSound, GoneStep
  <2>. QED BY <1>8, <2>1, <2>3, <2>4 DEF AlterTable
<1>. QED BY <1>2, <1>3, <1>4, <1>5, <1>6, <1>7, <1>8 DEF Migrate

\* A goroutine moves, the database does not.
LEMMA MoveStep ==
    ASSUME IInv, NEW p \in Processes, UNCHANGED dbVars, GoroutineTypes',
           \A q \in Processes \ {p} : Still(q),
           (Migrated => Migrated') => Well(p)'
    PROVE  IInv'
<1>1. Sound
  BY SameIsSound DEF dbVars
<1>2. Migrated => Migrated'
  BY <1>1, MigratedStays DEF Sound, IInv
<1>. QED BY <1>1, <1>2, StepOf

LEMMA LifeStep ==
    ASSUME IInv, NEW p \in Processes,
           \/ Start(p) \/ Launch(p) \/ Listen(p) \/ ReaperBegins(p) \/ Tick(p) \/ SelectTick(p)
           \/ SelectStop(p) \/ ReapEnds(p) \/ Signal(p) \/ StopReturns(p)
    PROVE  IInv'
<1>. USE DEF Start, Launch, Listen, ReaperBegins, Tick, SelectTick, SelectStop, ReapEnds, Signal, StopReturns,
             goroutines, counters, Stopped
<1>1. UNCHANGED dbVars
  OBVIOUS
<1>2. GoroutineTypes' /\ \A q \in Processes \ {p} : Still(q)
  <2>1. GoroutineTypes
    BY DEF IInv, Types, GoroutineTypes
  <2>2. CASE Start(p) \/ Launch(p) \/ Signal(p) \/ StopReturns(p)
    BY <2>1, <2>2 DEF GoroutineTypes, Mains, Still
  <2>3. CASE Listen(p) \/ ReaperBegins(p) \/ Tick(p)
    BY <2>1, <2>3 DEF GoroutineTypes, Still
  <2>4. CASE SelectTick(p) \/ SelectStop(p) \/ ReapEnds(p)
    BY <2>1, <2>4 DEF GoroutineTypes, Still
  <2>. QED BY <2>2, <2>3, <2>4
<1>3. Well(p) /\ Steps' = Steps /\ Steps \in Nat /\ Steps >= 1 /\ main[p] \in Mains
      /\ reaper[p] \in {"off", "spawned", "waiting", "reaping"} /\ tick[p] \in BOOLEAN
  BY <1>1, WellIs, StepsIs DEF dbVars, Steps, IInv, Types
<1>4. (Migrated => Migrated') => Well(p)'
  <2>. SUFFICES ASSUME Migrated => Migrated' PROVE Well(p)'
    OBVIOUS
  <2>1. apiKeys' = apiKeys
    BY <1>1 DEF dbVars
  <2>2. /\ step'[p] \in IF main'[p] \in {"migrate", "alter"} THEN 1 .. Steps' ELSE {0}
        /\ main'[p] \in {"migrate", "alter"} => \A i \in 1 .. step'[p] - 1 : Effect(i)'
    <3>1. CASE Start(p)
      BY <1>3, <3>1 DEF IInv, Types
    <3>2. CASE ~Start(p)
      <4>1. step' = step /\ main[p] \notin {"migrate", "alter"} /\ main'[p] \notin {"migrate", "alter"}
        BY <1>3, <3>2 DEF Well, Mains, IInv, Types
      <4>. QED BY <1>3, <4>1 DEF Well
    <3>. QED BY <3>1, <3>2
  <2>. QED BY <1>3, <2>1, <2>2 DEF Well, IInv, Types, Mains
<1>. QED BY <1>1, <1>2, <1>4, MoveStep

LEMMA BootstrapStep ==
    ASSUME IInv, NEW p \in Processes, NEW k \in Keys, BootstrapUser(p, k)
    PROVE  IInv'
<1>1. Sound
  BY DEF BootstrapUser, IInv, Types, TypeOK, Sound, Kept, Filled, Inherited, ForeignKeys
<1>2. GoroutineTypes' /\ \A q \in Processes \ {p} : Still(q)
  BY DEF BootstrapUser, goroutines, IInv, Types, GoroutineTypes, Still
<1>3. Well(p) /\ Steps' = Steps /\ (Migrated => Migrated')
  BY <1>1, WellIs, MigratedStays DEF Sound, Kept, Steps, IInv
<1>4. Well(p)'
  BY <1>3 DEF BootstrapUser, goroutines, Well, IInv, Types
<1>. QED BY <1>1, <1>2, <1>4, StepOf

\* A process that serves writes rows with a tenant.
LEMMA ServeStep ==
    ASSUME IInv, NEW p \in Processes, NEW id \in NewIDs, NEW t \in {"environments", "snapshots"},
           NEW user \in {"owner", "end"}, Serve(p, id, t, user)
    PROVE  IInv'
<1>1. /\ Row(id, t, user, "owner") \in AllRows /\ Row(id, t, user, "owner").id = id
      /\ Row(id, t, user, "owner").tenant # None
  BY DEF Row, AllRows, Backfilling, None
<1>. DEFINE n == Row(id, t, user, "owner")
<1>2. n \in AllRows /\ n.id = id /\ n.tenant # None /\ rows' = rows \cup {n} /\ \A r \in rows : r.id # id
  BY <1>1 DEF Serve
<1>. HIDE DEF n
<1>3. \A r, q \in rows' : r.id = q.id => r = q
  <2>1. \A r, q \in rows : r.id = q.id => r = q
    BY DEF IInv, TypeOK
  <2>. QED BY <1>2, <2>1
<1>4. \A u : Filled(u) => Filled(u)'
  BY <1>2 DEF Filled
<1>5. Sound
  BY <1>2, <1>3, <1>4 DEF Serve, IInv, Types, TypeOK, Sound, Kept, Inherited, ForeignKeys
<1>6. GoroutineTypes' /\ \A q \in Processes : Still(q)
  BY DEF Serve, goroutines, IInv, Types, GoroutineTypes, Still
<1>. QED BY <1>5, <1>6, StillWell, StepOf DEF Sound

LEMMA Preserved == IInv /\ [Next]_vars => IInv'
<1>. SUFFICES ASSUME IInv, [Next]_vars PROVE IInv'
  OBVIOUS
<1>1. ASSUME NEW p \in Processes, Exit(p) \/ Die(p) PROVE IInv'
  BY <1>1, SameIsSound, GoneStep DEF Exit, Die, dbVars
<1>2. CASE UNCHANGED vars
  BY <1>2 DEF vars, dbVars, goroutines, IInv, Types, TypeOK, Inherited, Progress, Ticks, Steps, Here, Effect, Filled,
              Migrated
<1>3. ASSUME NEW p \in Processes,
             \/ Start(p) \/ Migrate(p) \/ (\E k \in Keys : BootstrapUser(p, k)) \/ Launch(p)
             \/ Listen(p)
             \/ \E id \in NewIDs, t \in {"environments", "snapshots"}, user \in {"owner", "end"} : Serve(p, id, t, user)
             \/ ReaperBegins(p) \/ Tick(p) \/ SelectTick(p) \/ SelectStop(p) \/ ReapEnds(p)
             \/ Signal(p) \/ StopReturns(p)
      PROVE  IInv'
  BY <1>3, MigrateStep, BootstrapStep, ServeStep, LifeStep
<1>. QED BY <1>1, <1>2, <1>3 DEF Next

-----------------------------------------------------------------------------
(* The theorems.                                                           *)

\* Every statement, step and death of any process keeps what the statements
\* that have succeeded before brought about.
THEOREM Invariance == Spec => []IInv
BY Initially, Preserved, PTL DEF Spec

\* A process that serves has the whole schema, all keys and no row without a
\* tenant, and on PostgreSQL no foreign key that refuses end users, whatever
\* other processes do or have left undone and whatever database was there.
THEOREM ServingSchemaAlways == Spec => []ServingSchema
<1>1. IInv => ServingSchema
  <2>. SUFFICES ASSUME IInv PROVE ServingSchema
    OBVIOUS
  <2>1. ASSUME NEW p \in Processes, main[p] \in {"serve", "stopping", "shutdown"}
        PROVE  /\ Items \subseteq schema
               /\ isPG => \A t \in {"environments", "snapshots"} : ForeignKey(t) \notin schema
               /\ apiKeys = Keys
               /\ \A r \in rows : r.user # None => r.tenant # None
    <3>1. Migrated /\ Keys \subseteq apiKeys /\ apiKeys \subseteq Keys
      BY <2>1 DEF IInv, Progress, TypeOK
    <3>. QED BY <3>1, MigratedIs DEF IInv
  <2>. QED BY <2>1 DEF ServingSchema, IInv
<1>. QED BY <1>1, Invariance, PTL

\* No cycle of the reaper is under way once Stop has returned.
THEOREM AlwaysQuietAfterStop == Spec => []QuietAfterStop
<1>1. IInv => QuietAfterStop
  BY DEF IInv, Ticks, QuietAfterStop
<1>. QED BY <1>1, Invariance, PTL

\* No step of any process loses a row, or changes more of it than a tenant
\* that was missing.
THEOREM RowsAlwaysKept == Spec => RowsKept
<1>. DEFINE A == \A r \in rows : r \in rows' \/ (r.tenant = None /\ [r EXCEPT !.tenant = r.user] \in rows')
<1>1. Next => A
  <2>. SUFFICES ASSUME NEW p \in Processes, NEW r \in rows,
                       \/ Start(p) \/ Migrate(p) \/ (\E k \in Keys : BootstrapUser(p, k)) \/ Launch(p)
                       \/ Listen(p)
                       \/ \E id \in NewIDs, t \in {"environments", "snapshots"}, user \in {"owner", "end"} : Serve(p, id, t, user)
                       \/ ReaperBegins(p) \/ Tick(p) \/ SelectTick(p) \/ SelectStop(p) \/ ReapEnds(p)
                       \/ Signal(p) \/ StopReturns(p) \/ Exit(p) \/ Die(p)
                PROVE  r \in rows' \/ (r.tenant = None /\ [r EXCEPT !.tenant = r.user] \in rows')
    BY DEF Next
  <2>1. CASE Backfill(p)
    BY <2>1 DEF Backfill, Exec, Backfilled
  <2>2. CASE Migrate(p) /\ ~Backfill(p)
    BY <2>2 DEF Migrate, CreateTable, AddColumnPG, InspectColumn, AlterTable, CreateIndex, DropConstraint, Exec, dbVars
  <2>3. CASE ~Migrate(p)
    BY <2>3 DEF Start, BootstrapUser, Launch, Listen, Serve, ReaperBegins, Tick, SelectTick, SelectStop, ReapEnds,
                Signal, StopReturns, Exit, Die, dbVars
  <2>. QED BY <2>1, <2>2, <2>3
<1>. QED BY <1>1, PTL DEF Spec, RowsKept
=============================================================================
