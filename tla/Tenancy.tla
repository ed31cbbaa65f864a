------------------------------- MODULE Tenancy -------------------------------
(***************************************************************************)
(* Who sees what.  A request comes straight to the REST API, through the   *)
(* SDK, or as a tool call through the MCP server, which authenticates it   *)
(* and sends a request of its own; the middleware of the REST API turns    *)
(* key and header into a tenant and an effective user, and the store       *)
(* filters its rows by one of the two.  The server restarts with other     *)
(* keys while its rows stay.                                               *)
(*                                                                         *)
(* The operations on rows are atomic here: what happens inside them is in  *)
(* EnvLifecycle, Snapshots and Skills.                                     *)
(***************************************************************************)
EXTENDS Naturals, Sequences

CONSTANTS
    Keys,          \* raw API keys
    Names,         \* names of end users, without blanks around them
    RowIDs,        \* IDs of environments, snapshots and skills
    MaxRestarts    \* bound: restarts of the REST API, with any keys

ASSUME TenancyAssumption ==
    /\ Keys # {} /\ "nobody" \notin Names
    /\ MaxRestarts \in Nat

VARIABLES
    keys,          \* HAAS_API_KEYS of the running server, none of them empty
    proxy,         \* the MCP server: "embedded" in the REST server, or "standalone"
    proxyKey,      \*    HAAS_API_KEY of a standalone one
    rows,          \* environments, snapshots and skills
    stage,         \* the request under way: "idle", "tool", "wire" or "done"
    call,          \* the tool call at the MCP server, or the request on the wire
    answer,        \* its status and the IDs it shows
    restarts,
    maker,         \* history: on whose behalf a row was made
    due            \* history: what the answer should show

requestVars == <<stage, call, answer, due>>
vars == <<keys, proxy, proxyKey, rows, restarts, maker, requestVars>>

NoName == "nobody"   \* the empty string
Kinds == {"environment", "snapshot", "skill"}
NoCall == [op |-> "none"]
NoAnswer == [status |-> "none", ids |-> {}]

\* A user ID as a client gives it, with or without blanks around it.
Args == [name : Names \cup {NoName}, blanks : {"no", "yes"}]
Absent == [name |-> NoName, blanks |-> "no"]
TrimSpace(a) == [a EXCEPT !.blanks = "no"]

-----------------------------------------------------------------------------
(* Identities.                                                             *)

\* A name-based UUID, as injective as SHA-1.
NewSHA1(space, name) == Append(space, name)
haasNamespace == <<"haas">>
HashKey(k) == <<"sha256", k>>

deriveUserID(hash) == NewSHA1(haasNamespace, hash)

deriveEndUserID(tenantID, name) == NewSHA1(tenantID, name)

\* UUID-shaped, like every ID the middleware hands on: none is the empty ID
\* that makes the store skip its filter.
NoUser == <<>>

\* The user of a request of tenant tenantID.
EffectiveUser(tenantID, header) ==
    LET external == TrimSpace(header).name
    IN  IF external = NoName THEN tenantID ELSE deriveEndUserID(tenantID, external)

\* The tenants the manager knows.
UserID(k) == deriveUserID(HashKey(k))

-----------------------------------------------------------------------------
(* Requests.                                                               *)

\* The routes; "use" is an exec, a file operation, or a push or a listing of
\* installed skills, inside an environment.
Calls == [op : {"create"}, kind : {"environment", "skill"}, id : {"none"}]
         \cup [op : {"create"}, kind : {"snapshot"}, id : RowIDs]
         \cup [op : {"restore"}, kind : {"environment"}, id : RowIDs]
         \cup [op : {"list", "list_tenant"}, kind : Kinds, id : {"none"}]
         \cup [op : {"get", "delete"}, kind : Kinds, id : RowIDs]
         \cup [op : {"use"}, kind : {"environment"}, id : RowIDs]

\* The tools the MCP server registers.
EnvironmentTools == {q \in Calls : q.kind = "environment" /\ q.op \in {"create", "list", "get", "delete"}}
SnapshotTools == {q \in Calls : \/ q.kind = "snapshot" /\ q.op \in {"create", "list", "delete"}
                                \/ q.op = "restore"}
UseTools == {q \in Calls : q.op = "use"}
TenantTools == {q \in Calls : q.kind \in {"environment", "snapshot"} /\ q.op = "list_tenant"}
Tools == EnvironmentTools \cup SnapshotTools \cup UseTools \cup TenantTools

\* Its resources, which take no user.
EnvironmentResources == {q \in EnvironmentTools : q.op \in {"list", "get"}}

\* The methods of the SDK's client, and what its own tools call of them.
EnvironmentMethods == EnvironmentTools
SnapshotMethods == SnapshotTools \cup {q \in Calls : q.kind = "snapshot" /\ q.op = "get"}
SkillMethods == {q \in Calls : q.kind = "skill" /\ q.op # "list_tenant"}
UseMethods == UseTools
DispatchEnvironment == EnvironmentMethods
DispatchUse == UseMethods
DispatchSnapshot == SnapshotTools
Dispatch == DispatchEnvironment \cup DispatchUse \cup DispatchSnapshot

\* A request q with key k and header h, on behalf of the end user named name
\* of the tenant with key owner.
Request(q, prefix, k, h, owner, name) ==
    [op |-> q.op, kind |-> q.kind, id |-> q.id, prefix |-> prefix, key |-> k, header |-> h,
     owner |-> owner, name |-> name]

Send(s, r) == /\ stage' = s /\ call' = r
              /\ answer' = NoAnswer /\ due' = {}
              /\ UNCHANGED <<keys, proxy, proxyKey, rows, restarts, maker>>

\* Any HTTP client.
AskREST(q, prefix, k, a) ==
    Send("wire", Request(q, prefix, k, a, k, a.name))

ForUser(a) == TrimSpace(a)

\* The SDK sends what ForUser leaves as the header, or none.
AskSDK(q, k, a) ==
    Send("wire", Request(q, "bearer", k, ForUser(a), k, a.name))

\* A tool call; a standalone MCP server acts for its own tenant.
AskTool(q, prefix, k, a) ==
    Send("tool", Request(q, prefix, k, a, IF proxy = "standalone" THEN proxyKey ELSE k, a.name))

Answer(status, ids) ==
    /\ stage' = "done" /\ call' = NoCall
    /\ answer' = [status |-> status, ids |-> ids]

\* The keys of the MCP server's clients of the REST API.
RESTKeys == IF proxy = "embedded" THEN keys ELSE {proxyKey}

\* Mutant: every caller gets the client of the first key.
MutantClientFromContext(k) == [apiKey |-> CHOOSE first \in RESTKeys : TRUE, userID |-> Absent]

\* A client with the key in the context, or the first one if it is not there.
ClientFromContext(k) ==
    [apiKey |-> IF k \in RESTKeys THEN k ELSE CHOOSE first \in RESTKeys : TRUE,
     userID |-> Absent]

\* The same for the end user the tool was given.
ScopedClient(r) == [ClientFromContext(r.key) EXCEPT !.userID = r.header]

\* The client's request.
Do(client) ==
    /\ stage' = "wire"
    /\ call' = [call EXCEPT !.key = client.apiKey, !.header = client.userID]
    /\ UNCHANGED answer

\* The methods of the client, each with the request of its tool.
Called(T) == \E q \in T : call.op = q.op /\ call.kind = q.kind
ClientEnvironment(client) == Called(EnvironmentTools) /\ Do(client)
ClientSnapshot(client) == Called(SnapshotTools) /\ Do(client)
ClientUse(client) == Called(UseTools) /\ Do(client)
ClientTenant(client) == Called(TenantTools) /\ Do(client)

EnvironmentTool == ClientEnvironment(ScopedClient(call))
SnapshotTool == ClientSnapshot(ScopedClient(call))
UseTool == ClientUse(ScopedClient(call))
TenantTool == ClientTenant(ClientFromContext(call.key))

\* bearerAuthMiddleware asks for a key of the server, or of MCP_API_KEYS,
\* which lists all keys here, and for the word Bearer.
Authenticated == call.prefix = "bearer" /\ (proxy = "standalone" \/ call.key \in keys)

CallTool ==
    /\ stage = "tool"
    /\ \/ Authenticated /\ (EnvironmentTool \/ SnapshotTool \/ UseTool \/ TenantTool)
       \/ ~Authenticated /\ Answer("unauthorized", {})
    /\ UNCHANGED <<keys, proxy, proxyKey, rows, restarts, maker, due>>

-----------------------------------------------------------------------------
(* The REST API.  Middleware lets a key of the server through with or      *)
(* without the word Bearer before it.                                      *)

Arrived(ops, kinds) == stage = "wire" /\ call.key \in keys /\ call.op \in ops /\ call.kind \in kinds

Tenant == UserID(call.key)
User == EffectiveUser(UserID(call.key), call.header)

\* What the caller of the current request made, and what its tenant's users made.
MadeBy(k, n) == {r.id : r \in {x \in rows : maker[x.id] = [owner |-> k, name |-> n]}}
MadeUnder(k) == {r.id : r \in {x \in rows : maker[x.id].owner = k}}
OfKind(kind) == {r \in rows : r.kind = kind}
IDs(S) == {r.id : r \in S}

Unauthorized ==
    /\ stage = "wire" /\ call.key \notin keys
    /\ Answer("unauthorized", {})
    /\ UNCHANGED <<keys, proxy, proxyKey, rows, restarts, maker, due>>

\* SELECT ... WHERE user_id = u, or of all users if u is empty.
List(kind, u) == {r \in OfKind(kind) : u # NoUser => r.user = u}

\* Mutant: the ID alone finds a row.
MutantGet(kind, id, u) == {r \in OfKind(kind) : r.id = id}

Get(kind, id, u) == {r \in List(kind, u) : r.id = id}

\* SELECT ... WHERE tenant_id = t.
ListByTenant(kind, t) == {r \in OfKind(kind) : r.tenant = t}

\* Mutant: the tenant is taken for the effective user.
MutantNewRow(kind, id) == [id |-> id, kind |-> kind, user |-> User, tenant |-> User]

NewRow(kind, id) == [id |-> id, kind |-> kind, user |-> User, tenant |-> Tenant]

\* A new row of the caller, who should be given it if entitled.
Insert(kind, entitled) ==
    \E id \in RowIDs \ DOMAIN maker :
        /\ rows' = rows \cup {NewRow(kind, id)}
        /\ maker' = [x \in DOMAIN maker \cup {id} |->
                        IF x = id THEN [owner |-> call.owner, name |-> call.name] ELSE maker[x]]
        /\ Answer("ok", {id})
        /\ due' = IF entitled THEN {id} ELSE {}

\* POST /v1/environments with an image, POST /v1/skills.
ServeCreate ==
    /\ Arrived({"create"}, {"environment", "skill"})
    /\ Insert(call.kind, TRUE)
    /\ UNCHANGED <<keys, proxy, proxyKey, restarts>>

\* A row made from another: a snapshot of an environment, an environment of a
\* snapshot.
From(kind, source) ==
    LET own == MadeBy(call.owner, call.name) \cap IDs(OfKind(source)) \cap {call.id}
    IN  \/ Get(source, call.id, User) # {} /\ Insert(kind, own # {})
        \/ /\ Get(source, call.id, User) = {}
           /\ Answer("not_found", {}) /\ due' = own
           /\ UNCHANGED <<rows, maker>>

ServeSnapshot ==
    /\ Arrived({"create"}, {"snapshot"})
    /\ From("snapshot", "environment")
    /\ UNCHANGED <<keys, proxy, proxyKey, restarts>>

ServeRestore ==
    /\ Arrived({"restore"}, {"environment"})
    /\ From("environment", "snapshot")
    /\ UNCHANGED <<keys, proxy, proxyKey, restarts>>

ServeList ==
    /\ Arrived({"list"}, Kinds)
    /\ Answer("ok", IDs(List(call.kind, User)))
    /\ due' = MadeBy(call.owner, call.name) \cap IDs(OfKind(call.kind))
    /\ UNCHANGED <<keys, proxy, proxyKey, rows, restarts, maker>>

ServeListTenant ==
    /\ Arrived({"list_tenant"}, Kinds)
    /\ Answer("ok", IDs(ListByTenant(call.kind, Tenant)))
    /\ due' = MadeUnder(call.owner) \cap IDs(OfKind(call.kind))
    /\ UNCHANGED <<keys, proxy, proxyKey, rows, restarts, maker>>

ServeGet ==
    /\ Arrived({"get"}, Kinds)
    /\ LET found == Get(call.kind, call.id, User)
       IN  Answer(IF found = {} THEN "not_found" ELSE "ok", IDs(found))
    /\ due' = MadeBy(call.owner, call.name) \cap IDs(OfKind(call.kind)) \cap {call.id}
    /\ UNCHANGED <<keys, proxy, proxyKey, rows, restarts, maker>>

\* The environment is looked up as for a Get before anything is done in it.
ServeUse ==
    /\ Arrived({"use"}, {"environment"})
    /\ LET found == Get("environment", call.id, User)
       IN  Answer(IF found = {} THEN "not_found" ELSE "ok", IDs(found))
    /\ due' = MadeBy(call.owner, call.name) \cap IDs(OfKind("environment")) \cap {call.id}
    /\ UNCHANGED <<keys, proxy, proxyKey, rows, restarts, maker>>

ServeDelete ==
    /\ Arrived({"delete"}, Kinds)
    /\ LET found == Get(call.kind, call.id, User)
       IN  /\ Answer(IF found = {} THEN "not_found" ELSE "ok", IDs(found))
           /\ rows' = rows \ found
    /\ due' = MadeBy(call.owner, call.name) \cap IDs(OfKind(call.kind)) \cap {call.id}
    /\ UNCHANGED <<keys, proxy, proxyKey, restarts, maker>>

-----------------------------------------------------------------------------
\* The reaper, with the empty user.
Reap(id) ==
    /\ Get("environment", id, NoUser) # {}
    /\ rows' = rows \ Get("environment", id, NoUser)
    /\ UNCHANGED <<keys, proxy, proxyKey, restarts, maker, requestVars>>

\* The REST API starts again with other keys, and an embedded MCP server with
\* it; requests to either are lost.
Restart(K) ==
    /\ restarts < MaxRestarts
    /\ restarts' = restarts + 1
    /\ keys' = K
    /\ \/ stage = "tool" /\ proxy = "standalone" /\ UNCHANGED requestVars
       \/ /\ ~(stage = "tool" /\ proxy = "standalone")
          /\ stage' = "idle" /\ call' = NoCall /\ answer' = NoAnswer /\ due' = {}
    /\ UNCHANGED <<proxy, proxyKey, rows, maker>>

Init ==
    /\ keys \in (SUBSET Keys) \ {{}}
    /\ \/ proxy = "standalone" /\ proxyKey \in Keys
       \/ proxy = "embedded" /\ proxyKey = CHOOSE k \in Keys : TRUE
    /\ rows = {} /\ maker = [x \in {} |-> NoName]
    /\ stage = "idle" /\ call = NoCall /\ answer = NoAnswer /\ due = {}
    /\ restarts = 0

\* One request at a time.
Ask ==
    /\ stage \in {"idle", "done"}
    /\ \E k \in Keys, a \in Args :
          \/ \E q \in Calls, prefix \in {"bearer", "bare"} : AskREST(q, prefix, k, a)
          \/ \E q \in EnvironmentMethods \cup SnapshotMethods \cup SkillMethods \cup UseMethods : AskSDK(q, k, a)
          \/ \E q \in Dispatch : AskSDK(q, k, a)
          \/ \E q \in Tools, prefix \in {"bearer", "bare"} : AskTool(q, prefix, k, a)
          \/ \E q \in EnvironmentResources, prefix \in {"bearer", "bare"} : AskTool(q, prefix, k, Absent)

Serve == \/ Unauthorized \/ ServeCreate \/ ServeSnapshot \/ ServeRestore
         \/ ServeList \/ ServeListTenant \/ ServeGet \/ ServeUse \/ ServeDelete

Next == \/ Ask \/ CallTool \/ Serve
        \/ \E id \in RowIDs : Reap(id)
        \/ \E K \in (SUBSET Keys) \ {{}} : Restart(K)

Spec == Init /\ [][Next]_vars

-----------------------------------------------------------------------------
(* Properties.                                                             *)

Makers == [owner : Keys, name : Names \cup {NoName}]

\* Every row has an effective user, never the empty one that lifts the
\* store's filters, and a maker; IDs are not used twice.
TypeOK ==
    /\ keys \in (SUBSET Keys) \ {{}} /\ proxyKey \in Keys
    /\ stage \in {"idle", "tool", "wire", "done"} /\ restarts \in 0..MaxRestarts
    /\ \A r \in rows : /\ r.id \in DOMAIN maker /\ r.kind \in Kinds
                       /\ NoUser \notin {r.user, r.tenant}
    /\ \A r, q \in rows : r.id = q.id => r = q
    /\ \A id \in DOMAIN maker : id \in RowIDs /\ maker[id] \in Makers
    /\ answer.ids \subseteq RowIDs /\ due \subseteq RowIDs

\* Isolation, both ways.  An answer to a named end user shows what that end
\* user of the same key made, and a tenant list what all users of the key made:
\* nothing of anybody else, and nothing is missing, whether a row was made and
\* is now asked for over REST, the SDK or either kind of MCP server, with blanks
\* around the name or not, and before or after restarts with other keys.
\* Exception: a request without a name.  README.md:342 says that it "can see all
\* environments (equivalent to the tenant-admin view)", while List shows it only
\* what was made without a name.  Both are allowed: it misses nothing that was
\* made without a name, and is shown nothing of another key.
AnswersMatchMakers ==
    [][stage # "done" /\ stage' = "done" /\ answer'.status \in {"ok", "not_found"} =>
          IF call.name # NoName \/ call.op = "list_tenant"
          THEN answer'.ids = due'
          ELSE due' \subseteq answer'.ids /\ \A id \in answer'.ids : maker'[id].owner = call.owner]_vars

\* Identities are stable: two rows have one user exactly if they were made
\* for one user of one key, and one tenant exactly if made with one key, and
\* no row has the empty user (TypeOK).
RowsKeepMakers ==
    /\ TypeOK
    /\ \A r, q \in rows :
        /\ r.user = q.user <=> maker[r.id] = maker[q.id]
        /\ r.tenant = q.tenant <=> maker[r.id].owner = maker[q.id].owner

\* A row goes only in the service of its maker, except that the reaper
\* removes environments.
OnlyMakersRemove ==
    [][\A r \in rows \ rows' :
          \/ call # NoCall /\ call.op = "delete" /\ maker[r.id] = [owner |-> call.owner, name |-> call.name]
          \/ r.kind = "environment" /\ UNCHANGED requestVars]_vars
=============================================================================
