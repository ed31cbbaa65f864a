---------------------------- MODULE TenancyProofs ----------------------------
(***************************************************************************)
(* Proofs about Tenancy: for any keys, any names of end users, any rows    *)
(* and any number of restarts.                                             *)
(***************************************************************************)
EXTENDS Tenancy, SequenceTheorems, TLAPS

-----------------------------------------------------------------------------
(* Identities.                                                             *)

\* The user that EffectiveUser derives for end user n of the tenant with key k.
UserOf(k, n) == EffectiveUser(UserID(k), [name |-> n, blanks |-> "no"])

\* Appending makes a longer tuple.
LEMMA AppendTwo == ASSUME NEW a, NEW b PROVE Append(<<a>>, b) = <<a, b>>
<1>. DEFINE S == {a, b}
<1>1. <<a>> \in Seq(S) /\ <<a, b>> \in Seq(S) /\ Len(<<a>>) = 1 /\ Len(<<a, b>>) = 2
  OBVIOUS
<1>2. /\ Append(<<a>>, b) \in Seq(S) /\ Len(Append(<<a>>, b)) = 2
      /\ Append(<<a>>, b)[1] = a /\ Append(<<a>>, b)[2] = b
  BY <1>1, AppendProperties
<1>3. \A i \in 1 .. Len(Append(<<a>>, b)) : Append(<<a>>, b)[i] = <<a, b>>[i]
  BY <1>1, <1>2
<1>. QED BY <1>1, <1>2, <1>3, SeqEqual

LEMMA AppendThree == ASSUME NEW a, NEW b, NEW c PROVE Append(<<a, b>>, c) = <<a, b, c>>
<1>. DEFINE S == {a, b, c}
<1>1. <<a, b>> \in Seq(S) /\ <<a, b, c>> \in Seq(S) /\ Len(<<a, b>>) = 2 /\ Len(<<a, b, c>>) = 3
  OBVIOUS
<1>2. /\ Append(<<a, b>>, c) \in Seq(S) /\ Len(Append(<<a, b>>, c)) = 3
      /\ Append(<<a, b>>, c)[1] = a /\ Append(<<a, b>>, c)[2] = b /\ Append(<<a, b>>, c)[3] = c
  BY <1>1, AppendProperties
<1>3. \A i \in 1 .. Len(Append(<<a, b>>, c)) : Append(<<a, b>>, c)[i] = <<a, b, c>>[i]
  BY <1>1, <1>2
<1>. QED BY <1>1, <1>2, <1>3, SeqEqual

LEMMA TenantIs == ASSUME NEW k PROVE UserID(k) = <<"haas", <<"sha256", k>>>>
BY AppendTwo DEF UserID, deriveUserID, NewSHA1, haasNamespace, HashKey

LEMMA EndUserIs == ASSUME NEW k, NEW n PROVE deriveEndUserID(UserID(k), n) = <<"haas", <<"sha256", k>>, n>>
BY TenantIs, AppendThree DEF deriveEndUserID, NewSHA1

\* Keys and tenants correspond.
LEMMA TenantsDiffer ==
    \A k, l : UserID(k) = UserID(l) <=> k = l
<1>1. \A k, l : <<"haas", <<"sha256", k>>>> = <<"haas", <<"sha256", l>>>> => k = l
  OBVIOUS
<1>. QED BY <1>1, TenantIs

\* A header is looked at without its blanks.
LEMMA HeaderIs ==
    ASSUME NEW k, NEW a \in Args
    PROVE  EffectiveUser(UserID(k), a) = UserOf(k, a.name)
BY DEF Args, UserOf, EffectiveUser, TrimSpace

LEMMA UserIs ==
    ASSUME NEW k, NEW n
    PROVE  UserOf(k, n) = IF n = NoName THEN <<"haas", <<"sha256", k>>>> ELSE <<"haas", <<"sha256", k>>, n>>
BY TenantIs, EndUserIs DEF UserOf, EffectiveUser, TrimSpace

\* End users and users correspond: neither two names under one key, nor one
\* name under two keys, nor a name and no name are mixed up.
LEMMA UsersDiffer ==
    \A k, l, m, n : UserOf(k, m) = UserOf(l, n) <=> k = l /\ m = n
<1>1. \A k, l, m, n : <<"haas", <<"sha256", k>>, m>> = <<"haas", <<"sha256", l>>, n>> => k = l /\ m = n
  OBVIOUS
<1>2. \A k, l, n : <<"haas", <<"sha256", k>>>> # <<"haas", <<"sha256", l>>, n>>
  OBVIOUS
<1>3. \A k, l : <<"haas", <<"sha256", k>>>> = <<"haas", <<"sha256", l>>>> => k = l
  OBVIOUS
<1>. QED BY <1>1, <1>2, <1>3, UserIs

\* No ID is the empty one, with which the store does not filter.
LEMMA NeverNoUser == \A k, n : UserID(k) # NoUser /\ UserOf(k, n) # NoUser
<1>1. \A k, n : <<"haas", <<"sha256", k>>>> # <<>> /\ <<"haas", <<"sha256", k>>, n>> # <<>>
  OBVIOUS
<1>. QED BY <1>1, TenantIs, UserIs DEF NoUser

-----------------------------------------------------------------------------
(* The inductive invariant.                                                *)

Ops == {"create", "restore", "list", "list_tenant", "get", "delete", "use"}
Requests == [op : Ops, kind : Kinds, id : RowIDs \cup {"none"}, prefix : {"bearer", "bare"},
             key : Keys, header : Args, owner : Keys, name : Names \cup {NoName}]

\* A tool call carries what its sender gave, and stands for the tenant that
\* the MCP server will act for.
ToolOK == stage = "tool" =>
    /\ call \in Requests /\ call.header.name = call.name
    /\ call.owner = IF proxy = "standalone" THEN proxyKey ELSE call.key

\* On the wire the key is that of the tenant the request stands for, and the
\* header names its end user, except where only the tenant matters.
WireOK == stage = "wire" =>
    /\ call \in Requests /\ call.key = call.owner
    /\ call.op # "list_tenant" => call.header.name = call.name

\* The columns of a row are derived from its maker.
RowsOK == \A r \in rows : /\ r.user = UserOf(maker[r.id].owner, maker[r.id].name)
                          /\ r.tenant = UserID(maker[r.id].owner)

\* An answer shows what is due: to a request without a name only what was made
\* without one, which is more than AnswersMatchMakers asks for.
Exact == answer.status \in {"ok", "not_found"} => answer.ids = due

IInv == /\ TypeOK /\ proxy \in {"standalone", "embedded"} /\ ToolOK /\ WireOK /\ RowsOK
        /\ Exact

-----------------------------------------------------------------------------
(* What the store's filters let through.                                   *)

\* The effective user of a request finds the rows of the one it stands for,
LEMMA UserFinds ==
    ASSUME IInv, stage = "wire", call.op # "list_tenant", NEW r \in rows
    PROVE  r.user = User <=> maker[r.id] = [owner |-> call.owner, name |-> call.name]
<1>1. call.header \in Args /\ call.header.name = call.name /\ call.key = call.owner
  BY DEF IInv, WireOK, Requests
<1>2. User = UserOf(call.owner, call.name)
  BY <1>1, HeaderIs DEF User
<1>3. maker[r.id] \in Makers /\ r.user = UserOf(maker[r.id].owner, maker[r.id].name)
  BY DEF IInv, TypeOK, RowsOK
<1>4. r.user = User <=> maker[r.id].owner = call.owner /\ maker[r.id].name = call.name
  BY <1>2, <1>3, UsersDiffer
<1>. QED BY <1>3, <1>4 DEF Makers

\* and its tenant those of all users of the key.
LEMMA TenantFinds ==
    ASSUME IInv, stage = "wire", NEW r \in rows
    PROVE  r.tenant = Tenant <=> maker[r.id].owner = call.owner
<1>1. call.key = call.owner
  BY DEF IInv, WireOK
<1>2. r.tenant = UserID(maker[r.id].owner)
  BY DEF IInv, RowsOK
<1>. QED BY <1>1, <1>2, TenantsDiffer DEF Tenant

LEMMA ListShows ==
    ASSUME IInv, stage = "wire", call.op # "list_tenant", NEW kind
    PROVE  IDs(List(kind, User)) = MadeBy(call.owner, call.name) \cap IDs(OfKind(kind))
<1>1. User # NoUser
  BY NeverNoUser, HeaderIs DEF User, IInv, WireOK, Requests
<1>2. \A r, q \in rows : r.id = q.id => r = q
  BY DEF IInv, TypeOK
<1>. QED BY <1>1, <1>2, UserFinds DEF IDs, List, OfKind, MadeBy

LEMMA GetShows ==
    ASSUME IInv, stage = "wire", call.op # "list_tenant", NEW kind, NEW id
    PROVE  /\ IDs(Get(kind, id, User)) = MadeBy(call.owner, call.name) \cap IDs(OfKind(kind)) \cap {id}
           /\ Get(kind, id, User) = {} <=> IDs(Get(kind, id, User)) = {}
<1>1. IDs(Get(kind, id, User)) = IDs(List(kind, User)) \cap {id}
  BY DEF IDs, Get
<1>2. Get(kind, id, User) = {} <=> IDs(Get(kind, id, User)) = {}
  BY DEF IDs
<1>. QED BY <1>1, <1>2, ListShows

LEMMA TenantListShows ==
    ASSUME IInv, stage = "wire", NEW kind
    PROVE  IDs(ListByTenant(kind, Tenant)) = MadeUnder(call.owner) \cap IDs(OfKind(kind))
<1>2. \A r, q \in rows : r.id = q.id => r = q
  BY DEF IInv, TypeOK
<1>. QED BY <1>2, TenantFinds DEF IDs, ListByTenant, OfKind, MadeUnder

\* Answers show IDs that were drawn.
LEMMA ShownAreDrawn ==
    ASSUME IInv, NEW S \in SUBSET rows
    PROVE  IDs(S) \subseteq RowIDs
BY DEF IInv, TypeOK, IDs

-----------------------------------------------------------------------------
LEMMA Initially == Init => IInv
<1>. SUFFICES ASSUME Init PROVE IInv
  OBVIOUS
<1>1. (CHOOSE k \in Keys : TRUE) \in Keys
  BY TenancyAssumption
<1>2. proxyKey \in Keys /\ proxy \in {"standalone", "embedded"}
  BY <1>1 DEF Init
<1>3. TypeOK
  BY <1>2, TenancyAssumption DEF Init, TypeOK, NoAnswer
<1>. QED BY <1>2, <1>3 DEF Init, IInv, ToolOK, WireOK, RowsOK, Exact, NoAnswer

\* Requests and tool calls as their senders make them.
LEMMA RequestIs ==
    ASSUME NEW q \in Calls, NEW prefix \in {"bearer", "bare"}, NEW k \in Keys, NEW a \in Args,
           NEW owner \in Keys, NEW b \in Args
    PROVE  LET r == Request(q, prefix, k, a, owner, b.name)
           IN  r \in Requests /\ r.key = k /\ r.header = a /\ r.owner = owner /\ r.name = b.name
<1>1. q.op \in Ops /\ q.kind \in Kinds /\ q.id \in RowIDs \cup {"none"}
  BY DEF Calls, Ops, Kinds
<1>2. b.name \in Names \cup {NoName}
  BY DEF Args
<1>. QED BY <1>1, <1>2 DEF Request, Requests

LEMMA AbsentIs == Absent \in Args /\ \A a \in Args : TrimSpace(a) \in Args /\ TrimSpace(a).name = a.name
BY DEF Absent, Args, TrimSpace

LEMMA AskStep == IInv /\ Ask => IInv'
<1>. SUFFICES ASSUME IInv, Ask PROVE IInv'
  OBVIOUS
<1>1. ASSUME NEW s \in {"tool", "wire"}, NEW r, Send(s, r), r \in Requests, r.header.name = r.name,
             s = "wire" => r.key = r.owner,
             s = "tool" => r.owner = IF proxy = "standalone" THEN proxyKey ELSE r.key
      PROVE  IInv'
  BY <1>1 DEF Send, IInv, TypeOK, ToolOK, WireOK, RowsOK, Exact, NoAnswer
<1>2. ASSUME NEW k \in Keys, NEW a \in Args, NEW q \in Calls, NEW prefix \in {"bearer", "bare"},
             AskREST(q, prefix, k, a)
      PROVE  IInv'
  <2>. DEFINE r == Request(q, prefix, k, a, k, a.name)
  <2>1. r \in Requests /\ r.key = k /\ r.header = a /\ r.owner = k /\ r.name = a.name
    BY RequestIs
  <2>2. Send("wire", r)
    BY <1>2 DEF AskREST
  <2>. HIDE DEF r
  <2>. QED BY <2>1, <2>2, <1>1
<1>3. ASSUME NEW k \in Keys, NEW a \in Args, NEW q \in Calls, AskSDK(q, k, a)
      PROVE  IInv'
  <2>. DEFINE r == Request(q, "bearer", k, ForUser(a), k, a.name)
  <2>0. ForUser(a) \in Args /\ ForUser(a).name = a.name
    BY AbsentIs DEF ForUser
  <2>1. r \in Requests /\ r.key = k /\ r.header = ForUser(a) /\ r.owner = k /\ r.name = a.name
    BY <2>0, RequestIs
  <2>2. Send("wire", r)
    BY <1>3 DEF AskSDK
  <2>. HIDE DEF r
  <2>. QED BY <2>0, <2>1, <2>2, <1>1
<1>4. ASSUME NEW k \in Keys, NEW a \in Args, NEW q \in Calls, NEW prefix \in {"bearer", "bare"},
             AskTool(q, prefix, k, a)
      PROVE  IInv'
  <2>. DEFINE o == IF proxy = "standalone" THEN proxyKey ELSE k
              r == Request(q, prefix, k, a, o, a.name)
  <2>0. o \in Keys
    BY DEF IInv, TypeOK
  <2>. HIDE DEF o
  <2>1. r \in Requests /\ r.key = k /\ r.header = a /\ r.owner = o /\ r.name = a.name
    BY <2>0, RequestIs
  <2>2. Send("tool", r)
    BY <1>4 DEF AskTool, o
  <2>. HIDE DEF r
  <2>. QED BY <2>1, <2>2, <1>1 DEF o
<1>5. Tools \subseteq Calls /\ EnvironmentResources \subseteq Calls /\ Dispatch \subseteq Calls
      /\ EnvironmentMethods \cup SnapshotMethods \cup SkillMethods \cup UseMethods \subseteq Calls
  BY DEF Tools, EnvironmentTools, SnapshotTools, UseTools, TenantTools, EnvironmentResources, Dispatch,
         DispatchEnvironment, DispatchUse, DispatchSnapshot, EnvironmentMethods, SnapshotMethods,
         SkillMethods, UseMethods
<1>. QED BY <1>2, <1>3, <1>4, <1>5, AbsentIs DEF Ask

\* The MCP server sends the key of the tenant it acts for.
LEMMA ClientIs ==
    ASSUME IInv, stage = "tool", Authenticated
    PROVE  /\ ClientFromContext(call.key).apiKey = call.owner
           /\ ClientFromContext(call.key).userID = Absent
           /\ ScopedClient(call).apiKey = call.owner
           /\ ScopedClient(call).userID = call.header
<1>1. call.key \in RESTKeys \/ RESTKeys = {proxyKey}
  BY DEF Authenticated, RESTKeys, IInv
<1>2. (CHOOSE first \in {proxyKey} : TRUE) = proxyKey
  OBVIOUS
<1>3. ClientFromContext(call.key).apiKey = call.owner
  BY <1>1, <1>2 DEF ClientFromContext, RESTKeys, IInv, ToolOK, Authenticated
<1>. QED BY <1>3 DEF ScopedClient, ClientFromContext

LEMMA CallToolStep == IInv /\ CallTool => IInv'
<1>. SUFFICES ASSUME IInv, CallTool PROVE IInv'
  OBVIOUS
<1>0. stage = "tool" /\ call \in Requests /\ call.header.name = call.name
      /\ UNCHANGED <<keys, proxy, proxyKey, rows, restarts, maker, due>>
  BY DEF CallTool, IInv, ToolOK
<1>1. ASSUME NEW client, client.apiKey = call.owner, client.userID \in Args, Do(client),
             call.op = "list_tenant" \/ client.userID = call.header
      PROVE  IInv'
  <2>1. /\ call' \in Requests /\ call'.key = call.owner /\ call'.header = client.userID
        /\ call'.owner = call.owner /\ call'.name = call.name /\ call'.op = call.op
    BY <1>0, <1>1 DEF Do, Requests
  <2>2. WireOK'
    BY <1>0, <1>1, <2>1 DEF WireOK
  <2>. QED BY <1>0, <1>1, <2>2 DEF Do, IInv, TypeOK, ToolOK, RowsOK, Exact
<1>2. CASE ~Authenticated /\ Answer("unauthorized", {})
  BY <1>0, <1>2 DEF Answer, IInv, TypeOK, ToolOK, WireOK, RowsOK, Exact
<1>3. CASE Authenticated /\ TenantTool
  <2>1. call.op = "list_tenant" /\ Do(ClientFromContext(call.key))
    BY <1>3 DEF TenantTool, ClientTenant, Called, TenantTools
  <2>. QED BY <1>0, <1>1, <1>3, <2>1, ClientIs, AbsentIs
<1>4. CASE Authenticated /\ (EnvironmentTool \/ SnapshotTool \/ UseTool)
  <2>1. Do(ScopedClient(call))
    BY <1>4 DEF EnvironmentTool, SnapshotTool, UseTool, ClientEnvironment, ClientSnapshot, ClientUse
  <2>2. call.header \in Args
    BY <1>0 DEF Requests
  <2>. QED BY <1>0, <1>1, <1>4, <2>1, <2>2, ClientIs
<1>. QED BY <1>2, <1>3, <1>4 DEF CallTool

\* A new row, to somebody who should get it.
LEMMA InsertStep ==
    ASSUME IInv, stage = "wire", call.op # "list_tenant", NEW kind \in Kinds, Insert(kind, TRUE),
           UNCHANGED <<keys, proxy, proxyKey, restarts>>
    PROVE  IInv'
<1>1. PICK id \in RowIDs \ DOMAIN maker :
          /\ rows' = rows \cup {NewRow(kind, id)}
          /\ maker' = [x \in DOMAIN maker \cup {id} |->
                          IF x = id THEN [owner |-> call.owner, name |-> call.name] ELSE maker[x]]
          /\ Answer("ok", {id})
          /\ due' = {id}
  BY DEF Insert
<1>2. call \in Requests /\ call.key = call.owner /\ call.header.name = call.name
  BY DEF IInv, WireOK
<1>. DEFINE m == [owner |-> call.owner, name |-> call.name]
<1>3. m \in Makers /\ m.owner = call.owner /\ m.name = call.name
  BY <1>2 DEF Requests, Makers
<1>. HIDE DEF m
<1>4. /\ DOMAIN maker' = DOMAIN maker \cup {id} /\ maker'[id] = m
      /\ \A x \in DOMAIN maker : maker'[x] = maker[x]
  BY <1>1 DEF m
<1>5. User = UserOf(call.owner, call.name) /\ Tenant = UserID(call.owner)
  BY <1>2, HeaderIs DEF User, Tenant, Requests
<1>6. /\ NewRow(kind, id).id = id /\ NewRow(kind, id).kind = kind
      /\ NewRow(kind, id).user = UserOf(call.owner, call.name)
      /\ NewRow(kind, id).tenant = UserID(call.owner)
  BY <1>5 DEF NewRow
<1>. DEFINE n == NewRow(kind, id)
<1>7. n.id = id /\ n.kind = kind /\ n.user = UserOf(call.owner, call.name) /\ n.tenant = UserID(call.owner)
      /\ rows' = rows \cup {n}
  BY <1>1, <1>6
<1>. HIDE DEF n
<1>8. TypeOK'
  <2>1. \A r \in rows' : r.id \in DOMAIN maker' /\ r.kind \in Kinds /\ NoUser \notin {r.user, r.tenant}
    BY <1>4, <1>7, NeverNoUser DEF IInv, TypeOK
  <2>2. \A r, q \in rows' : r.id = q.id => r = q
    BY <1>1, <1>7 DEF IInv, TypeOK
  <2>3. \A x \in DOMAIN maker' : x \in RowIDs /\ maker'[x] \in Makers
    BY <1>1, <1>3, <1>4 DEF IInv, TypeOK
  <2>. QED BY <1>1, <2>1, <2>2, <2>3 DEF IInv, TypeOK, Answer
<1>9. RowsOK'
  BY <1>3, <1>4, <1>7, <1>1 DEF IInv, TypeOK, RowsOK
<1>. QED BY <1>1, <1>8, <1>9 DEF IInv, ToolOK, WireOK, Exact, Answer

\* A copy is made of what is the caller's own.
LEMMA FromStep ==
    ASSUME IInv, stage = "wire", call.op # "list_tenant", NEW kind \in Kinds, NEW source, From(kind, source),
           UNCHANGED <<keys, proxy, proxyKey, restarts>>
    PROVE  IInv'
<1>. DEFINE own == MadeBy(call.owner, call.name) \cap IDs(OfKind(source)) \cap {call.id}
<1>1. Get(source, call.id, User) = {} <=> own = {}
  BY GetShows
<1>. HIDE DEF own
<1>2. CASE Get(source, call.id, User) # {} /\ Insert(kind, own # {})
  <2>1. Insert(kind, TRUE)
    BY <1>1, <1>2 DEF Insert
  <2>. QED BY <2>1, InsertStep
<1>3. CASE own = {} /\ Answer("not_found", {}) /\ due' = own /\ UNCHANGED <<rows, maker>>
  BY <1>3 DEF IInv, TypeOK, ToolOK, WireOK, RowsOK, Exact, Answer
<1>. QED BY <1>1, <1>2, <1>3 DEF From, own

\* An answer of rows as they are, or of rows that go with it.
LEMMA AnswerStep ==
    ASSUME IInv, NEW S \in SUBSET RowIDs, NEW status, Answer(status, S), due' = S, rows' \subseteq rows,
           UNCHANGED <<keys, proxy, proxyKey, restarts, maker>>
    PROVE  IInv'
BY DEF IInv, TypeOK, ToolOK, WireOK, RowsOK, Exact, Answer

LEMMA ServeStep == IInv /\ Serve => IInv'
<1>. SUFFICES ASSUME IInv, Serve PROVE IInv'
  OBVIOUS
<1>1. CASE Unauthorized
  BY <1>1 DEF Unauthorized, IInv, TypeOK, ToolOK, WireOK, RowsOK, Exact, Answer
<1>2. CASE ServeCreate
  BY <1>2, InsertStep DEF ServeCreate, Arrived, Kinds
<1>3. CASE ServeSnapshot
  BY <1>3, FromStep DEF ServeSnapshot, Arrived, Kinds
<1>4. CASE ServeRestore
  BY <1>4, FromStep DEF ServeRestore, Arrived, Kinds
<1>5. CASE ServeList
  <2>1. List(call.kind, User) \in SUBSET rows
    BY DEF List, OfKind
  <2>. QED BY <1>5, <2>1, ListShows, ShownAreDrawn, AnswerStep DEF ServeList, Arrived
<1>6. CASE ServeListTenant
  <2>1. ListByTenant(call.kind, Tenant) \in SUBSET rows
    BY DEF ListByTenant, OfKind
  <2>. QED BY <1>6, <2>1, TenantListShows, ShownAreDrawn, AnswerStep DEF ServeListTenant, Arrived
<1>7. \A kind : Get(kind, call.id, User) \in SUBSET rows
  BY DEF Get, List, OfKind
<1>8. CASE ServeGet
  BY <1>7, <1>8, GetShows, ShownAreDrawn, AnswerStep DEF ServeGet, Arrived
<1>9. CASE ServeUse
  BY <1>7, <1>9, GetShows, ShownAreDrawn, AnswerStep DEF ServeUse, Arrived
<1>10. CASE ServeDelete
  BY <1>7, <1>10, GetShows, ShownAreDrawn, AnswerStep DEF ServeDelete, Arrived
<1>. QED BY <1>1, <1>2, <1>3, <1>4, <1>5, <1>6, <1>8, <1>9, <1>10 DEF Serve

LEMMA Preserved == IInv /\ [Next]_vars => IInv'
<1>. SUFFICES ASSUME IInv, [Next]_vars PROVE IInv'
  OBVIOUS
<1>1. ASSUME NEW id \in RowIDs, Reap(id) PROVE IInv'
  BY <1>1 DEF Reap, requestVars, IInv, TypeOK, ToolOK, WireOK, RowsOK, Exact
<1>2. ASSUME NEW K \in (SUBSET Keys) \ {{}}, Restart(K) PROVE IInv'
  BY <1>2, TenancyAssumption DEF Restart, requestVars, IInv, TypeOK, ToolOK, WireOK, RowsOK, Exact, NoAnswer
<1>3. CASE UNCHANGED vars
  BY <1>3 DEF vars, requestVars, IInv, TypeOK, ToolOK, WireOK, RowsOK, Exact
<1>. QED BY <1>1, <1>2, <1>3, AskStep, CallToolStep, ServeStep DEF Next

-----------------------------------------------------------------------------
(* The theorems.                                                           *)

\* Every request, whichever way it comes, and every restart keep calls and rows
\* tied to whom they stand for.
THEOREM Invariance == Spec => []IInv
BY Initially, Preserved, PTL DEF Spec

\* What is due was made under the key of the request.
LEMMA DueIsOwned ==
    ASSUME IInv, Next, stage # "done", stage' = "done", answer'.status \in {"ok", "not_found"}
    PROVE  \A id \in due' : maker'[id].owner = call.owner
<1>1. ASSUME NEW kind, NEW entitled, Insert(kind, entitled)
      PROVE  \A id \in due' : maker'[id].owner = call.owner
  BY <1>1 DEF Insert
<1>2. ASSUME NEW kind, NEW source, From(kind, source)
      PROVE  \A id \in due' : maker'[id].owner = call.owner
  <2>1. CASE \E e : Insert(kind, e)
    BY <1>1, <2>1
  <2>2. CASE due' \subseteq MadeBy(call.owner, call.name) /\ UNCHANGED <<rows, maker>>
    BY <2>2 DEF MadeBy
  <2>. QED BY <1>2, <2>1, <2>2 DEF From
<1>3. CASE ServeCreate \/ ServeSnapshot \/ ServeRestore
  BY <1>1, <1>2, <1>3 DEF ServeCreate, ServeSnapshot, ServeRestore
<1>4. CASE ServeListTenant
  BY <1>4 DEF ServeListTenant, MadeUnder
<1>5. CASE ServeList \/ ServeGet \/ ServeUse \/ ServeDelete
  BY <1>5 DEF ServeList, ServeGet, ServeUse, ServeDelete, MadeBy
<1>6. ~Ask /\ ~CallTool /\ ~Unauthorized
  BY DEF Ask, AskREST, AskSDK, AskTool, Send, CallTool, EnvironmentTool, SnapshotTool, UseTool, TenantTool,
         ClientEnvironment, ClientSnapshot, ClientUse, ClientTenant, Do, Unauthorized, Answer
<1>7. ASSUME NEW id \in RowIDs PROVE ~Reap(id)
  BY DEF Reap, requestVars
<1>8. ASSUME NEW K \in (SUBSET Keys) \ {{}} PROVE ~Restart(K)
  BY DEF Restart, requestVars
<1>. QED BY <1>3, <1>4, <1>5, <1>6, <1>7, <1>8 DEF Next, Serve

\* Nobody is shown what another key's users made, no end user what another
\* one made, and nobody misses what is theirs.
THEOREM AnswersAlwaysMatch == Spec => AnswersMatchMakers
<1>. DEFINE A == stage # "done" /\ stage' = "done" /\ answer'.status \in {"ok", "not_found"} =>
          IF call.name # NoName \/ call.op = "list_tenant"
          THEN answer'.ids = due'
          ELSE due' \subseteq answer'.ids /\ \A id \in answer'.ids : maker'[id].owner = call.owner
<1>1. IInv /\ IInv' /\ [Next]_vars => [A]_vars
  BY DueIsOwned DEF IInv, Exact
<1>. QED BY <1>1, Invariance, PTL DEF Spec, AnswersMatchMakers

\* Users and tenants of rows are their makers', however they came in.
THEOREM RowsAlwaysKeepMakers == Spec => []RowsKeepMakers
<1>1. IInv => RowsKeepMakers
  <2>. SUFFICES ASSUME IInv PROVE RowsKeepMakers
    OBVIOUS
  <2>1. ASSUME NEW r \in rows, NEW q \in rows
        PROVE  /\ r.user = q.user <=> maker[r.id] = maker[q.id]
               /\ r.tenant = q.tenant <=> maker[r.id].owner = maker[q.id].owner
    <3>1. maker[r.id] \in Makers /\ maker[q.id] \in Makers
      BY DEF IInv, TypeOK
    <3>2. r.user = q.user <=> maker[r.id].owner = maker[q.id].owner /\ maker[r.id].name = maker[q.id].name
      BY UsersDiffer DEF IInv, RowsOK
    <3>3. r.tenant = q.tenant <=> maker[r.id].owner = maker[q.id].owner
      BY TenantsDiffer DEF IInv, RowsOK
    <3>. QED BY <3>1, <3>2, <3>3 DEF Makers
  <2>. QED BY <2>1 DEF RowsKeepMakers, IInv
<1>. QED BY <1>1, Invariance, PTL

\* Only a deletion by the maker, or the reaper, takes a row away.
THEOREM OnlyMakersEverRemove == Spec => OnlyMakersRemove
<1>. DEFINE A == \A r \in rows \ rows' :
          \/ call # NoCall /\ call.op = "delete" /\ maker[r.id] = [owner |-> call.owner, name |-> call.name]
          \/ r.kind = "environment" /\ UNCHANGED requestVars
<1>1. IInv /\ [Next]_vars => [A]_vars
  <2>. SUFFICES ASSUME IInv, Next, NEW r \in rows, r \notin rows'
                PROVE  \/ /\ call # NoCall /\ call.op = "delete"
                          /\ maker[r.id] = [owner |-> call.owner, name |-> call.name]
                       \/ r.kind = "environment" /\ UNCHANGED requestVars
    OBVIOUS
  <2>1. CASE ServeDelete
    <3>1. stage = "wire" /\ call.op = "delete" /\ r \in Get(call.kind, call.id, User)
      BY <2>1 DEF ServeDelete, Arrived
    <3>2. call # NoCall
      BY <3>1 DEF NoCall
    <3>3. User # NoUser
      BY <3>1, NeverNoUser, HeaderIs DEF User, IInv, WireOK, Requests
    <3>4. r.user = User
      BY <3>1, <3>3 DEF Get, List
    <3>. QED BY <3>1, <3>2, <3>4, UserFinds
  <2>2. ASSUME NEW id \in RowIDs, Reap(id) PROVE r.kind = "environment" /\ UNCHANGED requestVars
    BY <2>2 DEF Reap, Get, List, OfKind
  <2>3. ~Ask /\ ~CallTool /\ ~(Serve /\ ~ServeDelete) /\ \A K \in (SUBSET Keys) \ {{}} : ~Restart(K)
    BY DEF Ask, AskREST, AskSDK, AskTool, Send, CallTool, Restart, Serve, Unauthorized, ServeCreate, ServeSnapshot,
           ServeRestore, From, Insert, ServeList, ServeListTenant, ServeGet, ServeUse
  <2>. QED BY <2>1, <2>2, <2>3 DEF Next
<1>. QED BY <1>1, Invariance, PTL DEF Spec, OnlyMakersRemove
=============================================================================
