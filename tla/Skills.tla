------------------------------- MODULE Skills --------------------------------
(***************************************************************************)
(* SkillService and the injection of skills by CreateEnvironment.  Users   *)
(* register, replace and delete skills in a library while an environment   *)
(* is being created that gets a copy of each of them; once it is running   *)
(* its owner pushes skills straight into it and lists what is installed.   *)
(* Every call into the store or the engine is a step.                      *)
(*                                                                         *)
(* One environment is followed, from a started container without skills to *)
(* its end.  What validateSkillName and decompressAndValidate look at is   *)
(* abstracted to which names and which archives they accept.               *)
(***************************************************************************)
EXTENDS Calls

CONSTANTS
    SkillIDs,      \* the IDs RegisterSkill draws
    Names,         \* skill names, each also a directory under SkillsDir
    Archives,      \* uploaded archives
    ValidNames,    \* the names that skillNamePattern matches
    ValidArchives, \* the archives within the limits, well formed, safe, with SKILL.md
    Users,         \* effective users
    NoRow          \* the row of a handler that holds none

ASSUME SkillsAssumption ==
    /\ NoRow \notin [id : SkillIDs \cup {"no_id"}, user : Users, name : Names,
                     archive : Archives]
    /\ "no_id" \notin SkillIDs
    /\ "no_user" \notin Users
    /\ ValidNames \subseteq Names /\ ValidArchives \subseteq Archives

VARIABLES
    skills,        \* the table of skills: a set of rows
    drawn,         \* IDs drawn so far
    phase,         \* the environment: "none", "creating", "running" or "gone"
    owner,         \* its user
    dirs,          \* the directories under SkillsDir in its container
    tree,          \* the archives whose files are in a directory
    top,           \* who wrote a directory last: "library", "push" or "nobody"
    pc,            \* the call a handler makes next
    user,          \* the effective user of its request
    row,           \* the skill it stores, injects or pushes
    left,          \* what is left of a listing: IDs of skills, or directories
    got,           \* the installed skills listed so far
    want,          \* history: the skills installed when a listing began, but for
                   \*    those that a call of the listing failed for
    answered,      \* history: registrations answered with 201 and not deleted since
    given,         \* history: what the owner had in the library or pushed
    kept,          \* history: names in the library since the creation began,
                   \*    but for those that a call of the injection failed for
    pushed         \* history: pushes answered with 204

libraryVars == <<skills, drawn>>
boxVars == <<phase, owner, dirs, tree, top>>
workerVars == <<pc, user, row, left, got, want>>
historyVars == <<answered, given, kept, pushed>>
vars == <<libraryVars, boxVars, workerVars, ctx, faults, historyVars>>

NoUser == "no_user"
NoID == "no_id"        \* a pushed skill has no ID
Rows == [id : SkillIDs, user : Users, name : Names, archive : Archives]
Pushes == [id : {NoID}, user : Users, name : Names, archive : Archives]
WorkerPCs == {"idle", "upsert", "reflect", "list", "load", "extract", "push", "ls", "cat"}

Init ==
    /\ skills = {} /\ drawn = {}
    /\ phase = "none" /\ owner = NoUser
    /\ dirs = {}
    /\ tree = [n \in Names |-> {}]
    /\ top = [n \in Names |-> "nobody"]
    /\ pc = [w \in Workers |-> "idle"]
    /\ user = [w \in Workers |-> NoUser]
    /\ row = [w \in Workers |-> NoRow]
    /\ left = [w \in Workers |-> {}]
    /\ got = [w \in Workers |-> {}]
    /\ want = [w \in Workers |-> {}]
    /\ ctx = [w \in Workers |-> "live"] /\ faults = 0
    /\ answered = {} /\ given = {} /\ kept = {} /\ pushed = {}

-----------------------------------------------------------------------------
(* The bookkeeping of handlers.                                            *)

Begin(w, l, u, r) == /\ pc[w] = "idle"
                     /\ pc' = [pc EXCEPT ![w] = l]
                     /\ user' = [user EXCEPT ![w] = u]
                     /\ row' = [row EXCEPT ![w] = r]
                     /\ UNCHANGED <<left, got, ctx>>

\* The handler goes on to l under context c with r in hand.
Goto(w, l, c, r) == /\ pc' = [pc EXCEPT ![w] = l]
                    /\ ctx' = [ctx EXCEPT ![w] = c]
                    /\ row' = [row EXCEPT ![w] = r]
                    /\ UNCHANGED user

Return(w) == /\ pc' = [pc EXCEPT ![w] = "idle"]
             /\ user' = [user EXCEPT ![w] = NoUser]
             /\ row' = [row EXCEPT ![w] = NoRow]
             /\ left' = [left EXCEPT ![w] = {}]
             /\ got' = [got EXCEPT ![w] = {}]
             /\ want' = [want EXCEPT ![w] = {}]
             /\ ctx' = [ctx EXCEPT ![w] = "live"]

-----------------------------------------------------------------------------
(* The library: POST and DELETE /v1/skills.                                *)

\* Mutant: the user ID is not part of the query.
MutantOwned(u) == skills

\* SELECT ... FROM skills WHERE user_id = u.
Owned(u) == {r \in skills : r.user = u}

ByName(u, n) == {r \in skills : r.user = u /\ r.name = n}

ByID(u, id) == {r \in Owned(u) : r.id = id}

ValidateSkillName(n) == n \in ValidNames
DecompressAndValidate(a) == a \in ValidArchives

\* The name and the archive are accepted; an ID is drawn.
RegisterSkill(w, r) ==
    /\ ValidateSkillName(r.name) /\ DecompressAndValidate(r.archive)
    /\ r.id \notin drawn
    /\ drawn' = drawn \cup {r.id}
    /\ Begin(w, "upsert", r.user, r)
    /\ UNCHANGED <<skills, boxVars, want, faults, historyVars>>

\* INSERT ... ON CONFLICT (user_id, name) DO UPDATE: the row keeps its id.
Upserted(r) == LET old == ByName(r.user, r.name) IN
               IF old = {} THEN skills \cup {r}
               ELSE (skills \ old) \cup {[o EXCEPT !.archive = r.archive] : o \in old}

\* What the owner of the environment registers while it is being created may
\* or may not be injected.
Offered(r) == IF phase = "creating" /\ r.user = owner
              THEN given \cup {<<r.name, r.archive>>} ELSE given

\* Mutant: the answer carries the ID that was drawn for this request.
MutantUpsertSkill(w) ==
    /\ pc[w] = "upsert"
    /\ \E out \in Outcomes, c \in Contexts :
          /\ StoreCall(w, out, c)
          /\ skills' = IF out = "failed" THEN skills ELSE Upserted(row[w])
          /\ given' = IF out = "failed" THEN given ELSE Offered(row[w])
          /\ answered' = IF out # "ok" THEN answered
                         ELSE answered \cup {<<row[w].id, row[w].user, row[w].name>>}
          /\ Return(w)
    /\ UNCHANGED <<drawn, boxVars, kept, pushed>>

\* The first statement of SQLStore.UpsertSkill; MemoryStore finds the row that
\* it reports under the same lock.
UpsertSkill(w) ==
    LET r == row[w] IN
    /\ pc[w] = "upsert"
    /\ \E out \in Outcomes, c \in Contexts :
          /\ StoreCall(w, out, c)
          /\ skills' = IF out = "failed" THEN skills ELSE Upserted(r)
          /\ given' = IF out = "failed" THEN given ELSE Offered(r)
          /\ \/ /\ out = "ok" /\ Store = "sql"
                /\ Goto(w, "reflect", c, r)
                /\ UNCHANGED <<left, got, want, answered>>
             \/ /\ out = "ok" /\ Store = "memory"
                /\ answered' = answered \cup {<<o.id, o.user, o.name>> :
                                    o \in {x \in skills' : x.user = r.user /\ x.name = r.name}}
                /\ Return(w)
             \/ out # "ok" /\ Return(w) /\ UNCHANGED answered
    /\ UNCHANGED <<drawn, boxVars, kept, pushed>>

\* getSkillByName, the second one: the row may be gone, or be another's.
ReflectSkill(w) ==
    /\ pc[w] = "reflect"
    /\ \E out \in Outcomes, c \in Contexts :
          /\ Call(w, out, c)
          /\ answered' = IF out # "ok" THEN answered
                         ELSE answered \cup {<<o.id, o.user, o.name>> :
                                    o \in ByName(row[w].user, row[w].name)}
    /\ Return(w)
    /\ UNCHANGED <<libraryVars, boxVars, given, kept, pushed>>

\* What is promised of a creation without the skill id.
Without(id) == kept \ {r.name : r \in {x \in skills : x.id = id}}

\* One statement, whatever its client is told.
DeleteSkill(u, id) ==
    /\ ByID(u, id) # {}
    /\ skills' = skills \ ByID(u, id)
    /\ answered' = {a \in answered : a[1] # id}
    /\ kept' = IF phase = "creating" /\ u = owner THEN Without(id) ELSE kept
    /\ UNCHANGED <<drawn, boxVars, workerVars, ctx, faults, given, pushed>>

-----------------------------------------------------------------------------
(* The injection: CreateEnvironment after StartContainer.                  *)

CreateEnvironment(w, u) ==
    /\ phase = "none"
    /\ phase' = "creating" /\ owner' = u
    /\ given' = {<<r.name, r.archive>> : r \in {x \in skills : x.user = u}}
    /\ kept' = {r.name : r \in {x \in skills : x.user = u}}
    /\ Begin(w, "list", u, NoRow)
    /\ UNCHANGED <<libraryVars, dirs, tree, top, want, faults, answered, pushed>>

\* store.ListSkills; without the list nothing is injected.
ListSkills(w) ==
    /\ pc[w] = "list"
    /\ \E out \in Outcomes, c \in Contexts :
          /\ StoreCall(w, out, c)
          /\ left' = IF out = "ok" THEN [left EXCEPT ![w] = {r.id : r \in Owned(user[w])}]
                     ELSE left
          /\ kept' = IF out = "ok" THEN kept ELSE {}
          /\ Goto(w, "load", c, NoRow)
    /\ UNCHANGED <<libraryVars, boxVars, got, want, answered, given, pushed>>

\* Mutant: an archive that cannot be loaded ends the loop.
MutantGetSkillArchive(w, id) ==
    /\ pc[w] = "load" /\ id \in left[w]
    /\ \E out \in Outcomes, c \in Contexts :
          /\ StoreCall(w, out, c)
          /\ kept' = IF out = "ok" THEN kept ELSE Without(id)
          /\ \/ \E r \in ByID(user[w], id) :
                   /\ out = "ok" /\ Goto(w, "extract", c, r)
                   /\ left' = [left EXCEPT ![w] = @ \ {id}]
             \/ /\ out # "ok" \/ ByID(user[w], id) = {}
                /\ Goto(w, "load", c, NoRow)
                /\ left' = [left EXCEPT ![w] = {}]
    /\ UNCHANGED <<libraryVars, boxVars, got, want, answered, given, pushed>>

\* store.GetSkillArchive of the next listed skill, in any order; a skill that
\* is gone or cannot be loaded is skipped.
GetSkillArchive(w, id) ==
    /\ pc[w] = "load" /\ id \in left[w]
    /\ left' = [left EXCEPT ![w] = @ \ {id}]
    /\ \E out \in Outcomes, c \in Contexts :
          /\ StoreCall(w, out, c)
          /\ kept' = IF out = "ok" THEN kept ELSE Without(id)
          /\ \/ \E r \in ByID(user[w], id) : out = "ok" /\ Goto(w, "extract", c, r)
             \/ /\ out # "ok" \/ ByID(user[w], id) = {}
                /\ Goto(w, "load", c, NoRow)
    /\ UNCHANGED <<libraryVars, boxVars, got, want, answered, given, pushed>>

\* engine.ExtractArchive: mkdir -p, then the files on top of what is there.
\* One that fails may leave an empty directory, or nothing.
Extracted(w, r, out, who) ==
    \/ /\ out # "failed" /\ phase # "gone"
       /\ dirs' = dirs \cup {r.name}
       /\ tree' = [tree EXCEPT ![r.name] = @ \cup {r.archive}]
       /\ top' = [top EXCEPT ![r.name] = who]
    \/ /\ out # "ok" /\ phase # "gone" /\ ctx[w] = "live"
       /\ dirs' = dirs \cup {r.name}
       /\ UNCHANGED <<tree, top>>
    \/ /\ out # "ok" \/ phase = "gone"
       /\ UNCHANGED <<dirs, tree, top>>

InjectSkill(w) ==
    /\ pc[w] = "extract"
    /\ \E out \in Outcomes, c \in Contexts :
          /\ Call(w, out, c)
          /\ Extracted(w, row[w], out, "library")
          /\ kept' = IF out = "ok" THEN kept ELSE kept \ {row[w].name}
          /\ Goto(w, "load", c, NoRow)
    /\ UNCHANGED <<libraryVars, phase, owner, left, got, want, answered, given, pushed>>

\* The loop is over: store.Update with status running, and the answer.
MarkRunning(w) ==
    /\ pc[w] = "load" /\ left[w] = {}
    /\ \E out \in Outcomes, c \in Contexts :
          /\ StoreCall(w, out, c)
          /\ phase' = IF phase = "creating" /\ out # "failed" THEN "running" ELSE phase
    /\ Return(w)
    /\ UNCHANGED <<libraryVars, owner, dirs, tree, top, historyVars>>

\* A destroy or the reaper, at any time.
DestroyEnvironment ==
    /\ phase \in {"creating", "running"}
    /\ phase' = "gone"
    /\ dirs' = {} /\ tree' = [n \in Names |-> {}] /\ top' = [n \in Names |-> "nobody"]
    /\ given' = {} /\ kept' = {} /\ pushed' = {} /\ want' = [w \in Workers |-> {}]
    /\ UNCHANGED <<libraryVars, owner, pc, user, row, left, got, ctx, faults, answered>>

-----------------------------------------------------------------------------
(* /v1/environments/{id}/skills.                                           *)

\* Mutant: the status of the environment is not looked at.
MutantGetRunningEnv(u) == phase \in {"creating", "running"} /\ owner = u

GetRunningEnv(u) == phase = "running" /\ owner = u

\* The name, the environment and the archive are accepted.
InstallSkill(w, r) ==
    /\ ValidateSkillName(r.name)
    /\ GetRunningEnv(r.user)
    /\ DecompressAndValidate(r.archive)
    /\ Begin(w, "push", r.user, r)
    /\ given' = IF r.user = owner THEN given \cup {<<r.name, r.archive>>} ELSE given
    /\ UNCHANGED <<libraryVars, boxVars, want, faults, answered, kept, pushed>>

PushSkill(w) ==
    /\ pc[w] = "push"
    /\ \E out \in Outcomes, c \in Contexts :
          /\ Call(w, out, c)
          /\ Extracted(w, row[w], out, "push")
          /\ pushed' = IF out = "ok" /\ phase # "gone"
                       THEN pushed \cup {row[w].name} ELSE pushed
    /\ Return(w)
    /\ UNCHANGED <<libraryVars, phase, owner, answered, given, kept>>

ListInstalledSkills(w, u) ==
    /\ GetRunningEnv(u)
    /\ Begin(w, "ls", u, NoRow)
    /\ want' = [want EXCEPT ![w] = {n \in Names : tree[n] # {}}]
    /\ UNCHANGED <<libraryVars, boxVars, faults, historyVars>>

\* engine.ListFiles; any error is taken for a missing directory.
ListFiles(w) ==
    /\ pc[w] = "ls"
    /\ \E out \in Outcomes, c \in Contexts :
          /\ Call(w, out, c)
          /\ left' = IF out = "ok" THEN [left EXCEPT ![w] = dirs] ELSE left
          /\ want' = IF out = "ok" THEN want ELSE [want EXCEPT ![w] = {}]
          /\ Goto(w, "cat", c, NoRow)
    /\ UNCHANGED <<libraryVars, boxVars, got, historyVars>>

\* Mutant: a directory without a manifest ends the listing.
MutantReadManifest(w, n) ==
    /\ pc[w] = "cat" /\ n \in left[w]
    /\ \E out \in Outcomes, c \in Contexts :
          /\ Call(w, out, c)
          /\ LET found == out = "ok" /\ tree[n] # {} IN
             /\ got' = IF found THEN [got EXCEPT ![w] = @ \cup {n}] ELSE got
             /\ left' = [left EXCEPT ![w] = IF found THEN @ \ {n} ELSE {}]
          /\ want' = IF out = "ok" THEN want ELSE [want EXCEPT ![w] = @ \ {n}]
          /\ Goto(w, "cat", c, NoRow)
    /\ UNCHANGED <<libraryVars, boxVars, historyVars>>

\* engine.ReadFile of the SKILL.md of the next directory; any error skips it.
ReadManifest(w, n) ==
    /\ pc[w] = "cat" /\ n \in left[w]
    /\ left' = [left EXCEPT ![w] = @ \ {n}]
    /\ \E out \in Outcomes, c \in Contexts :
          /\ Call(w, out, c)
          /\ got' = IF out = "ok" /\ tree[n] # {} THEN [got EXCEPT ![w] = @ \cup {n}] ELSE got
          /\ want' = IF out = "ok" THEN want ELSE [want EXCEPT ![w] = @ \ {n}]
          /\ Goto(w, "cat", c, NoRow)
    /\ UNCHANGED <<libraryVars, boxVars, historyVars>>

\* 200 with what was found.
Listed(w) == pc[w] = "cat" /\ left[w] = {}
AnswerListing(w) ==
    /\ Listed(w)
    /\ Return(w)
    /\ UNCHANGED <<libraryVars, boxVars, faults, historyVars>>

-----------------------------------------------------------------------------
CancelContext(w) ==
    /\ pc[w] # "idle" /\ ctx[w] = "live"
    /\ ctx' = [ctx EXCEPT ![w] = "done"]
    /\ UNCHANGED <<libraryVars, boxVars, workerVars, faults, historyVars>>

Handler(w) ==
    \/ UpsertSkill(w) \/ ReflectSkill(w) \/ ListSkills(w) \/ InjectSkill(w)
    \/ MarkRunning(w) \/ PushSkill(w) \/ ListFiles(w) \/ AnswerListing(w)
    \/ CancelContext(w)
    \/ \E id \in SkillIDs : GetSkillArchive(w, id)
    \/ \E n \in Names : ReadManifest(w, n)

Next ==
    \/ \E w \in Workers : Handler(w)
    \/ \E w \in Workers, r \in Rows : RegisterSkill(w, r)
    \/ \E w \in Workers, r \in Pushes : InstallSkill(w, r)
    \/ \E w \in Workers, u \in Users : CreateEnvironment(w, u) \/ ListInstalledSkills(w, u)
    \/ \E u \in Users, id \in SkillIDs : DeleteSkill(u, id)
    \/ DestroyEnvironment

Spec == Init /\ [][Next]_vars

-----------------------------------------------------------------------------
(* Properties.                                                             *)

TypeOK ==
    /\ skills \subseteq Rows /\ drawn \subseteq SkillIDs
    /\ phase \in {"none", "creating", "running", "gone"}
    /\ owner \in Users \cup {NoUser}
    /\ dirs \subseteq Names
    /\ tree \in [Names -> SUBSET Archives]
    /\ top \in [Names -> {"library", "push", "nobody"}]
    /\ pc \in [Workers -> WorkerPCs]
    /\ user \in [Workers -> Users \cup {NoUser}]
    /\ row \in [Workers -> Rows \cup Pushes \cup {NoRow}]
    /\ left \in [Workers -> SUBSET (SkillIDs \cup Names)]
    /\ got \in [Workers -> SUBSET Names] /\ want \in [Workers -> SUBSET Names]
    /\ ctx \in [Workers -> Contexts] /\ faults \in 0 .. MaxFaults
    /\ answered \subseteq SkillIDs \X Users \X Names
    /\ given \subseteq Names \X Archives
    /\ kept \subseteq Names /\ pushed \subseteq Names

\* "Registering again with the same name replaces the existing skill (the ID
\* is preserved)": an ID that was answered stands for the user's only skill of
\* that name until that ID itself is deleted, whatever other registrations and
\* deletions come between the two statements of UpsertSkill.
AnsweredIdsResolve ==
    \A a \in answered : {r.id : r \in ByName(a[2], a[3])} = {a[1]}

\* In a well-typed state, which includes that only registration fills the
\* library, the files in an environment's skills directory are its owner's: of a valid
\* archive that was in the owner's library under that name since the creation
\* began, or that the owner pushed.  Nothing deleted before comes back, no
\* other user's skill gets in, and the injection, which does not validate,
\* never meets an archive that was not validated.
InstalledIsOwners ==
    /\ TypeOK
    /\ \A n \in Names : \A a \in tree[n] :
        n \in ValidNames /\ a \in ValidArchives /\ <<n, a>> \in given

\* "Every environment Alice creates afterward will have the skill installed",
\* and "a failure on one skill is logged and the remaining skills proceed": what
\* is in the library throughout a creation is installed unless one of its own
\* calls, or the listing, failed; the failure, replacement or deletion of other
\* skills in the middle of the loop does not matter.
StableSkillsInjected ==
    phase = "running" => \A n \in kept : tree[n] # {}

\* The injection never writes over a skill that was pushed and acknowledged:
\* pushes need status running, which is stored after the injection.
PushIsOnTop ==
    phase = "running" => \A n \in pushed : top[n] = "push"

\* A listing shows every skill that was installed when it began, except those
\* whose own calls failed, although it goes through directories that others are
\* still filling or have failed to fill.
ListingComplete ==
    \A w \in Workers : Listed(w) => want[w] \subseteq got[w]
=============================================================================
