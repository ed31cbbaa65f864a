----------------------------- MODULE Snapshots ------------------------------
(***************************************************************************)
(* SnapshotService: a snapshot is a Docker image and a record in the store *)
(* that must be made and unmade together although no transaction spans     *)
(* them.  Handlers of CreateSnapshot, DeleteSnapshot and of a              *)
(* CreateEnvironment that restores a snapshot interleave between their     *)
(* calls into the store and the engine; clients drop requests, calls fail  *)
(* and the server restarts.                                                *)
(*                                                                         *)
(* The environment a snapshot is taken of appears as whether a user still  *)
(* has a running one; EnvLifecycle models the rest of its life.            *)
(***************************************************************************)
EXTENDS Calls

CONSTANTS
    Snaps,         \* snapshot IDs
    NoSnap,        \* the target of an idle handler
    Users,         \* effective users
    MaxCrashes     \* bound: restarts of the server

ASSUME SnapshotsAssumption ==
    /\ NoSnap \notin Snaps
    /\ "no_user" \notin Users
    /\ MaxCrashes \in Nat

VARIABLES
    owner,         \* the UserID of a snapshot, NoUser while the ID is not drawn
    row,           \* its record: "none", "stored" or "deleted"
    image,         \* its image: "none", "present" or "removed"
    inUse,         \* snapshots whose image a running container was made from
    source,        \* users that have a running environment
    pc,            \* the call a handler makes next
    target,        \* the snapshot it works on
    caller,        \* the effective user of its request
    crashes,       \* restarts so far
    acked,         \* history: snapshots answered with 201
    asked,         \* history: snapshots whose owner asked for their deletion
    leak           \* history: the first event that could leave an image behind

snapVars == <<owner, row, image>>
worldVars == <<inUse, source, faults, crashes>>
workerVars == <<pc, target, caller, ctx>>
historyVars == <<acked, asked, leak>>
vars == <<snapVars, worldVars, workerVars, historyVars>>

NoUser == "no_user"
WorkerPCs == {"idle", "commit", "store", "cleanup", "remove", "drop", "restore"}
Leaks == {"commit_lost", "cleanup_failed", "remove_failed", "wiped"}

Leaking(S, why) == [s \in Snaps |-> IF s \in S /\ leak[s] = "none" THEN why ELSE leak[s]]

Init ==
    /\ owner = [s \in Snaps |-> NoUser]
    /\ row = [s \in Snaps |-> "none"]
    /\ image = [s \in Snaps |-> "none"]
    /\ inUse = {} /\ source = Users
    /\ pc = [w \in Workers |-> "idle"]
    /\ target = [w \in Workers |-> NoSnap]
    /\ caller = [w \in Workers |-> NoUser]
    /\ ctx = [w \in Workers |-> "live"]
    /\ faults = 0 /\ crashes = 0
    /\ acked = {} /\ asked = {}
    /\ leak = [s \in Snaps |-> "none"]

-----------------------------------------------------------------------------
(* The bookkeeping of handlers.                                            *)

Begin(w, l, u, s) == /\ pc' = [pc EXCEPT ![w] = l]
                     /\ target' = [target EXCEPT ![w] = s]
                     /\ caller' = [caller EXCEPT ![w] = u]
                     /\ UNCHANGED ctx

Goto(w, l, c) == /\ pc' = [pc EXCEPT ![w] = l]
                 /\ ctx' = [ctx EXCEPT ![w] = c]
                 /\ UNCHANGED <<target, caller>>

Return(w) == /\ pc' = [pc EXCEPT ![w] = "idle"]
             /\ target' = [target EXCEPT ![w] = NoSnap]
             /\ caller' = [caller EXCEPT ![w] = NoUser]
             /\ ctx' = [ctx EXCEPT ![w] = "live"]

\* GetSnapshot and the WHERE clause of DeleteSnapshot.
Visible(u, s) == row[s] = "stored" /\ owner[s] = u

-----------------------------------------------------------------------------
(* POST /v1/environments/{id}/snapshots.                                   *)

\* Up to the new snapshot ID: the environment was found and is running.
CreateSnapshot(w, u, s) ==
    /\ pc[w] = "idle"
    /\ u \in source
    /\ owner[s] = NoUser
    /\ owner' = [owner EXCEPT ![s] = u]
    /\ Begin(w, "commit", u, s)
    /\ UNCHANGED <<row, image, worldVars, historyVars>>

\* engine.SnapshotContainer: ContainerCommit needs the container.
SnapshotContainer(w) ==
    LET s == target[w] IN
    /\ pc[w] = "commit"
    /\ \E out \in Outcomes, c \in Contexts :
          /\ Call(w, out, c)
          /\ \/ /\ out = "ok" /\ caller[w] \in source
                /\ image' = [image EXCEPT ![s] = "present"]
                /\ Goto(w, "store", c)
                /\ UNCHANGED leak
             \/ /\ out = "lost" /\ caller[w] \in source
                /\ image' = [image EXCEPT ![s] = "present"]
                /\ leak' = Leaking({s}, "commit_lost")
                /\ Return(w)
             \/ /\ out = "failed" \/ caller[w] \notin source
                /\ Return(w)
                /\ UNCHANGED <<image, leak>>
    /\ UNCHANGED <<owner, row, inUse, source, crashes, acked, asked>>

\* Mutant: an error of the store is only logged.
MutantStoreSnapshot(w) ==
    LET s == target[w] IN
    /\ pc[w] = "store"
    /\ \E out \in Outcomes, c \in Contexts :
          /\ StoreCall(w, out, c)
          /\ row' = IF out = "failed" THEN row ELSE [row EXCEPT ![s] = "stored"]
    /\ acked' = acked \cup {s}
    /\ Return(w)
    /\ UNCHANGED <<owner, image, inUse, source, crashes, asked, leak>>

\* store.CreateSnapshot, and the 201 if it succeeds.
StoreSnapshot(w) ==
    LET s == target[w] IN
    /\ pc[w] = "store"
    /\ \E out \in Outcomes, c \in Contexts :
          /\ StoreCall(w, out, c)
          /\ row' = IF out = "failed" THEN row ELSE [row EXCEPT ![s] = "stored"]
          /\ \/ out = "ok" /\ acked' = acked \cup {s} /\ Return(w)
             \/ out # "ok" /\ Goto(w, "cleanup", c) /\ UNCHANGED acked
    /\ UNCHANGED <<owner, image, inUse, source, crashes, asked, leak>>

\* engine.DeleteSnapshotImage.  Docker refuses, forced or not, to remove the
\* image of a running container.
Removed(w, s, out, why) ==
    /\ image' = IF out # "failed" /\ image[s] = "present" /\ s \notin inUse
                THEN [image EXCEPT ![s] = "removed"] ELSE image
    /\ leak' = IF image'[s] = "present" THEN Leaking({s}, why) ELSE leak

\* The record could not be stored: the image is removed, under the context
\* that may be what failed the store.
CleanUp(w) ==
    /\ pc[w] = "cleanup"
    /\ \E out \in Outcomes, c \in Contexts :
          Call(w, out, c) /\ Removed(w, target[w], out, "cleanup_failed")
    /\ Return(w)
    /\ UNCHANGED <<owner, row, inUse, source, crashes, acked, asked>>

-----------------------------------------------------------------------------
(* DELETE /v1/snapshots/{id}.                                              *)

\* store.GetSnapshot.
DeleteSnapshot(w, u, s) ==
    /\ pc[w] = "idle"
    /\ Visible(u, s)
    /\ asked' = IF owner[s] = u THEN asked \cup {s} ELSE asked
    /\ Begin(w, "remove", u, s)
    /\ UNCHANGED <<snapVars, worldVars, acked, leak>>

\* Mutant: the image is not removed.
MutantRemoveImage(w) ==
    /\ pc[w] = "remove"
    /\ Goto(w, "drop", ctx[w])
    /\ UNCHANGED <<snapVars, worldVars, historyVars>>

\* engine.DeleteSnapshotImage; its error is only a warning.
RemoveImage(w) ==
    /\ pc[w] = "remove"
    /\ \E out \in Outcomes, c \in Contexts :
          /\ Call(w, out, c)
          /\ Removed(w, target[w], out, "remove_failed")
          /\ Goto(w, "drop", c)
    /\ UNCHANGED <<owner, row, inUse, source, crashes, acked, asked>>

\* store.DeleteSnapshot.
DropRow(w) ==
    LET s == target[w] IN
    /\ pc[w] = "drop"
    /\ \E out \in Outcomes, c \in Contexts :
          /\ StoreCall(w, out, c)
          /\ row' = IF out # "failed" /\ Visible(caller[w], s)
                    THEN [row EXCEPT ![s] = "deleted"] ELSE row
    /\ Return(w)
    /\ UNCHANGED <<owner, image, inUse, source, crashes, acked, asked, leak>>

-----------------------------------------------------------------------------
(* POST /v1/environments with a snapshot_id.                               *)

\* store.GetSnapshot, whose ImageRef becomes the image of the environment.
RestoreSnapshot(w, u, s) ==
    /\ pc[w] = "idle"
    /\ Visible(u, s)
    /\ Begin(w, "restore", u, s)
    /\ UNCHANGED <<snapVars, worldVars, historyVars>>

\* engine.CreateContainer and StartContainer: a snapshot image is local only,
\* so a pull cannot bring back one that was removed.
RestoreContainer(w) ==
    LET s == target[w] IN
    /\ pc[w] = "restore"
    /\ \E out \in Outcomes, c \in Contexts :
          /\ Call(w, out, c)
          /\ inUse' = IF out # "failed" /\ image[s] = "present" THEN inUse \cup {s} ELSE inUse
    /\ Return(w)
    /\ UNCHANGED <<snapVars, source, crashes, historyVars>>

\* The restored environment, or the one snapshots are taken of, goes away.
RestoredStops(s) ==
    /\ s \in inUse
    /\ inUse' = inUse \ {s}
    /\ UNCHANGED <<snapVars, source, faults, crashes, workerVars, historyVars>>

SourceStops(u) ==
    /\ u \in source
    /\ source' = source \ {u}
    /\ UNCHANGED <<snapVars, inUse, faults, crashes, workerVars, historyVars>>

-----------------------------------------------------------------------------
CancelContext(w) ==
    /\ pc[w] # "idle" /\ ctx[w] = "live"
    /\ ctx' = [ctx EXCEPT ![w] = "done"]
    /\ UNCHANGED <<snapVars, worldVars, pc, target, caller, historyVars>>

\* The server restarts: handlers vanish, and with MemoryStore every record.
\* Containers and images belong to the Docker daemon and stay.
Crash ==
    /\ crashes < MaxCrashes
    /\ crashes' = crashes + 1
    /\ pc' = [w \in Workers |-> "idle"]
    /\ target' = [w \in Workers |-> NoSnap]
    /\ caller' = [w \in Workers |-> NoUser]
    /\ ctx' = [w \in Workers |-> "live"]
    /\ row' = IF Store = "sql" THEN row
              ELSE [s \in Snaps |-> IF row[s] = "stored" THEN "deleted" ELSE row[s]]
    /\ leak' = Leaking({s \in Snaps : image[s] = "present" /\ row'[s] # "stored"}, "wiped")
    /\ UNCHANGED <<owner, image, inUse, source, faults, acked, asked>>

Request(w, u, s) == CreateSnapshot(w, u, s) \/ DeleteSnapshot(w, u, s)
                    \/ RestoreSnapshot(w, u, s)
Handler(w) == SnapshotContainer(w) \/ StoreSnapshot(w) \/ CleanUp(w) \/ RemoveImage(w)
              \/ DropRow(w) \/ RestoreContainer(w) \/ CancelContext(w)

Next ==
    \/ \E w \in Workers : Handler(w)
    \/ \E w \in Workers, u \in Users, s \in Snaps : Request(w, u, s)
    \/ \E s \in Snaps : RestoredStops(s)
    \/ \E u \in Users : SourceStops(u)
    \/ Crash

Spec == Init /\ [][Next]_vars

-----------------------------------------------------------------------------
(* Properties.                                                             *)

TypeOK ==
    /\ owner \in [Snaps -> Users \cup {NoUser}]
    /\ row \in [Snaps -> {"none", "stored", "deleted"}]
    /\ image \in [Snaps -> {"none", "present", "removed"}]
    /\ inUse \subseteq Snaps /\ source \subseteq Users
    /\ pc \in [Workers -> WorkerPCs]
    /\ target \in [Workers -> Snaps \cup {NoSnap}]
    /\ caller \in [Workers -> Users \cup {NoUser}]
    /\ ctx \in [Workers -> Contexts]
    /\ faults \in 0 .. MaxFaults /\ crashes \in 0 .. MaxCrashes
    /\ acked \subseteq Snaps /\ asked \subseteq Snaps
    /\ leak \in [Snaps -> Leaks \cup {"none"}]

\* A request that has still to store, clean up or delete s.
Pending(s) == \E w \in Workers : target[w] = s /\ pc[w] \in {"store", "cleanup", "remove", "drop"}

\* A snapshot the server has answered with 201 can be restored until its
\* owner asks for its deletion: no request of another user, no failed call,
\* no cancelled request and, with SQLStore, no restart takes its record or its
\* image away.
AckedIsRestorable ==
    \A s \in acked \ asked :
        (row[s] = "stored" /\ image[s] = "present") \/ (Store = "memory" /\ crashes > 0)

\* The state is well typed, and an image without a record belongs to a request in progress or was left
\* behind in one of the four ways of Leaks: nothing else leaks.
ImagesExplained ==
    /\ TypeOK
    /\ \A s \in Snaps :
        image[s] = "present" /\ row[s] # "stored" => Pending(s) \/ leak[s] # "none"
=============================================================================
