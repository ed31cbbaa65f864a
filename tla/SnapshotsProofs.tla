--------------------------- MODULE SnapshotsProofs ---------------------------
(***************************************************************************)
(* Proofs about Snapshots: for any number of handlers, users and snapshots *)
(* and any number of faults and restarts, with either store.               *)
(***************************************************************************)
EXTENDS Snapshots, TLAPS

-----------------------------------------------------------------------------
(* The inductive invariant.                                                *)

\* What a handler relies on between two calls.  The image and the row are
\* its own until the row is stored; a handler that removes was asked to by the
\* owner; when it is about to drop the row the image is gone or has leaked.
HandlerOK(w) ==
    LET s == target[w] IN
    /\ pc[w] = "idle" => s = NoSnap
    /\ pc[w] # "idle" => s \in Snaps /\ caller[w] \in Users /\ owner[s] = caller[w]
    /\ pc[w] = "commit" => row[s] = "none" /\ image[s] = "none"
    /\ pc[w] = "store" => row[s] = "none" /\ image[s] = "present"
    /\ pc[w] \in {"commit", "store", "cleanup"} => s \notin acked
    /\ pc[w] \in {"remove", "drop"} => s \in asked
    /\ pc[w] = "drop" /\ image[s] = "present" => leak[s] # "none"

HandlersOK == \A w \in Workers : HandlerOK(w)

\* Until its row is stored nobody but the creator works on a snapshot.
OneCreator ==
    \A w, v \in Workers : pc[w] \in {"commit", "store"} /\ target[v] = target[w] => v = w

\* An ID that was not drawn is nowhere.
Undrawn ==
    \A s \in Snaps : owner[s] = NoUser =>
        /\ row[s] = "none" /\ image[s] = "none" /\ s \notin acked
        /\ \A w \in Workers : target[w] # s

Explained ==
    \A s \in Snaps : image[s] = "present" /\ row[s] # "stored" => Pending(s) \/ leak[s] # "none"

IInv == TypeOK /\ HandlersOK /\ OneCreator /\ Undrawn /\ AckedIsRestorable /\ Explained

-----------------------------------------------------------------------------
(* Lemmas.                                                                 *)

LEMMA Blanks == NoSnap \notin Snaps /\ NoUser \notin Users /\ MaxFaults \in Nat /\ MaxCrashes \in Nat
BY SnapshotsAssumption, CallsAssumption DEF NoUser

\* Handlers keep their contexts and the count of faults in range.
LEMMA CallType ==
    ASSUME TypeOK, NEW w \in Workers, NEW out, NEW c \in Contexts, Call(w, out, c)
    PROVE  faults' \in 0 .. MaxFaults
BY Blanks DEF TypeOK, Call

LEMMA StoreCallType ==
    ASSUME TypeOK, NEW w \in Workers, NEW out, NEW c \in Contexts, StoreCall(w, out, c)
    PROVE  faults' \in 0 .. MaxFaults
BY Blanks, CallType DEF TypeOK, StoreCall

\* A leak is recorded once and for all.
LEMMA LeakingIs ==
    ASSUME TypeOK, NEW S, NEW why \in Leaks
    PROVE  /\ Leaking(S, why) \in [Snaps -> Leaks \cup {"none"}]
           /\ \A s \in Snaps : /\ leak[s] # "none" => Leaking(S, why)[s] # "none"
                               /\ s \in S => Leaking(S, why)[s] # "none"
BY DEF TypeOK, Leaking, Leaks

\* DeleteSnapshotImage touches one image, and records it if it stays.
LEMMA RemovedIs ==
    ASSUME TypeOK, NEW w, NEW s \in Snaps, NEW out, NEW why \in Leaks, Removed(w, s, out, why)
    PROVE  /\ image' \in [Snaps -> {"none", "present", "removed"}]
           /\ leak' \in [Snaps -> Leaks \cup {"none"}]
           /\ \A x \in Snaps : /\ x # s => image'[x] = image[x]
                               /\ image'[x] = "present" => image[x] = "present"
                               /\ image[x] = "none" => image'[x] = "none"
                               /\ leak[x] # "none" => leak'[x] # "none"
           /\ image'[s] = "present" => leak'[s] # "none"
<1>1. /\ image' \in [Snaps -> {"none", "present", "removed"}]
      /\ \A x \in Snaps : /\ x # s => image'[x] = image[x]
                          /\ image'[x] = "present" => image[x] = "present"
                          /\ image[x] = "none" => image'[x] = "none"
  BY DEF TypeOK, Removed
<1>2. /\ leak' \in [Snaps -> Leaks \cup {"none"}]
      /\ \A x \in Snaps : leak[x] # "none" => leak'[x] # "none"
      /\ image'[s] = "present" => leak'[s] # "none"
  BY LeakingIs DEF TypeOK, Removed
<1>. QED BY <1>1, <1>2

-----------------------------------------------------------------------------
LEMMA Initially == Init => IInv
<1>. SUFFICES ASSUME Init PROVE IInv
  OBVIOUS
<1>1. TypeOK
  BY Blanks DEF Init, TypeOK, WorkerPCs, Contexts
<1>2. HandlersOK /\ OneCreator /\ Undrawn
  BY Blanks DEF Init, HandlersOK, HandlerOK, OneCreator, Undrawn
<1>3. AckedIsRestorable /\ Explained
  BY DEF Init, AckedIsRestorable, Explained
<1>. QED BY <1>1, <1>2, <1>3 DEF IInv

\* A new snapshot.
LEMMA CreateStep ==
    ASSUME IInv, NEW w \in Workers, NEW u \in Users, NEW s \in Snaps, CreateSnapshot(w, u, s)
    PROVE  IInv'
<1>. USE DEF CreateSnapshot, Begin, worldVars, historyVars
<1>1. TypeOK'
  BY DEF IInv, TypeOK, WorkerPCs
<1>2. HandlersOK'
  BY Blanks DEF IInv, TypeOK, HandlersOK, HandlerOK, Undrawn, WorkerPCs
<1>3. OneCreator'
  BY Blanks DEF IInv, TypeOK, OneCreator, Undrawn, WorkerPCs
<1>4. Undrawn'
  BY Blanks DEF IInv, TypeOK, Undrawn
<1>5. AckedIsRestorable'
  BY DEF IInv, AckedIsRestorable
<1>6. Explained'
  BY DEF IInv, TypeOK, Explained, Pending
<1>. QED BY <1>1, <1>2, <1>3, <1>4, <1>5, <1>6 DEF IInv

\* The image is made, by nobody else and before anybody can ask for it.
LEMMA CommitStep ==
    ASSUME IInv, NEW w \in Workers, SnapshotContainer(w)
    PROVE  IInv'
<1>. USE DEF SnapshotContainer, Goto, Return
<1>0. target[w] \in Snaps /\ faults' \in 0 .. MaxFaults
  BY CallType DEF IInv, HandlersOK, HandlerOK
<1>a. /\ Leaking({target[w]}, "commit_lost") \in [Snaps -> Leaks \cup {"none"}]
      /\ \A s \in Snaps : leak[s] # "none" => Leaking({target[w]}, "commit_lost")[s] # "none"
      /\ Leaking({target[w]}, "commit_lost")[target[w]] # "none"
  BY <1>0, LeakingIs DEF IInv, Leaks
<1>b. image[target[w]] = "none" /\ leak \in [Snaps -> Leaks \cup {"none"}]
      /\ image \in [Snaps -> {"none", "present", "removed"}] /\ pc \in [Workers -> WorkerPCs]
  BY DEF IInv, TypeOK, HandlersOK, HandlerOK
<1>c. /\ leak' \in [Snaps -> Leaks \cup {"none"}]
      /\ \A s \in Snaps : leak[s] # "none" => leak'[s] # "none"
      /\ image' \in [Snaps -> {"none", "present", "removed"}]
      /\ \A s \in Snaps : s # target[w] => image'[s] = image[s]
      /\ image'[target[w]] = "present" => pc'[w] = "store" \/ leak'[target[w]] # "none"
  BY <1>0, <1>b, <1>a
<1>1. TypeOK'
  BY <1>0, <1>c, Blanks DEF IInv, TypeOK, WorkerPCs, Outcomes, Contexts, Leaks
<1>2. HandlersOK'
  BY <1>0, <1>c, Blanks DEF IInv, TypeOK, HandlersOK, HandlerOK, OneCreator
<1>3. OneCreator'
  BY <1>0, <1>c, Blanks DEF IInv, TypeOK, HandlersOK, HandlerOK, OneCreator
<1>4. Undrawn'
  BY <1>0, <1>c, Blanks DEF IInv, TypeOK, HandlersOK, HandlerOK, Undrawn
<1>5. AckedIsRestorable'
  BY <1>0, <1>c, Blanks DEF IInv, TypeOK, HandlersOK, HandlerOK, AckedIsRestorable
<1>6. Explained'
  BY <1>0, <1>c, Blanks DEF IInv, TypeOK, HandlersOK, HandlerOK, OneCreator, Explained, Pending
<1>. QED BY <1>1, <1>2, <1>3, <1>4, <1>5, <1>6 DEF IInv

\* The row is stored, or the image is to be cleaned up.
LEMMA StoreStep ==
    ASSUME IInv, NEW w \in Workers, StoreSnapshot(w)
    PROVE  IInv'
<1>. USE DEF StoreSnapshot, Goto, Return
<1>0. target[w] \in Snaps /\ faults' \in 0 .. MaxFaults
  BY StoreCallType DEF IInv, HandlersOK, HandlerOK
<1>1. TypeOK'
  BY <1>0, Blanks DEF IInv, TypeOK, WorkerPCs, Outcomes, Contexts, Leaks
<1>2. HandlersOK'
  BY <1>0, Blanks DEF IInv, TypeOK, HandlersOK, HandlerOK, OneCreator
<1>3. OneCreator'
  BY <1>0, Blanks DEF IInv, TypeOK, HandlersOK, HandlerOK, OneCreator
<1>4. Undrawn'
  BY <1>0, Blanks DEF IInv, TypeOK, HandlersOK, HandlerOK, Undrawn
<1>5. AckedIsRestorable'
  BY <1>0, Blanks DEF IInv, TypeOK, HandlersOK, HandlerOK, AckedIsRestorable
<1>6. Explained'
  BY <1>0, Blanks DEF IInv, TypeOK, HandlersOK, HandlerOK, OneCreator, Explained, Pending
<1>. QED BY <1>1, <1>2, <1>3, <1>4, <1>5, <1>6 DEF IInv

\* The image of a row that was not stored, or so it seemed.
LEMMA CleanUpStep ==
    ASSUME IInv, NEW w \in Workers, CleanUp(w)
    PROVE  IInv'
<1>. USE DEF CleanUp, Return
<1>0. target[w] \in Snaps /\ faults' \in 0 .. MaxFaults
  BY CallType DEF IInv, HandlersOK, HandlerOK
<1>9. /\ image' \in [Snaps -> {"none", "present", "removed"}]
      /\ leak' \in [Snaps -> Leaks \cup {"none"}]
      /\ \A x \in Snaps : /\ x # target[w] => image'[x] = image[x]
                          /\ image'[x] = "present" => image[x] = "present"
                          /\ image[x] = "none" => image'[x] = "none"
                          /\ leak[x] # "none" => leak'[x] # "none"
      /\ image'[target[w]] = "present" => leak'[target[w]] # "none"
  BY <1>0, RemovedIs DEF IInv, Leaks
<1>1. TypeOK'
  BY <1>0, <1>9, Blanks DEF IInv, TypeOK, WorkerPCs, Outcomes, Contexts, Leaks
<1>2. HandlersOK'
  BY <1>0, <1>9, Blanks DEF IInv, TypeOK, HandlersOK, HandlerOK, OneCreator
<1>3. OneCreator'
  BY <1>0, <1>9, Blanks DEF IInv, TypeOK, HandlersOK, HandlerOK, OneCreator
<1>4. Undrawn'
  BY <1>0, <1>9, Blanks DEF IInv, TypeOK, HandlersOK, HandlerOK, Undrawn
<1>5. AckedIsRestorable'
  BY <1>0, <1>9, Blanks DEF IInv, TypeOK, HandlersOK, HandlerOK, AckedIsRestorable
<1>6. Explained'
  BY <1>0, <1>9, Blanks DEF IInv, TypeOK, HandlersOK, HandlerOK, OneCreator, Explained, Pending
<1>. QED BY <1>1, <1>2, <1>3, <1>4, <1>5, <1>6 DEF IInv

\* The image of a snapshot whose owner asked for it.
LEMMA RemoveStep ==
    ASSUME IInv, NEW w \in Workers, RemoveImage(w)
    PROVE  IInv'
<1>. USE DEF RemoveImage, Goto
<1>0. target[w] \in Snaps /\ faults' \in 0 .. MaxFaults
  BY CallType DEF IInv, HandlersOK, HandlerOK
<1>9. /\ image' \in [Snaps -> {"none", "present", "removed"}]
      /\ leak' \in [Snaps -> Leaks \cup {"none"}]
      /\ \A x \in Snaps : /\ x # target[w] => image'[x] = image[x]
                          /\ image'[x] = "present" => image[x] = "present"
                          /\ image[x] = "none" => image'[x] = "none"
                          /\ leak[x] # "none" => leak'[x] # "none"
      /\ image'[target[w]] = "present" => leak'[target[w]] # "none"
  BY <1>0, RemovedIs DEF IInv, Leaks
<1>1. TypeOK'
  BY <1>0, <1>9, Blanks DEF IInv, TypeOK, WorkerPCs, Outcomes, Contexts, Leaks
<1>2. HandlersOK'
  BY <1>0, <1>9, Blanks DEF IInv, TypeOK, HandlersOK, HandlerOK, OneCreator
<1>3. OneCreator'
  BY <1>0, <1>9, Blanks DEF IInv, TypeOK, HandlersOK, HandlerOK, OneCreator
<1>4. Undrawn'
  BY <1>0, <1>9, Blanks DEF IInv, TypeOK, HandlersOK, HandlerOK, Undrawn
<1>5. AckedIsRestorable'
  BY <1>0, <1>9, Blanks DEF IInv, TypeOK, HandlersOK, HandlerOK, AckedIsRestorable
<1>6. Explained'
  BY <1>0, <1>9, Blanks DEF IInv, TypeOK, HandlersOK, HandlerOK, OneCreator, Explained, Pending
<1>. QED BY <1>1, <1>2, <1>3, <1>4, <1>5, <1>6 DEF IInv

\* Its row.
LEMMA DropStep ==
    ASSUME IInv, NEW w \in Workers, DropRow(w)
    PROVE  IInv'
<1>. USE DEF DropRow, Return, Visible
<1>0. target[w] \in Snaps /\ faults' \in 0 .. MaxFaults
  BY StoreCallType DEF IInv, HandlersOK, HandlerOK
<1>1. TypeOK'
  BY <1>0, Blanks DEF IInv, TypeOK, WorkerPCs, Outcomes, Contexts, Leaks
<1>2. HandlersOK'
  BY <1>0, Blanks DEF IInv, TypeOK, HandlersOK, HandlerOK, OneCreator
<1>3. OneCreator'
  BY <1>0, Blanks DEF IInv, TypeOK, HandlersOK, HandlerOK, OneCreator
<1>4. Undrawn'
  BY <1>0, Blanks DEF IInv, TypeOK, HandlersOK, HandlerOK, Undrawn
<1>5. AckedIsRestorable'
  BY <1>0, Blanks DEF IInv, TypeOK, HandlersOK, HandlerOK, AckedIsRestorable
<1>6. Explained'
  BY <1>0, Blanks DEF IInv, TypeOK, HandlersOK, HandlerOK, OneCreator, Explained, Pending
<1>. QED BY <1>1, <1>2, <1>3, <1>4, <1>5, <1>6 DEF IInv

\* A container of the image.
LEMMA RestoreStep ==
    ASSUME IInv, NEW w \in Workers, RestoreContainer(w)
    PROVE  IInv'
<1>. USE DEF RestoreContainer, Return, snapVars, historyVars
<1>0. target[w] \in Snaps /\ faults' \in 0 .. MaxFaults
  BY CallType DEF IInv, HandlersOK, HandlerOK
<1>1. TypeOK'
  BY <1>0, Blanks DEF IInv, TypeOK, WorkerPCs, Outcomes, Contexts, Leaks
<1>2. HandlersOK'
  BY <1>0, Blanks DEF IInv, TypeOK, HandlersOK, HandlerOK, OneCreator
<1>3. OneCreator'
  BY <1>0, Blanks DEF IInv, TypeOK, HandlersOK, HandlerOK, OneCreator
<1>4. Undrawn'
  BY <1>0, Blanks DEF IInv, TypeOK, HandlersOK, HandlerOK, Undrawn
<1>5. AckedIsRestorable'
  BY <1>0, Blanks DEF IInv, TypeOK, HandlersOK, HandlerOK, AckedIsRestorable
<1>6. Explained'
  BY <1>0, Blanks DEF IInv, TypeOK, HandlersOK, HandlerOK, OneCreator, Explained, Pending
<1>. QED BY <1>1, <1>2, <1>3, <1>4, <1>5, <1>6 DEF IInv

\* A deletion begins.
LEMMA DeleteStep ==
    ASSUME IInv, NEW w \in Workers, NEW u \in Users, NEW s \in Snaps, DeleteSnapshot(w, u, s)
    PROVE  IInv'
<1>. USE DEF DeleteSnapshot, Begin, Visible, snapVars, worldVars
<1>1. TypeOK'
  BY Blanks DEF IInv, TypeOK, WorkerPCs, Outcomes, Contexts, Leaks
<1>2. HandlersOK'
  BY Blanks DEF IInv, TypeOK, HandlersOK, HandlerOK, OneCreator
<1>3. OneCreator'
  BY Blanks DEF IInv, TypeOK, HandlersOK, HandlerOK, OneCreator
<1>4. Undrawn'
  BY Blanks DEF IInv, TypeOK, HandlersOK, HandlerOK, Undrawn
<1>5. AckedIsRestorable'
  BY Blanks DEF IInv, TypeOK, HandlersOK, HandlerOK, AckedIsRestorable
<1>6. Explained'
  BY Blanks DEF IInv, TypeOK, HandlersOK, HandlerOK, OneCreator, Explained, Pending
<1>. QED BY <1>1, <1>2, <1>3, <1>4, <1>5, <1>6 DEF IInv

\* A restoration begins.
LEMMA RestoreBeginStep ==
    ASSUME IInv, NEW w \in Workers, NEW u \in Users, NEW s \in Snaps, RestoreSnapshot(w, u, s)
    PROVE  IInv'
<1>. USE DEF RestoreSnapshot, Begin, Visible, snapVars, worldVars, historyVars
<1>1. TypeOK'
  BY Blanks DEF IInv, TypeOK, WorkerPCs, Outcomes, Contexts, Leaks
<1>2. HandlersOK'
  BY Blanks DEF IInv, TypeOK, HandlersOK, HandlerOK, OneCreator
<1>3. OneCreator'
  BY Blanks DEF IInv, TypeOK, HandlersOK, HandlerOK, OneCreator
<1>4. Undrawn'
  BY Blanks DEF IInv, TypeOK, HandlersOK, HandlerOK, Undrawn
<1>5. AckedIsRestorable'
  BY Blanks DEF IInv, TypeOK, HandlersOK, HandlerOK, AckedIsRestorable
<1>6. Explained'
  BY Blanks DEF IInv, TypeOK, HandlersOK, HandlerOK, OneCreator, Explained, Pending
<1>. QED BY <1>1, <1>2, <1>3, <1>4, <1>5, <1>6 DEF IInv

\* A context ends.
LEMMA CancelStep ==
    ASSUME IInv, NEW w \in Workers, CancelContext(w)
    PROVE  IInv'
<1>. USE DEF CancelContext, snapVars, worldVars, historyVars
<1>1. TypeOK'
  BY Blanks DEF IInv, TypeOK, WorkerPCs, Outcomes, Contexts, Leaks
<1>2. HandlersOK'
  BY Blanks DEF IInv, TypeOK, HandlersOK, HandlerOK, OneCreator
<1>3. OneCreator'
  BY Blanks DEF IInv, TypeOK, HandlersOK, HandlerOK, OneCreator
<1>4. Undrawn'
  BY Blanks DEF IInv, TypeOK, HandlersOK, HandlerOK, Undrawn
<1>5. AckedIsRestorable'
  BY Blanks DEF IInv, TypeOK, HandlersOK, HandlerOK, AckedIsRestorable
<1>6. Explained'
  BY Blanks DEF IInv, TypeOK, HandlersOK, HandlerOK, OneCreator, Explained, Pending
<1>. QED BY <1>1, <1>2, <1>3, <1>4, <1>5, <1>6 DEF IInv

\* Containers come and go.
LEMMA WorldStep ==
    ASSUME IInv, (\E s \in Snaps : RestoredStops(s)) \/ (\E u \in Users : SourceStops(u)) \/ UNCHANGED vars
    PROVE  IInv'
<1>. USE DEF RestoredStops, SourceStops, vars, snapVars, worldVars, workerVars, historyVars
<1>1. TypeOK'
  BY DEF IInv, TypeOK
<1>2. HandlersOK' /\ OneCreator' /\ Undrawn'
  BY DEF IInv, HandlersOK, HandlerOK, OneCreator, Undrawn
<1>3. AckedIsRestorable' /\ Explained'
  BY DEF IInv, AckedIsRestorable, Explained, Pending
<1>. QED BY <1>1, <1>2, <1>3 DEF IInv

\* A restart: what no handler will clean up any more has leaked.
LEMMA CrashStep ==
    ASSUME IInv, Crash
    PROVE  IInv'
<1>. DEFINE S == {s \in Snaps : image[s] = "present" /\ row'[s] # "stored"}
<1>1. /\ leak' \in [Snaps -> Leaks \cup {"none"}]
      /\ \A s \in Snaps : image[s] = "present" /\ row'[s] # "stored" => leak'[s] # "none"
  <2>1. leak' = Leaking(S, "wiped")
    BY DEF Crash
  <2>2. \A s \in Snaps : image[s] = "present" /\ row'[s] # "stored" => s \in S
    OBVIOUS
  <2>. HIDE DEF S
  <2>3. "wiped" \in Leaks /\ TypeOK
    BY DEF Leaks, IInv
  <2>. QED BY <2>1, <2>2, <2>3, LeakingIs
<1>. USE DEF Crash
<1>2. TypeOK'
  <2>1. row' \in [Snaps -> {"none", "stored", "deleted"}]
    BY DEF IInv, TypeOK
  <2>2. crashes' \in 0 .. MaxCrashes
    BY Blanks DEF IInv, TypeOK
  <2>3. /\ pc' \in [Workers -> WorkerPCs] /\ target' \in [Workers -> Snaps \cup {NoSnap}]
        /\ caller' \in [Workers -> Users \cup {NoUser}] /\ ctx' \in [Workers -> Contexts]
    BY DEF WorkerPCs, Contexts
  <2>. QED BY <1>1, <2>1, <2>2, <2>3 DEF IInv, TypeOK
<1>3. HandlersOK' /\ OneCreator'
  BY Blanks DEF IInv, HandlersOK, HandlerOK, OneCreator
<1>4. Undrawn'
  BY Blanks DEF IInv, TypeOK, Undrawn
<1>5. AckedIsRestorable'
  BY CallsAssumption DEF IInv, TypeOK, AckedIsRestorable
<1>6. Explained'
  BY <1>1 DEF Explained
<1>. QED BY <1>2, <1>3, <1>4, <1>5, <1>6 DEF IInv

LEMMA Preserved == IInv /\ [Next]_vars => IInv'
<1>. SUFFICES ASSUME IInv, [Next]_vars PROVE IInv'
  OBVIOUS
<1>1. ASSUME NEW w \in Workers, Handler(w) PROVE IInv'
  BY <1>1, CommitStep, StoreStep, CleanUpStep, RemoveStep, DropStep, RestoreStep, CancelStep DEF Handler
<1>2. ASSUME NEW w \in Workers, NEW u \in Users, NEW s \in Snaps, Request(w, u, s) PROVE IInv'
  BY <1>2, CreateStep, DeleteStep, RestoreBeginStep DEF Request
<1>3. CASE (\E s \in Snaps : RestoredStops(s)) \/ (\E u \in Users : SourceStops(u)) \/ UNCHANGED vars
  BY <1>3, WorldStep
<1>. QED BY <1>1, <1>2, <1>3, CrashStep DEF Next

-----------------------------------------------------------------------------
(* The theorems.                                                           *)

\* Every step of a handler, every cancellation, fault and restart keeps rows and
\* images consistent with the positions of the handlers.
THEOREM Invariance == Spec => []IInv
BY Initially, Preserved, PTL DEF Spec

\* A snapshot that was answered with 201 keeps its row and its image until its
\* owner asks for its deletion.
THEOREM AckedAlwaysRestorable == Spec => []AckedIsRestorable
<1>1. IInv => AckedIsRestorable
  BY DEF IInv
<1>. QED BY <1>1, Invariance, PTL

\* No image is left without a row but in one of the four ways of Leaks.
THEOREM ImagesAlwaysExplained == Spec => []ImagesExplained
<1>1. IInv => ImagesExplained
  BY DEF IInv, Explained, ImagesExplained
<1>. QED BY <1>1, Invariance, PTL
=============================================================================
