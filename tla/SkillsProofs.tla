---------------------------- MODULE SkillsProofs -----------------------------
(***************************************************************************)
(* Proofs about Skills: for any number of handlers, users, names, archives *)
(* and skills and any number of faults, with either store.                 *)
(***************************************************************************)
EXTENDS Skills, TLAPS

-----------------------------------------------------------------------------
(* The inductive invariant.                                                *)

Valid(r) == r.name \in ValidNames /\ r.archive \in ValidArchives

\* What is stored was validated under an ID of its own, and is the only skill
\* of its user with that name.
Library ==
    /\ \A r \in skills : Valid(r) /\ r.id \in drawn
    /\ \A r, q \in skills : r.id = q.id \/ (r.user = q.user /\ r.name = q.name) => r = q

\* The ID of a skill that is yet to be stored is nobody else's.
Drawing ==
    \A w \in Workers :
        /\ pc[w] \in {"upsert", "reflect"} => row[w] \in Rows /\ Valid(row[w])
        /\ pc[w] = "upsert" => /\ row[w].id \in drawn
                               /\ \A r \in skills : r.id # row[w].id
                               /\ \A v \in Workers : pc[v] = "upsert" /\ row[v].id = row[w].id => v = w

\* One handler creates the environment, for its owner, and is done when it runs.
Creates(w) == pc[w] \in {"list", "load", "extract"}
Creator ==
    \A w \in Workers : Creates(w) =>
        /\ phase \in {"creating", "gone"} /\ owner \in Users /\ user[w] = owner
        /\ \A v \in Workers : Creates(v) => v = w

\* Before it is created and after it is gone there is nothing in it.
Empty == phase \in {"none", "gone"} => \A n \in Names : tree[n] = {}

\* What the creation may still load, and what is in hand, is the owner's.
Giving ==
    /\ phase = "creating" => \A r \in skills : r.user = owner => <<r.name, r.archive>> \in given
    /\ \A w \in Workers :
        /\ pc[w] = "extract" => /\ row[w] \in Rows /\ Valid(row[w])
                                /\ phase = "creating" => <<row[w].name, row[w].archive>> \in given
        /\ pc[w] = "push" => /\ row[w] \in Pushes /\ Valid(row[w])
                             /\ phase \in {"running", "gone"}
                             /\ phase = "running" => <<row[w].name, row[w].archive>> \in given

Installed == \A n \in Names : \A a \in tree[n] :
    n \in ValidNames /\ a \in ValidArchives /\ <<n, a>> \in given

\* A name that is kept is in the library, and the creation has installed it,
\* has it in hand or has it before it.
Ahead(w, n) == \E r \in skills : r.user = owner /\ r.name = n /\ r.id \in left[w]
Keeping == phase = "creating" => \A n \in kept :
    /\ \E r \in skills : r.user = owner /\ r.name = n
    /\ \A w \in Workers : pc[w] \in {"load", "extract"} =>
        tree[n] # {} \/ Ahead(w, n) \/ (pc[w] = "extract" /\ row[w].name = n)

NonePushed == phase # "running" => pushed = {}

\* What a listing is to show is installed, and was found or is still ahead.
Listing ==
    /\ \A n \in Names : tree[n] # {} => n \in dirs
    /\ \A w \in Workers : \A n \in want[w] :
        tree[n] # {} /\ (pc[w] = "cat" => n \in got[w] \cup left[w])

\* A skill that was answered for is there.
Resolved == \A a \in answered : \E r \in skills : r.id = a[1] /\ r.user = a[2] /\ r.name = a[3]

IInv == /\ TypeOK
        /\ Library /\ Drawing /\ Resolved
        /\ Creator /\ Empty /\ Giving /\ Installed
        /\ Keeping /\ StableSkillsInjected
        /\ NonePushed /\ PushIsOnTop
        /\ Listing

-----------------------------------------------------------------------------
(* Lemmas.                                                                 *)

LEMMA Blanks ==
    /\ NoRow \notin Rows /\ NoRow \notin Pushes /\ NoUser \notin Users /\ NoID \notin SkillIDs
    /\ ValidNames \subseteq Names /\ ValidArchives \subseteq Archives
    /\ MaxFaults \in Nat
BY SkillsAssumption, CallsAssumption DEF Rows, Pushes, NoUser, NoID

LEMMA RowsAre ==
    /\ \A r \in Rows : r.id \in SkillIDs /\ r.user \in Users /\ r.name \in Names /\ r.archive \in Archives
    /\ \A r \in Pushes : r.user \in Users /\ r.name \in Names /\ r.archive \in Archives
BY DEF Rows, Pushes

\* A call keeps the count of faults in range.
LEMMA CallType ==
    ASSUME TypeOK, NEW w \in Workers, NEW out, NEW c \in Contexts, Call(w, out, c)
    PROVE  faults' \in 0 .. MaxFaults
BY Blanks DEF TypeOK, Call

LEMMA StoreCallType ==
    ASSUME TypeOK, NEW w \in Workers, NEW out, NEW c \in Contexts, StoreCall(w, out, c)
    PROVE  faults' \in 0 .. MaxFaults
BY CallType DEF TypeOK, StoreCall

\* An extraction adds files to one directory of an environment that is there.
LEMMA ExtractedIs ==
    ASSUME TypeOK, NEW w \in Workers, NEW r, r.name \in Names, NEW out, NEW who, Extracted(w, r, out, who)
    PROVE  /\ \A n \in Names : tree[n] \subseteq tree'[n]
           /\ \A n \in Names : \A a \in tree'[n] : a \in tree[n] \/ (n = r.name /\ a = r.archive /\ phase # "gone")
           /\ out = "ok" /\ phase # "gone" => tree'[r.name] # {}
<1>1. CASE /\ phase # "gone" /\ tree' = [tree EXCEPT ![r.name] = @ \cup {r.archive}]
  <2>. DEFINE m == r.name
              b == r.archive
  <2>1. m \in Names /\ tree' = [tree EXCEPT ![m] = tree[m] \cup {b}] /\ tree \in [Names -> SUBSET Archives]
    BY <1>1 DEF TypeOK
  <2>. HIDE DEF m, b
  <2>2. \A n \in Names : tree'[n] = IF n = m THEN tree[m] \cup {b} ELSE tree[n]
    BY <2>1
  <2>3. \A n \in Names : \A a \in tree'[n] : a \in tree[n] \/ (n = m /\ a = b)
    BY <2>2
  <2>4. tree'[m] # {} /\ \A n \in Names : tree[n] \subseteq tree'[n]
    BY <2>1, <2>2
  <2>. QED BY <1>1, <2>3, <2>4 DEF m, b
<1>2. CASE UNCHANGED tree /\ (out # "ok" \/ phase = "gone")
  BY <1>2
<1>. QED BY <1>1, <1>2 DEF Extracted

\* A handler with a skill to store.
LEMMA AtUpsert ==
    ASSUME IInv, NEW w \in Workers, pc[w] = "upsert"
    PROVE  /\ row[w] \in Rows /\ Valid(row[w]) /\ row[w].id \in drawn
           /\ \A q \in skills : q.id # row[w].id
BY DEF IInv, Drawing

\* The skills after an upsert of r: none is lost, one of r's name is there,
\* and one that was not there before has r's archive.
Grown(S, r) ==
    /\ S \subseteq Rows
    /\ \A p \in S : Valid(p) /\ p.id \in drawn
    /\ \A p, q \in S : p.id = q.id \/ (p.user = q.user /\ p.name = q.name) => p = q
    /\ \A q \in skills : \E p \in S : p.id = q.id /\ p.user = q.user /\ p.name = q.name
    /\ \A p \in S : p \in skills \/ (p.user = r.user /\ p.name = r.name /\ p.archive = r.archive)
    /\ \A p \in S : p.id = r.id \/ \E q \in skills : q.id = p.id

LEMMA UpsertGrows ==
    ASSUME IInv, NEW w \in Workers, pc[w] = "upsert"
    PROVE  Grown(Upserted(row[w]), row[w])
<1>. DEFINE r == row[w]
            old == ByName(r.user, r.name)
<1>1. r \in Rows /\ Valid(r) /\ r.id \in drawn /\ (\A q \in skills : q.id # r.id) /\ skills \subseteq Rows /\ Library
  BY AtUpsert DEF IInv, TypeOK
<1>. HIDE DEF r
<1>2. CASE old = {}
  <2>1. Upserted(r) = skills \cup {r} /\ \A q \in skills : ~(q.user = r.user /\ q.name = r.name)
    BY <1>2 DEF Upserted, ByName
  <2>. QED BY <1>1, <2>1 DEF Grown, Library, r
<1>3. CASE old # {}
  <2>1. PICK o \in skills : o.user = r.user /\ o.name = r.name
    BY <1>3 DEF ByName
  <2>2. old = {o}
    BY <1>1, <2>1 DEF ByName, Library
  <2>. DEFINE n == [o EXCEPT !.archive = r.archive]
  <2>3. Upserted(r) = (skills \ {o}) \cup {n}
    BY <1>3, <2>2 DEF Upserted
  <2>4. n \in Rows /\ n.id = o.id /\ n.user = o.user /\ n.name = o.name /\ n.archive = r.archive
    BY <1>1, <2>1 DEF Rows
  <2>. HIDE DEF n
  <2>5. Valid(n) /\ n.id \in drawn /\ n.user = r.user /\ n.name = r.name
    BY <1>1, <2>1, <2>4 DEF Valid, Library
  <2>. QED BY <1>1, <2>1, <2>3, <2>4, <2>5 DEF Grown, Library, r
<1>. QED BY <1>2, <1>3 DEF r

-----------------------------------------------------------------------------
LEMMA Initially == Init => IInv
<1>. SUFFICES ASSUME Init PROVE IInv
  OBVIOUS
<1>. USE DEF Init
<1>1. TypeOK
  BY Blanks DEF TypeOK, WorkerPCs, Contexts
<1>2. Library /\ Drawing /\ Resolved
  BY DEF Library, Drawing, Resolved
<1>3. Creator /\ Empty /\ Giving /\ Installed
  BY DEF Creator, Creates, Empty, Giving, Installed
<1>4. Keeping /\ StableSkillsInjected /\ NonePushed /\ PushIsOnTop /\ Listing
  BY DEF Keeping, StableSkillsInjected, NonePushed, PushIsOnTop, Listing
<1>. QED BY <1>1, <1>2, <1>3, <1>4 DEF IInv

\* A registration draws an ID that nobody has.
LEMMA RegisterStep ==
    ASSUME IInv, NEW w \in Workers, NEW r \in Rows, RegisterSkill(w, r)
    PROVE  IInv'
<1>. USE DEF RegisterSkill, Begin, ValidateSkillName, DecompressAndValidate, boxVars, historyVars
<1>0. Valid(r) /\ r.id \in SkillIDs /\ r.user \in Users
  BY RowsAre DEF Valid
<1>1. TypeOK'
  BY <1>0 DEF IInv, TypeOK, WorkerPCs, Contexts
<1>2. Library'
  BY <1>0 DEF IInv, TypeOK, Library
<1>3. Drawing'
  BY <1>0 DEF IInv, TypeOK, Drawing, Valid, Library
<1>4. Resolved'
  BY <1>0 DEF IInv, TypeOK, Resolved
<1>5. Creator'
  BY <1>0 DEF IInv, TypeOK, Creator, Creates
<1>6. Empty'
  BY <1>0 DEF IInv, TypeOK, Empty
<1>7. Giving'
  BY <1>0 DEF IInv, TypeOK, Giving, Valid
<1>8. Installed'
  BY <1>0 DEF IInv, TypeOK, Installed
<1>9. Keeping'
  BY <1>0 DEF IInv, TypeOK, Keeping, Ahead
<1>10. StableSkillsInjected'
  BY <1>0 DEF IInv, TypeOK, StableSkillsInjected
<1>11. NonePushed'
  BY <1>0 DEF IInv, TypeOK, NonePushed
<1>12. PushIsOnTop'
  BY <1>0 DEF IInv, TypeOK, PushIsOnTop
<1>13. Listing'
  BY <1>0 DEF IInv, TypeOK, Listing
<1>. QED BY <1>1, <1>2, <1>3, <1>4, <1>5, <1>6, <1>7, <1>8, <1>9, <1>10, <1>11, <1>12, <1>13 DEF IInv

\* The skill is stored, or the one that has its name gets its archive.
LEMMA UpsertStep ==
    ASSUME IInv, NEW w \in Workers, UpsertSkill(w)
    PROVE  IInv'
<1>a. /\ row[w] \in Rows /\ Valid(row[w]) /\ row[w].name \in Names /\ row[w].archive \in Archives /\ pc[w] = "upsert"
      /\ faults' \in 0 .. MaxFaults /\ UNCHANGED <<drawn, boxVars, kept, pushed>>
  BY AtUpsert, RowsAre, StoreCallType DEF IInv, UpsertSkill
<1>b. /\ skills' = skills /\ given' = given
      \/ /\ Grown(skills', row[w])
         /\ given' = Offered(row[w])
  BY UpsertGrows DEF UpsertSkill
<1>c. \/ pc' = [pc EXCEPT ![w] = "reflect"] /\ row' = [row EXCEPT ![w] = row[w]] /\ ctx' \in [Workers -> Contexts]
         /\ UNCHANGED <<user, left, got, want, answered>>
      \/ Return(w) /\ UNCHANGED answered
      \/ /\ Return(w)
         /\ answered' = answered \cup {<<o.id, o.user, o.name>> :
                                    o \in {x \in skills' : x.user = row[w].user /\ x.name = row[w].name}}
  BY DEF UpsertSkill, Goto, IInv, TypeOK
<1>d. skills' \subseteq Rows /\ given \subseteq given' /\ given' \subseteq Names \X Archives
  BY <1>a, <1>b DEF Offered, Grown, IInv, TypeOK
<1>e. /\ answered' \subseteq SkillIDs \X Users \X Names
      /\ \A a \in answered' : a \in answered \/ \E o \in skills' : a = <<o.id, o.user, o.name>>
  BY <1>c, <1>d, RowsAre DEF IInv, TypeOK
<1>f. /\ pc' \in [Workers -> WorkerPCs] /\ pc'[w] \in {"idle", "reflect"}
      /\ row' \in [Workers -> Rows \cup Pushes \cup {NoRow}] /\ (pc'[w] = "reflect" => row'[w] = row[w])
      /\ \A v \in Workers \ {w} : pc'[v] = pc[v] /\ row'[v] = row[v] /\ user'[v] = user[v] /\ left'[v] = left[v]
                                    /\ got'[v] = got[v] /\ want'[v] = want[v]
      /\ want'[w] \subseteq want[w]
  BY <1>a, <1>c, Blanks DEF Return, IInv, TypeOK, WorkerPCs
<1>g. /\ user' \in [Workers -> Users \cup {NoUser}] /\ left' \in [Workers -> SUBSET (SkillIDs \cup Names)]
      /\ got' \in [Workers -> SUBSET Names] /\ want' \in [Workers -> SUBSET Names] /\ ctx' \in [Workers -> Contexts]
  BY <1>c DEF Return, IInv, TypeOK, Contexts
<1>h. /\ \A q \in skills : \E p \in skills' : p.id = q.id /\ p.user = q.user /\ p.name = q.name
      /\ \A p \in skills' : p.id = row[w].id \/ \E q \in skills : q.id = p.id
  BY <1>b DEF Grown
<1>. USE DEF boxVars
<1>1. TypeOK'
  BY <1>a, <1>d, <1>e, <1>f, <1>g DEF IInv, TypeOK
<1>2. Library'
  BY <1>a, <1>b DEF IInv, Library, Grown
<1>3. Drawing'
  BY <1>a, <1>f, <1>h DEF IInv, Drawing
<1>4. Resolved'
  <2>. SUFFICES ASSUME NEW a \in answered'
                PROVE  \E r \in skills' : r.id = a[1] /\ r.user = a[2] /\ r.name = a[3]
    BY DEF Resolved
  <2>1. CASE a \in answered
    BY <1>h, <2>1 DEF IInv, Resolved
  <2>2. CASE \E o \in skills' : a = <<o.id, o.user, o.name>>
    BY <2>2
  <2>. QED BY <1>e, <2>1, <2>2
<1>5. Creator'
  BY <1>a, <1>f DEF IInv, Creator, Creates
<1>6. Empty'
  BY <1>a DEF IInv, Empty
<1>7. Giving'
  <2>1. phase = "creating" => \A r \in skills' : r.user = owner => <<r.name, r.archive>> \in given'
    BY <1>b, <1>d DEF Grown, Offered, IInv, Giving
  <2>. QED BY <1>a, <1>d, <1>f, <2>1 DEF IInv, Giving
<1>8. Installed'
  BY <1>a, <1>d DEF IInv, Installed
<1>9. Keeping'
  BY <1>a, <1>f, <1>h DEF IInv, Keeping, Ahead
<1>10. StableSkillsInjected'
  BY <1>a DEF IInv, StableSkillsInjected
<1>11. NonePushed'
  BY <1>a DEF IInv, NonePushed
<1>12. PushIsOnTop'
  BY <1>a DEF IInv, PushIsOnTop
<1>13. Listing'
  BY <1>a, <1>f DEF IInv, Listing
<1>. QED BY <1>1, <1>2, <1>3, <1>4, <1>5, <1>6, <1>7, <1>8, <1>9, <1>10, <1>11, <1>12, <1>13 DEF IInv

\* The answer names the row that is there.
LEMMA ReflectStep ==
    ASSUME IInv, NEW w \in Workers, ReflectSkill(w)
    PROVE  IInv'
<1>. USE DEF ReflectSkill, Return, ByName, libraryVars, boxVars
<1>0. faults' \in 0 .. MaxFaults /\ answered' \subseteq SkillIDs \X Users \X Names
  BY CallType, RowsAre DEF IInv, TypeOK
<1>1. TypeOK'
  BY <1>0, Blanks DEF IInv, TypeOK, WorkerPCs, Contexts
<1>2. Library'
  BY <1>0, Blanks DEF IInv, TypeOK, Library
<1>3. Drawing'
  BY <1>0, Blanks DEF IInv, TypeOK, Drawing, Valid
<1>4. Resolved'
  BY <1>0, Blanks DEF IInv, TypeOK, Resolved
<1>5. Creator'
  BY <1>0, Blanks DEF IInv, TypeOK, Creator, Creates
<1>6. Empty'
  BY <1>0, Blanks DEF IInv, TypeOK, Empty
<1>7. Giving'
  BY <1>0, Blanks DEF IInv, TypeOK, Giving, Valid
<1>8. Installed'
  BY <1>0, Blanks DEF IInv, TypeOK, Installed
<1>9. Keeping'
  BY <1>0, Blanks DEF IInv, TypeOK, Keeping, Ahead
<1>10. StableSkillsInjected'
  BY <1>0, Blanks DEF IInv, TypeOK, StableSkillsInjected
<1>11. NonePushed'
  BY <1>0, Blanks DEF IInv, TypeOK, NonePushed
<1>12. PushIsOnTop'
  BY <1>0, Blanks DEF IInv, TypeOK, PushIsOnTop
<1>13. Listing'
  BY <1>0, Blanks DEF IInv, TypeOK, Listing
<1>. QED BY <1>1, <1>2, <1>3, <1>4, <1>5, <1>6, <1>7, <1>8, <1>9, <1>10, <1>11, <1>12, <1>13 DEF IInv

\* A skill is deleted under its ID.
LEMMA DeleteStep ==
    ASSUME IInv, NEW u \in Users, NEW id \in SkillIDs, DeleteSkill(u, id)
    PROVE  IInv'
<1>. USE DEF DeleteSkill, ByID, Owned, Without, boxVars, workerVars
<1>1. TypeOK'
  BY DEF IInv, TypeOK, WorkerPCs, Contexts
<1>2. Library'
  BY DEF IInv, TypeOK, Library
<1>3. Drawing'
  BY DEF IInv, TypeOK, Drawing, Valid
<1>4. Resolved'
  BY DEF IInv, TypeOK, Resolved
<1>5. Creator'
  BY DEF IInv, TypeOK, Creator, Creates
<1>6. Empty'
  BY DEF IInv, TypeOK, Empty
<1>7. Giving'
  BY DEF IInv, TypeOK, Giving, Valid
<1>8. Installed'
  BY DEF IInv, TypeOK, Installed
<1>9. Keeping'
  BY DEF IInv, TypeOK, Keeping, Ahead
<1>10. StableSkillsInjected'
  BY DEF IInv, TypeOK, StableSkillsInjected
<1>11. NonePushed'
  BY DEF IInv, TypeOK, NonePushed
<1>12. PushIsOnTop'
  BY DEF IInv, TypeOK, PushIsOnTop
<1>13. Listing'
  BY DEF IInv, TypeOK, Listing
<1>. QED BY <1>1, <1>2, <1>3, <1>4, <1>5, <1>6, <1>7, <1>8, <1>9, <1>10, <1>11, <1>12, <1>13 DEF IInv

\* The creation begins.
LEMMA CreateStep ==
    ASSUME IInv, NEW w \in Workers, NEW u \in Users, CreateEnvironment(w, u)
    PROVE  IInv'
<1>. USE DEF CreateEnvironment, Begin, libraryVars
<1>1. TypeOK'
  BY Blanks, RowsAre DEF IInv, TypeOK, WorkerPCs, Contexts
<1>2. Library'
  BY Blanks, RowsAre DEF IInv, TypeOK, Library
<1>3. Drawing'
  BY Blanks, RowsAre DEF IInv, TypeOK, Drawing, Valid
<1>4. Resolved'
  BY Blanks, RowsAre DEF IInv, TypeOK, Resolved
<1>5. Creator'
  BY Blanks, RowsAre DEF IInv, TypeOK, Creator, Creates
<1>6. Empty'
  BY Blanks, RowsAre DEF IInv, TypeOK, Empty
<1>7. Giving'
  BY Blanks, RowsAre DEF IInv, TypeOK, Giving, Valid, Creator, Creates
<1>8. Installed'
  BY Blanks, RowsAre DEF IInv, TypeOK, Installed, Empty
<1>9. Keeping'
  BY Blanks, RowsAre DEF IInv, TypeOK, Keeping, Ahead, Creator, Creates
<1>10. StableSkillsInjected'
  BY Blanks, RowsAre DEF IInv, TypeOK, StableSkillsInjected
<1>11. NonePushed'
  BY Blanks, RowsAre DEF IInv, TypeOK, NonePushed
<1>12. PushIsOnTop'
  BY Blanks, RowsAre DEF IInv, TypeOK, PushIsOnTop
<1>13. Listing'
  BY Blanks, RowsAre DEF IInv, TypeOK, Listing
<1>. QED BY <1>1, <1>2, <1>3, <1>4, <1>5, <1>6, <1>7, <1>8, <1>9, <1>10, <1>11, <1>12, <1>13 DEF IInv

\* The creation lists the library.
LEMMA ListStep ==
    ASSUME IInv, NEW w \in Workers, ListSkills(w)
    PROVE  IInv'
<1>. USE DEF ListSkills, Goto, Owned, libraryVars, boxVars
<1>0. faults' \in 0 .. MaxFaults
  BY StoreCallType DEF IInv
<1>1. TypeOK'
  BY <1>0, Blanks, RowsAre DEF IInv, TypeOK, WorkerPCs, Contexts
<1>2. Library'
  BY <1>0, Blanks, RowsAre DEF IInv, TypeOK, Library
<1>3. Drawing'
  BY <1>0, Blanks, RowsAre DEF IInv, TypeOK, Drawing, Valid
<1>4. Resolved'
  BY <1>0, Blanks, RowsAre DEF IInv, TypeOK, Resolved
<1>5. Creator'
  BY <1>0, Blanks, RowsAre DEF IInv, TypeOK, Creator, Creates
<1>6. Empty'
  BY <1>0, Blanks, RowsAre DEF IInv, TypeOK, Empty
<1>7. Giving'
  BY <1>0, Blanks, RowsAre DEF IInv, TypeOK, Giving, Valid
<1>8. Installed'
  BY <1>0, Blanks, RowsAre DEF IInv, TypeOK, Installed
<1>9. Keeping'
  <2>. SUFFICES ASSUME phase = "creating", NEW n \in kept'
                PROVE  /\ \E r \in skills : r.user = owner /\ r.name = n
                       /\ \A v \in Workers : pc'[v] \in {"load", "extract"} => Ahead(v, n)'
    BY DEF Keeping
  <2>1. n \in kept /\ user[w] = owner /\ left'[w] = {r.id : r \in {x \in skills : x.user = owner}}
    BY DEF IInv, TypeOK, Creator, Creates
  <2>2. PICK r \in skills : r.user = owner /\ r.name = n
    BY <2>1 DEF IInv, Keeping
  <2>3. \A v \in Workers : pc'[v] \in {"load", "extract"} => v = w
    BY DEF IInv, TypeOK, Creator, Creates
  <2>. QED BY <2>1, <2>2, <2>3 DEF Ahead
<1>10. StableSkillsInjected'
  BY <1>0, Blanks, RowsAre DEF IInv, TypeOK, StableSkillsInjected
<1>11. NonePushed'
  BY <1>0, Blanks, RowsAre DEF IInv, TypeOK, NonePushed
<1>12. PushIsOnTop'
  BY <1>0, Blanks, RowsAre DEF IInv, TypeOK, PushIsOnTop
<1>13. Listing'
  BY <1>0, Blanks, RowsAre DEF IInv, TypeOK, Listing
<1>. QED BY <1>1, <1>2, <1>3, <1>4, <1>5, <1>6, <1>7, <1>8, <1>9, <1>10, <1>11, <1>12, <1>13 DEF IInv

\* It loads a skill, or skips it.
LEMMA LoadStep ==
    ASSUME IInv, NEW w \in Workers, NEW id \in SkillIDs, GetSkillArchive(w, id)
    PROVE  IInv'
<1>. USE DEF GetSkillArchive, Goto, ByID, Owned, Without, libraryVars, boxVars
<1>0. faults' \in 0 .. MaxFaults
  BY StoreCallType DEF IInv
<1>1. TypeOK'
  BY <1>0, Blanks DEF IInv, TypeOK, WorkerPCs, Contexts
<1>2. Library'
  BY <1>0, Blanks DEF IInv, TypeOK, Library
<1>3. Drawing'
  BY <1>0, Blanks DEF IInv, TypeOK, Drawing, Valid
<1>4. Resolved'
  BY <1>0, Blanks DEF IInv, TypeOK, Resolved
<1>5. Creator'
  BY <1>0, Blanks DEF IInv, TypeOK, Creator, Creates
<1>6. Empty'
  BY <1>0, Blanks DEF IInv, TypeOK, Empty
<1>7. Giving'
  BY <1>0, Blanks DEF IInv, TypeOK, Giving, Valid, Library, Creator, Creates
<1>8. Installed'
  BY <1>0, Blanks DEF IInv, TypeOK, Installed
<1>9. Keeping'
  BY <1>0, Blanks DEF IInv, TypeOK, Keeping, Ahead, Library, Creator, Creates
<1>10. StableSkillsInjected'
  BY <1>0, Blanks DEF IInv, TypeOK, StableSkillsInjected
<1>11. NonePushed'
  BY <1>0, Blanks DEF IInv, TypeOK, NonePushed
<1>12. PushIsOnTop'
  BY <1>0, Blanks DEF IInv, TypeOK, PushIsOnTop
<1>13. Listing'
  BY <1>0, Blanks DEF IInv, TypeOK, Listing
<1>. QED BY <1>1, <1>2, <1>3, <1>4, <1>5, <1>6, <1>7, <1>8, <1>9, <1>10, <1>11, <1>12, <1>13 DEF IInv

\* It extracts the skill in hand.
LEMMA InjectStep ==
    ASSUME IInv, NEW w \in Workers, InjectSkill(w)
    PROVE  IInv'
<1>. USE DEF InjectSkill, Goto, Extracted, libraryVars
<1>0. /\ faults' \in 0 .. MaxFaults
      /\ row[w] \in Rows /\ Valid(row[w]) /\ row[w].name \in Names /\ row[w].archive \in Archives
      /\ phase \in {"creating", "gone"}
  BY CallType, RowsAre DEF IInv, Giving, Creator, Creates
<1>a. /\ \A n \in Names : tree[n] \subseteq tree'[n]
      /\ \A n \in Names : \A a \in tree'[n] :
            a \in tree[n] \/ (n = row[w].name /\ a = row[w].archive /\ phase # "gone")
      /\ phase # "gone" /\ row[w].name \in kept' => tree'[row[w].name] # {}
  BY <1>0, ExtractedIs DEF IInv
<1>1. TypeOK'
  BY <1>0, Blanks DEF IInv, TypeOK, WorkerPCs, Contexts
<1>2. Library'
  BY <1>0, Blanks DEF IInv, TypeOK, Library
<1>3. Drawing'
  BY <1>0, Blanks DEF IInv, TypeOK, Drawing, Valid
<1>4. Resolved'
  BY <1>0, Blanks DEF IInv, TypeOK, Resolved
<1>5. Creator'
  BY <1>0, Blanks DEF IInv, TypeOK, Creator, Creates
<1>6. Empty'
  BY <1>0, Blanks DEF IInv, TypeOK, Empty
<1>7. Giving'
  BY <1>0, Blanks DEF IInv, TypeOK, Giving, Valid
<1>8. Installed'
  BY <1>0, <1>a DEF IInv, Installed, Giving, Valid
<1>9. Keeping'
  <2>. SUFFICES ASSUME phase = "creating", NEW n \in kept'
                PROVE  /\ \E r \in skills : r.user = owner /\ r.name = n
                       /\ \A v \in Workers : pc'[v] \in {"load", "extract"} => tree'[n] # {} \/ Ahead(v, n)
    BY DEF Keeping, Ahead
  <2>1. n \in kept /\ n \in Names
    BY DEF IInv, TypeOK
  <2>2. \A v \in Workers : pc'[v] \in {"load", "extract"} => v = w
    BY DEF IInv, TypeOK, Creator, Creates
  <2>. QED BY <1>a, <2>1, <2>2 DEF IInv, Keeping
<1>10. StableSkillsInjected'
  BY <1>0, Blanks DEF IInv, TypeOK, StableSkillsInjected
<1>11. NonePushed'
  BY <1>0, Blanks DEF IInv, TypeOK, NonePushed
<1>12. PushIsOnTop'
  BY <1>0, Blanks DEF IInv, TypeOK, PushIsOnTop
<1>13. Listing'
  BY <1>0, Blanks DEF IInv, TypeOK, Listing
<1>. QED BY <1>1, <1>2, <1>3, <1>4, <1>5, <1>6, <1>7, <1>8, <1>9, <1>10, <1>11, <1>12, <1>13 DEF IInv

\* The loop is over.
LEMMA RunStep ==
    ASSUME IInv, NEW w \in Workers, MarkRunning(w)
    PROVE  IInv'
<1>. USE DEF MarkRunning, Return, libraryVars, historyVars
<1>0. faults' \in 0 .. MaxFaults
  BY StoreCallType DEF IInv
<1>1. TypeOK'
  BY <1>0, Blanks DEF IInv, TypeOK, WorkerPCs, Contexts
<1>2. Library'
  BY <1>0, Blanks DEF IInv, TypeOK, Library
<1>3. Drawing'
  BY <1>0, Blanks DEF IInv, TypeOK, Drawing, Valid
<1>4. Resolved'
  BY <1>0, Blanks DEF IInv, TypeOK, Resolved
<1>5. Creator'
  BY <1>0, Blanks DEF IInv, TypeOK, Creator, Creates
<1>6. Empty'
  BY <1>0, Blanks DEF IInv, TypeOK, Empty
<1>7. Giving'
  BY <1>0, Blanks DEF IInv, TypeOK, Giving, Valid
<1>8. Installed'
  BY <1>0, Blanks DEF IInv, TypeOK, Installed
<1>9. Keeping'
  BY <1>0, Blanks DEF IInv, TypeOK, Keeping, Ahead
<1>10. StableSkillsInjected'
  BY <1>0, Blanks DEF IInv, TypeOK, StableSkillsInjected, Keeping, Ahead
<1>11. NonePushed'
  BY <1>0, Blanks DEF IInv, TypeOK, NonePushed
<1>12. PushIsOnTop'
  BY <1>0, Blanks DEF IInv, TypeOK, PushIsOnTop, NonePushed
<1>13. Listing'
  BY <1>0, Blanks DEF IInv, TypeOK, Listing
<1>. QED BY <1>1, <1>2, <1>3, <1>4, <1>5, <1>6, <1>7, <1>8, <1>9, <1>10, <1>11, <1>12, <1>13 DEF IInv

\* The environment goes, with all that is in it.
LEMMA DestroyStep ==
    ASSUME IInv, DestroyEnvironment
    PROVE  IInv'
<1>. USE DEF DestroyEnvironment, libraryVars
<1>1. TypeOK'
  BY DEF IInv, TypeOK, WorkerPCs, Contexts
<1>2. Library'
  BY DEF IInv, TypeOK, Library
<1>3. Drawing'
  BY DEF IInv, TypeOK, Drawing, Valid
<1>4. Resolved'
  BY DEF IInv, TypeOK, Resolved
<1>5. Creator'
  BY DEF IInv, TypeOK, Creator, Creates
<1>6. Empty'
  BY DEF IInv, TypeOK, Empty
<1>7. Giving'
  BY DEF IInv, TypeOK, Giving, Valid
<1>8. Installed'
  BY DEF IInv, TypeOK, Installed
<1>9. Keeping'
  BY DEF IInv, TypeOK, Keeping, Ahead
<1>10. StableSkillsInjected'
  BY DEF IInv, TypeOK, StableSkillsInjected
<1>11. NonePushed'
  BY DEF IInv, TypeOK, NonePushed
<1>12. PushIsOnTop'
  BY DEF IInv, TypeOK, PushIsOnTop
<1>13. Listing'
  BY DEF IInv, TypeOK, Listing
<1>. QED BY <1>1, <1>2, <1>3, <1>4, <1>5, <1>6, <1>7, <1>8, <1>9, <1>10, <1>11, <1>12, <1>13 DEF IInv

\* A push is accepted only while the environment is running.
LEMMA InstallStep ==
    ASSUME IInv, NEW w \in Workers, NEW r \in Pushes, InstallSkill(w, r)
    PROVE  IInv'
<1>. USE DEF InstallSkill, Begin, ValidateSkillName, DecompressAndValidate, GetRunningEnv, libraryVars, boxVars
<1>0. Valid(r) /\ r.user \in Users /\ r.name \in Names /\ r.archive \in Archives
  BY RowsAre DEF Valid
<1>1. TypeOK'
  BY <1>0, Blanks DEF IInv, TypeOK, WorkerPCs, Contexts
<1>2. Library'
  BY <1>0, Blanks DEF IInv, TypeOK, Library
<1>3. Drawing'
  BY <1>0, Blanks DEF IInv, TypeOK, Drawing, Valid
<1>4. Resolved'
  BY <1>0, Blanks DEF IInv, TypeOK, Resolved
<1>5. Creator'
  BY <1>0, Blanks DEF IInv, TypeOK, Creator, Creates
<1>6. Empty'
  BY <1>0, Blanks DEF IInv, TypeOK, Empty
<1>7. Giving'
  BY <1>0, Blanks DEF IInv, TypeOK, Giving, Valid
<1>8. Installed'
  BY <1>0, Blanks DEF IInv, TypeOK, Installed
<1>9. Keeping'
  BY <1>0, Blanks DEF IInv, TypeOK, Keeping, Ahead
<1>10. StableSkillsInjected'
  BY <1>0, Blanks DEF IInv, TypeOK, StableSkillsInjected
<1>11. NonePushed'
  BY <1>0, Blanks DEF IInv, TypeOK, NonePushed
<1>12. PushIsOnTop'
  BY <1>0, Blanks DEF IInv, TypeOK, PushIsOnTop
<1>13. Listing'
  BY <1>0, Blanks DEF IInv, TypeOK, Listing
<1>. QED BY <1>1, <1>2, <1>3, <1>4, <1>5, <1>6, <1>7, <1>8, <1>9, <1>10, <1>11, <1>12, <1>13 DEF IInv

\* It extracts on top of what is there.
LEMMA PushStep ==
    ASSUME IInv, NEW w \in Workers, PushSkill(w)
    PROVE  IInv'
<1>. USE DEF PushSkill, Return, Extracted, libraryVars
<1>0. /\ faults' \in 0 .. MaxFaults
      /\ row[w] \in Pushes /\ Valid(row[w]) /\ row[w].name \in Names /\ row[w].archive \in Archives
      /\ phase \in {"running", "gone"}
      /\ phase = "running" => <<row[w].name, row[w].archive>> \in given
  BY CallType, RowsAre DEF IInv, Giving
<1>a. \A n \in Names : \A a \in tree'[n] :
            a \in tree[n] \/ (n = row[w].name /\ a = row[w].archive /\ phase # "gone")
  BY <1>0, ExtractedIs DEF IInv
<1>1. TypeOK'
  BY <1>0, Blanks DEF IInv, TypeOK, WorkerPCs, Contexts
<1>2. Library'
  BY <1>0, Blanks DEF IInv, TypeOK, Library
<1>3. Drawing'
  BY <1>0, Blanks DEF IInv, TypeOK, Drawing, Valid
<1>4. Resolved'
  BY <1>0, Blanks DEF IInv, TypeOK, Resolved
<1>5. Creator'
  BY <1>0, Blanks DEF IInv, TypeOK, Creator, Creates
<1>6. Empty'
  BY <1>0, Blanks DEF IInv, TypeOK, Empty
<1>7. Giving'
  BY <1>0, Blanks DEF IInv, TypeOK, Giving, Valid
<1>8. Installed'
  BY <1>0, <1>a DEF IInv, Installed, Valid
<1>9. Keeping'
  BY <1>0, Blanks DEF IInv, TypeOK, Keeping, Ahead
<1>10. StableSkillsInjected'
  BY <1>0, Blanks DEF IInv, TypeOK, StableSkillsInjected
<1>11. NonePushed'
  BY <1>0, Blanks DEF IInv, TypeOK, NonePushed
<1>12. PushIsOnTop'
  BY <1>0, Blanks DEF IInv, TypeOK, PushIsOnTop
<1>13. Listing'
  BY <1>0, Blanks DEF IInv, TypeOK, Listing
<1>. QED BY <1>1, <1>2, <1>3, <1>4, <1>5, <1>6, <1>7, <1>8, <1>9, <1>10, <1>11, <1>12, <1>13 DEF IInv

\* A listing begins.
LEMMA LsStep ==
    ASSUME IInv, NEW w \in Workers, NEW u \in Users, ListInstalledSkills(w, u)
    PROVE  IInv'
<1>. USE DEF ListInstalledSkills, Begin, libraryVars, boxVars, historyVars
<1>1. TypeOK'
  BY Blanks DEF IInv, TypeOK, WorkerPCs, Contexts
<1>2. Library'
  BY Blanks DEF IInv, TypeOK, Library
<1>3. Drawing'
  BY Blanks DEF IInv, TypeOK, Drawing, Valid
<1>4. Resolved'
  BY Blanks DEF IInv, TypeOK, Resolved
<1>5. Creator'
  BY Blanks DEF IInv, TypeOK, Creator, Creates
<1>6. Empty'
  BY Blanks DEF IInv, TypeOK, Empty
<1>7. Giving'
  BY Blanks DEF IInv, TypeOK, Giving, Valid
<1>8. Installed'
  BY Blanks DEF IInv, TypeOK, Installed
<1>9. Keeping'
  BY Blanks DEF IInv, TypeOK, Keeping, Ahead
<1>10. StableSkillsInjected'
  BY Blanks DEF IInv, TypeOK, StableSkillsInjected
<1>11. NonePushed'
  BY Blanks DEF IInv, TypeOK, NonePushed
<1>12. PushIsOnTop'
  BY Blanks DEF IInv, TypeOK, PushIsOnTop
<1>13. Listing'
  BY Blanks DEF IInv, TypeOK, Listing
<1>. QED BY <1>1, <1>2, <1>3, <1>4, <1>5, <1>6, <1>7, <1>8, <1>9, <1>10, <1>11, <1>12, <1>13 DEF IInv

\* It finds the directories.
LEMMA ListFilesStep ==
    ASSUME IInv, NEW w \in Workers, ListFiles(w)
    PROVE  IInv'
<1>. USE DEF ListFiles, Goto, libraryVars, boxVars, historyVars
<1>0. faults' \in 0 .. MaxFaults
  BY CallType DEF IInv
<1>1. TypeOK'
  BY <1>0, Blanks DEF IInv, TypeOK, WorkerPCs, Contexts
<1>2. Library'
  BY <1>0, Blanks DEF IInv, TypeOK, Library
<1>3. Drawing'
  BY <1>0, Blanks DEF IInv, TypeOK, Drawing, Valid
<1>4. Resolved'
  BY <1>0, Blanks DEF IInv, TypeOK, Resolved
<1>5. Creator'
  BY <1>0, Blanks DEF IInv, TypeOK, Creator, Creates
<1>6. Empty'
  BY <1>0, Blanks DEF IInv, TypeOK, Empty
<1>7. Giving'
  BY <1>0, Blanks DEF IInv, TypeOK, Giving, Valid
<1>8. Installed'
  BY <1>0, Blanks DEF IInv, TypeOK, Installed
<1>9. Keeping'
  BY <1>0, Blanks DEF IInv, TypeOK, Keeping, Ahead
<1>10. StableSkillsInjected'
  BY <1>0, Blanks DEF IInv, TypeOK, StableSkillsInjected
<1>11. NonePushed'
  BY <1>0, Blanks DEF IInv, TypeOK, NonePushed
<1>12. PushIsOnTop'
  BY <1>0, Blanks DEF IInv, TypeOK, PushIsOnTop
<1>13. Listing'
  BY <1>0, Blanks DEF IInv, TypeOK, Listing
<1>. QED BY <1>1, <1>2, <1>3, <1>4, <1>5, <1>6, <1>7, <1>8, <1>9, <1>10, <1>11, <1>12, <1>13 DEF IInv

\* It reads the manifest of one.
LEMMA ReadStep ==
    ASSUME IInv, NEW w \in Workers, NEW n \in Names, ReadManifest(w, n)
    PROVE  IInv'
<1>. USE DEF ReadManifest, Goto, libraryVars, boxVars, historyVars
<1>0. faults' \in 0 .. MaxFaults
  BY CallType DEF IInv
<1>1. TypeOK'
  BY <1>0, Blanks DEF IInv, TypeOK, WorkerPCs, Contexts
<1>2. Library'
  BY <1>0, Blanks DEF IInv, TypeOK, Library
<1>3. Drawing'
  BY <1>0, Blanks DEF IInv, TypeOK, Drawing, Valid
<1>4. Resolved'
  BY <1>0, Blanks DEF IInv, TypeOK, Resolved
<1>5. Creator'
  BY <1>0, Blanks DEF IInv, TypeOK, Creator, Creates
<1>6. Empty'
  BY <1>0, Blanks DEF IInv, TypeOK, Empty
<1>7. Giving'
  BY <1>0, Blanks DEF IInv, TypeOK, Giving, Valid
<1>8. Installed'
  BY <1>0, Blanks DEF IInv, TypeOK, Installed
<1>9. Keeping'
  BY <1>0, Blanks DEF IInv, TypeOK, Keeping, Ahead
<1>10. StableSkillsInjected'
  BY <1>0, Blanks DEF IInv, TypeOK, StableSkillsInjected
<1>11. NonePushed'
  BY <1>0, Blanks DEF IInv, TypeOK, NonePushed
<1>12. PushIsOnTop'
  BY <1>0, Blanks DEF IInv, TypeOK, PushIsOnTop
<1>13. Listing'
  BY <1>0, Blanks DEF IInv, TypeOK, Listing
<1>. QED BY <1>1, <1>2, <1>3, <1>4, <1>5, <1>6, <1>7, <1>8, <1>9, <1>10, <1>11, <1>12, <1>13 DEF IInv

\* It answers.
LEMMA AnswerStep ==
    ASSUME IInv, NEW w \in Workers, AnswerListing(w)
    PROVE  IInv'
<1>. USE DEF AnswerListing, Return, libraryVars, boxVars, historyVars
<1>1. TypeOK'
  BY Blanks DEF IInv, TypeOK, WorkerPCs, Contexts
<1>2. Library'
  BY Blanks DEF IInv, TypeOK, Library
<1>3. Drawing'
  BY Blanks DEF IInv, TypeOK, Drawing, Valid
<1>4. Resolved'
  BY Blanks DEF IInv, TypeOK, Resolved
<1>5. Creator'
  BY Blanks DEF IInv, TypeOK, Creator, Creates
<1>6. Empty'
  BY Blanks DEF IInv, TypeOK, Empty
<1>7. Giving'
  BY Blanks DEF IInv, TypeOK, Giving, Valid
<1>8. Installed'
  BY Blanks DEF IInv, TypeOK, Installed
<1>9. Keeping'
  BY Blanks DEF IInv, TypeOK, Keeping, Ahead
<1>10. StableSkillsInjected'
  BY Blanks DEF IInv, TypeOK, StableSkillsInjected
<1>11. NonePushed'
  BY Blanks DEF IInv, TypeOK, NonePushed
<1>12. PushIsOnTop'
  BY Blanks DEF IInv, TypeOK, PushIsOnTop
<1>13. Listing'
  BY Blanks DEF IInv, TypeOK, Listing
<1>. QED BY <1>1, <1>2, <1>3, <1>4, <1>5, <1>6, <1>7, <1>8, <1>9, <1>10, <1>11, <1>12, <1>13 DEF IInv

\* A client goes away.
LEMMA CancelStep ==
    ASSUME IInv, NEW w \in Workers, CancelContext(w)
    PROVE  IInv'
<1>. USE DEF CancelContext, libraryVars, boxVars, workerVars, historyVars
<1>1. TypeOK'
  BY DEF IInv, TypeOK, WorkerPCs, Contexts
<1>2. Library'
  BY DEF IInv, TypeOK, Library
<1>3. Drawing'
  BY DEF IInv, TypeOK, Drawing, Valid
<1>4. Resolved'
  BY DEF IInv, TypeOK, Resolved
<1>5. Creator'
  BY DEF IInv, TypeOK, Creator, Creates
<1>6. Empty'
  BY DEF IInv, TypeOK, Empty
<1>7. Giving'
  BY DEF IInv, TypeOK, Giving, Valid
<1>8. Installed'
  BY DEF IInv, TypeOK, Installed
<1>9. Keeping'
  BY DEF IInv, TypeOK, Keeping, Ahead
<1>10. StableSkillsInjected'
  BY DEF IInv, TypeOK, StableSkillsInjected
<1>11. NonePushed'
  BY DEF IInv, TypeOK, NonePushed
<1>12. PushIsOnTop'
  BY DEF IInv, TypeOK, PushIsOnTop
<1>13. Listing'
  BY DEF IInv, TypeOK, Listing
<1>. QED BY <1>1, <1>2, <1>3, <1>4, <1>5, <1>6, <1>7, <1>8, <1>9, <1>10, <1>11, <1>12, <1>13 DEF IInv

\* Nothing happens.
LEMMA StutterStep ==
    ASSUME IInv, UNCHANGED vars
    PROVE  IInv'
<1>. USE DEF vars, libraryVars, boxVars, workerVars, historyVars
<1>1. TypeOK'
  BY DEF IInv, TypeOK, WorkerPCs, Contexts
<1>2. Library'
  BY DEF IInv, TypeOK, Library
<1>3. Drawing'
  BY DEF IInv, TypeOK, Drawing, Valid
<1>4. Resolved'
  BY DEF IInv, TypeOK, Resolved
<1>5. Creator'
  BY DEF IInv, TypeOK, Creator, Creates
<1>6. Empty'
  BY DEF IInv, TypeOK, Empty
<1>7. Giving'
  BY DEF IInv, TypeOK, Giving, Valid
<1>8. Installed'
  BY DEF IInv, TypeOK, Installed
<1>9. Keeping'
  BY DEF IInv, TypeOK, Keeping, Ahead
<1>10. StableSkillsInjected'
  BY DEF IInv, TypeOK, StableSkillsInjected
<1>11. NonePushed'
  BY DEF IInv, TypeOK, NonePushed
<1>12. PushIsOnTop'
  BY DEF IInv, TypeOK, PushIsOnTop
<1>13. Listing'
  BY DEF IInv, TypeOK, Listing
<1>. QED BY <1>1, <1>2, <1>3, <1>4, <1>5, <1>6, <1>7, <1>8, <1>9, <1>10, <1>11, <1>12, <1>13 DEF IInv

-----------------------------------------------------------------------------
(* The theorems.                                                           *)

\* Every step of the library, of the creation and of the environment keeps
\* what the others rely on.
THEOREM Invariance == Spec => []IInv
<1>1. IInv /\ [Next]_vars => IInv'
  <2>. SUFFICES ASSUME IInv, [Next]_vars PROVE IInv'
    OBVIOUS
  <2>1. ASSUME NEW w \in Workers, Handler(w) PROVE IInv'
    BY <2>1, UpsertStep, ReflectStep, ListStep, LoadStep, InjectStep, RunStep, PushStep, ListFilesStep, ReadStep,
       AnswerStep, CancelStep DEF Handler
  <2>2. CASE UNCHANGED vars
    BY <2>2, StutterStep
  <2>3. CASE Next
    BY <2>1, <2>3, RegisterStep, InstallStep, CreateStep, LsStep, DeleteStep, DestroyStep DEF Next
  <2>. QED BY <2>2, <2>3
<1>. QED BY Initially, <1>1, PTL DEF Spec

\* An ID answered by POST /v1/skills is the ID of the user's only skill of
\* that name until it is deleted: the second statement of UpsertSkill may see
\* another's registration, never an ID that is not stored.
THEOREM AnsweredIdsAlwaysResolve == Spec => []AnsweredIdsResolve
<1>1. IInv => AnsweredIdsResolve
  <2>. SUFFICES ASSUME IInv, NEW a \in answered PROVE {r.id : r \in ByName(a[2], a[3])} = {a[1]}
    BY DEF AnsweredIdsResolve
  <2>1. PICK r \in skills : r.id = a[1] /\ r.user = a[2] /\ r.name = a[3]
    BY DEF IInv, Resolved
  <2>2. ByName(a[2], a[3]) = {r}
    BY <2>1 DEF ByName, IInv, Library
  <2>. QED BY <2>1, <2>2
<1>. QED BY Invariance, <1>1, PTL

\* Only validated archives of the owner are extracted into an environment, by
\* injectSkills, which does not validate, as by InstallSkill, which does.
THEOREM InstalledAlwaysOwners == Spec => []InstalledIsOwners
<1>1. IInv => InstalledIsOwners
  BY DEF IInv, Installed, InstalledIsOwners
<1>. QED BY Invariance, <1>1, PTL

\* What is in the library throughout a creation is installed when the
\* environment is running, unless one of its own calls or the listing failed.
THEOREM StableSkillsAlwaysInjected == Spec => []StableSkillsInjected
<1>1. IInv => StableSkillsInjected
  BY DEF IInv
<1>. QED BY Invariance, <1>1, PTL

\* No injection comes after a push.
THEOREM PushAlwaysOnTop == Spec => []PushIsOnTop
<1>1. IInv => PushIsOnTop
  BY DEF IInv
<1>. QED BY Invariance, <1>1, PTL

\* A listing that answers has found what was installed when it began, but for
\* what its own calls failed for.
THEOREM ListingAlwaysComplete == Spec => []ListingComplete
<1>1. IInv => ListingComplete
  BY DEF IInv, TypeOK, Listing, ListingComplete, Listed
<1>. QED BY Invariance, <1>1, PTL
=============================================================================
