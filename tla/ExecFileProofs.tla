--------------------------- MODULE ExecFileProofs ----------------------------
(***************************************************************************)
(* What is proved about the exec and the file endpoints.                   *)
(*                                                                         *)
(* A command run over HTTP, for any amount of output and any window: what  *)
(* the client's Exec returns without an error is complete and has an exit  *)
(* code.                                                                   *)
(*                                                                         *)
(* The files of a container, for any names, any limit, paths of any length *)
(* and trees of any depth: a cleaned path is the place the client's own    *)
(* spelling leads to, an archive that was validated stays in its           *)
(* directory, and the answers agree with the tree.                         *)
(***************************************************************************)
EXTENDS ExecStream, Files, SequenceTheorems, WellFoundedInduction, TLAPS

-----------------------------------------------------------------------------
(* A command run over HTTP.                                                *)

\* How the response goes with the position of the handler.
ResponseOK ==
    /\ pc = "start" => response = "none" /\ process = "unborn" /\ link = "none"
    /\ pc \in {"read", "send", "inspect", "tell"} => /\ response = "streaming"
                                                     /\ process # "unborn"
                                                     /\ link \in {"up", "lost"}
    /\ pc = "returned" => response \in {"refused", "ended"}

\* In the loop, every frame that was read has been sent, but for the one in
\* hand.
LoopOK ==
    /\ pc \in {"start", "read"} => sent = taken
    /\ pc = "send" => sent + 1 = taken

\* The loop has been left on the end of the stream, unless the client or the
\* daemon's connection failed.
DrainedOK ==
    pc \in {"inspect", "tell"} \/ response = "ended" =>
        \/ client = "failed" \/ link = "lost"
        \/ process = "exited" /\ sent = produced

\* The exit code that was obtained, and the one that was sent.
CodeOK ==
    /\ pc = "tell" => code # "none"
    /\ pc = "tell" /\ code = "alive" => client = "failed" \/ link = "lost"
    /\ response = "ended" => told # "none"
    /\ response = "ended" /\ told = "alive" => client = "failed" \/ link = "lost"

ClientOK == client = "answered" => response = "ended" /\ got = sent

IInv == TypeOK /\ ResponseOK /\ LoopOK /\ DrainedOK /\ CodeOK /\ ClientOK

LEMMA InitInv == Init => IInv
BY StreamAssumption
   DEF Init, IInv, TypeOK, ResponseOK, LoopOK, DrainedOK, CodeOK, ClientOK, Codes

LEMMA HandlerInv == IInv /\ HandlerStep => IInv'
<1> SUFFICES ASSUME IInv, HandlerStep PROVE IInv'
    OBVIOUS
<1> USE StreamAssumption DEF IInv, TypeOK, ResponseOK, LoopOK, DrainedOK, CodeOK, ClientOK,
        processVars, clientVars, Codes
<1>1. CASE StartExec
    BY <1>1 DEF StartExec
<1>2. CASE ReadFrame
    BY <1>2 DEF ReadFrame
<1>3. CASE SendFrame
    BY <1>3 DEF SendFrame
<1>4. CASE ExitCode
    BY <1>4 DEF ExitCode
<1>5. CASE SendExit
    BY <1>5 DEF SendExit
<1> QED  BY <1>1, <1>2, <1>3, <1>4, <1>5 DEF HandlerStep

LEMMA ClientInv == IInv /\ ClientStep => IInv'
<1> SUFFICES ASSUME IInv, ClientStep PROVE IInv'
    OBVIOUS
<1> USE StreamAssumption DEF IInv, TypeOK, ResponseOK, LoopOK, DrainedOK, CodeOK, ClientOK,
        processVars, handlerVars, Codes
<1>1. CASE ClientReads
    BY <1>1 DEF ClientReads
<1>2. CASE ClientEnds
    BY <1>2 DEF ClientEnds
<1> QED  BY <1>1, <1>2 DEF ClientStep

LEMMA WorldInv == IInv /\ World => IInv'
<1> SUFFICES ASSUME IInv, World PROVE IInv'
    OBVIOUS
<1> USE StreamAssumption DEF IInv, TypeOK, ResponseOK, LoopOK, DrainedOK, CodeOK, ClientOK,
        processVars, handlerVars, clientVars, Codes
<1>1. CASE ProcessWrites
    BY <1>1 DEF ProcessWrites
<1>2. CASE ProcessExits
    BY <1>2 DEF ProcessExits
<1>3. CASE LinkLost
    BY <1>3 DEF LinkLost
<1>4. CASE ClientLeaves
    BY <1>4 DEF ClientLeaves
<1>5. CASE TimerFires
    BY <1>5 DEF TimerFires
<1>6. CASE GoneNoticed
    BY <1>6 DEF GoneNoticed
<1> QED  BY <1>1, <1>2, <1>3, <1>4, <1>5, <1>6 DEF World

LEMMA Invariance == Spec => []IInv
<1>1. IInv /\ [Next]_vars => IInv'
    <2> SUFFICES ASSUME IInv, [Next]_vars PROVE IInv'
        OBVIOUS
    <2>1. CASE UNCHANGED vars
        BY <2>1 DEF vars, processVars, handlerVars, clientVars, IInv, TypeOK, ResponseOK,
            LoopOK, DrainedOK, CodeOK, ClientOK
    <2> QED  BY <2>1, HandlerInv, ClientInv, WorldInv DEF Next, Rest
<1> QED  BY <1>1, InitInv, PTL DEF Spec

\* The types of the state: events are never more than frames read, nor frames
\* read than frames written.
THEOREM StreamTypes == Spec => []TypeOK
<1>1. IInv => TypeOK
    BY DEF IInv
<1> QED  BY <1>1, Invariance, PTL

\* An Exec that returns a result returns all of the output of a process that
\* has exited, unless the connection to the daemon broke.
THEOREM CompleteAnswer == Spec => []AnswerIsComplete
<1>1. IInv => AnswerIsComplete
    BY DEF IInv, DrainedOK, ClientOK, AnswerIsComplete
<1> QED  BY <1>1, Invariance, PTL

\* Its exit code is the process's own or -1, or the connection to the daemon
\* broke.
THEOREM AnswerWithExit == Spec => []AnswerHasExit
<1>1. IInv => AnswerHasExit
    BY DEF IInv, TypeOK, CodeOK, ClientOK, AnswerHasExit, Codes
<1> QED  BY <1>1, Invariance, PTL

-----------------------------------------------------------------------------
(* Induction.  A least element takes the place of an induction rule.       *)

\* Every set of naturals that is not empty has a least element: the
\* well-foundedness of the library, for sets in place of operators.
LEMMA Least ==
    ASSUME NEW T \in SUBSET Nat, T # {}
    PROVE  \E x \in T : \A y \in T : x <= y
<1>1. IsWellFoundedOn({ss \in Nat \X Nat : ss[1] < ss[2]}, Nat)
    BY NatLessThanWellFounded, Zenon DEF OpToRel
<1>2. PICK x \in T : \A y \in T : <<y, x>> \notin {ss \in Nat \X Nat : ss[1] < ss[2]}
    BY <1>1, WFMin
<1>3. ASSUME NEW y \in T PROVE x <= y
    <2>1. <<y, x>> \notin {ss \in Nat \X Nat : ss[1] < ss[2]}
        BY <1>2
    <2> QED BY <2>1
<1> QED BY <1>3

\* Induction over the positions of a sequence, with the claim as a set.
LEMMA UpTo ==
    ASSUME NEW n \in Nat, NEW T,
           0 \in T, \A i \in 0 .. n - 1 : i \in T => i + 1 \in T
    PROVE  n \in T
<1> DEFINE Bad == {i \in 0 .. n : i \notin T}
<1> SUFFICES ASSUME n \notin T PROVE FALSE
    OBVIOUS
<1>0. Bad \in SUBSET Nat /\ Bad # {}
    OBVIOUS
<1>1. PICK x \in Bad : \A y \in Bad : x <= y
    <2> HIDE DEF Bad
    <2> QED BY <1>0, Least
<1>2. x # 0 /\ x - 1 \in 0 .. n - 1
    OBVIOUS
<1>3. x - 1 \notin Bad
    BY <1>1, <1>2
<1> QED BY <1>2, <1>3

\* The values that F gives one after another along a sequence, from x0 on.
IsTrace(g, F, x0, segs) ==
    g[0] = x0 /\ \A i \in 1 .. Len(segs) : g[i] = F[<<g[i - 1], segs[i]>>]

\* A function of the positions of a sequence that is defined from the value at
\* the position before exists.
LEMMA StepsExist ==
    ASSUME NEW X, NEW Y, NEW F \in [X \X Y -> X], NEW x0 \in X, NEW segs \in Seq(Y)
    PROVE  \E g \in [0 .. Len(segs) -> X] : IsTrace(g, F, x0, segs)
<1> DEFINE n == Len(segs)
           Ok(g, m) == \A i \in 0 .. m : g[i] = IF i = 0 THEN x0 ELSE F[<<g[i - 1], segs[i]>>]
           T == {m \in 0 .. n : \E g \in [0 .. m -> X] : Ok(g, m)}
<1>0. n \in Nat /\ \A i \in 1 .. n : segs[i] \in Y
    BY LenProperties
<1> HIDE DEF n
<1>1. 0 \in T
    <2> DEFINE g == [i \in 0 .. 0 |-> x0]
    <2>1. g \in [0 .. 0 -> X] /\ Ok(g, 0)
        OBVIOUS
    <2> HIDE DEF g, Ok
    <2> QED BY <2>1, <1>0
<1>2. ASSUME NEW i \in 0 .. n - 1, i \in T PROVE i + 1 \in T
    <2>1. PICK g \in [0 .. i -> X] : Ok(g, i)
        BY <1>2
    <2> DEFINE v == F[<<g[i], segs[i + 1]>>]
               h == [j \in 0 .. i + 1 |-> IF j = i + 1 THEN v ELSE g[j]]
    <2>2. i \in Nat /\ i + 1 \in 1 .. n /\ v \in X
        BY <1>0
    <2>3. h \in [0 .. i + 1 -> X]
        BY <1>0, <2>2
    <2>4. ASSUME NEW j \in 0 .. i + 1
          PROVE  h[j] = IF j = 0 THEN x0 ELSE F[<<h[j - 1], segs[j]>>]
        <3>1. CASE j = i + 1
            <4>1. h[j] = v /\ h[j - 1] = g[i] /\ j # 0
                BY <3>1, <2>2
            <4> HIDE DEF h
            <4> QED BY <4>1, <3>1
        <3>2. CASE j = 0
            <4>1. h[0] = g[0]
                BY <2>2
            <4>2. 0 \in 0 .. i
                BY <2>2
            <4>3. g[0] = x0
                BY <2>1, <4>2
            <4> HIDE DEF h
            <4> QED BY <4>1, <4>3, <3>2
        <3>3. CASE j \in 1 .. i
            <4>1. h[j] = g[j] /\ h[j - 1] = g[j - 1] /\ j # 0
                BY <3>3, <2>2
            <4>2. g[j] = F[<<g[j - 1], segs[j]>>]
                BY <2>1, <3>3, <2>2
            <4> QED BY <4>1, <4>2
        <3> QED BY <3>1, <3>2, <3>3
    <2>5. Ok(h, i + 1)
        BY <2>4
    <2> HIDE DEF h, Ok
    <2>6. i + 1 \in 0 .. n
        BY <1>0, <2>2
    <2> QED BY <2>3, <2>5, <2>6
<1>3. n \in T
    <2> HIDE DEF T
    <2> QED BY <1>0, <1>1, <1>2, UpTo
<1>4. PICK g \in [0 .. n -> X] : Ok(g, n)
    BY <1>3
<1>5. g[0] = x0 /\ \A i \in 1 .. n : g[i] = F[<<g[i - 1], segs[i]>>]
    <2>1. 0 \in 0 .. n /\ \A i \in 1 .. n : i \in 0 .. n /\ i # 0
        BY <1>0
    <2> QED BY <1>4, <2>1
<1> QED BY <1>5 DEF n, IsTrace

-----------------------------------------------------------------------------
(* Cleaning a path, step by step.                                          *)

\* The last name of a path and what is in front of it.
LEMMA FrontLast ==
    ASSUME NEW S, NEW s \in Seq(S), s # <<>>
    PROVE  /\ Front(s) \in Seq(S) /\ Len(Front(s)) = Len(s) - 1
           /\ \A i \in 1 .. Len(s) - 1 : Front(s)[i] = s[i]
           /\ Len(s) \in Nat \ {0} /\ Last(s) \in S /\ s = Append(Front(s), Last(s))
<1>1. Len(s) \in Nat \ {0} /\ s \in [1 .. Len(s) -> S]
    BY EmptySeq, LenProperties
<1>2. /\ Front(s) \in Seq(S) /\ Len(Front(s)) = Len(s) - 1
      /\ \A i \in 1 .. Len(s) - 1 : Front(s)[i] = s[i]
    BY <1>1, SubSeqProperties DEF Front
<1>3. Last(s) \in S
    BY <1>1 DEF Last
<1>4. s = Append(Front(s), Last(s))
    <2> DEFINE f == Front(s)
               l == Last(s)
               t == Append(f, l)
    <2>1. /\ t \in Seq(S) /\ Len(t) = Len(s)
          /\ \A i \in 1 .. Len(f) : t[i] = f[i]
          /\ t[Len(f) + 1] = l
        <3> HIDE DEF f, l
        <3>1. f \in Seq(S) /\ l \in S /\ Len(f) = Len(s) - 1
            BY <1>2, <1>3 DEF f, l
        <3>2. /\ t \in Seq(S) /\ Len(t) = Len(f) + 1
              /\ \A i \in 1 .. Len(f) : t[i] = f[i]
              /\ t[Len(f) + 1] = l
            BY <3>1, AppendProperties
        <3> QED BY <3>1, <3>2, <1>1
    <2>2. ASSUME NEW i \in 1 .. Len(s) PROVE t[i] = s[i]
        <3> HIDE DEF t
        <3>1. CASE i = Len(s)
            BY <3>1, <1>1, <1>2, <2>1 DEF Last
        <3>2. CASE i \in 1 .. Len(s) - 1
            BY <3>2, <1>1, <1>2, <2>1
        <3>3. \A k \in Nat \ {0} : \A j \in 1 .. k : j = k \/ j \in 1 .. k - 1
            OBVIOUS
        <3> QED BY <3>1, <3>2, <3>3, <1>1
    <2> HIDE DEF t
    <2>3. t = s
        BY <2>1, <2>2, SeqEqual
    <2> QED BY <2>3 DEF t
<1> QED BY <1>1, <1>2, <1>3, <1>4

\* What a path may hold beside names is no name.
LEMMA NotNames == Names \cap Stays = {} /\ ".." \notin Names /\ ".." \notin Stays
<1>1. ".." \notin Names /\ \A s \in Stays : s \notin Names
    BY NamesAssumption, Zenon DEF Stays
<1>2. ".." \notin Stays
    BY Zenon DEF Stays
<1> QED BY <1>1, <1>2

\* Cleaning a path of segments leaves a sequence of segments.
LEMMA CleanStepType ==
    ASSUME NEW rooted \in BOOLEAN, NEW out \in Seq(Segments), NEW s \in Segments
    PROVE  CleanStep(rooted, out, s) \in Seq(Segments)
<1>1. Append(out, s) \in Seq(Segments)
    BY AppendProperties
<1>2. out # <<>> => Front(out) \in Seq(Segments)
    BY FrontLast
<1>3. Append(out, "..") \in Seq(Segments)
    BY AppendProperties DEF Segments
<1> QED BY <1>1, <1>2, <1>3 DEF CleanStep

\* The values on the way to a clean path.
CleanTrace(g, rooted, segs) ==
    /\ g[0] = <<>> /\ Clean(rooted, segs) = g[Len(segs)]
    /\ \A i \in 1 .. Len(segs) : g[i] = CleanStep(rooted, g[i - 1], segs[i])

\* Clean is the last of the values that its step gives, one after another.
LEMMA CleanSteps ==
    ASSUME NEW rooted \in BOOLEAN, NEW segs \in Seq(Segments)
    PROVE  \E g : CleanTrace(g, rooted, segs)
<1> DEFINE X == Seq(Segments)
           F == [p \in X \X Segments |-> CleanStep(rooted, p[1], p[2])]
           n == Len(segs)
           x0 == <<>>
           Rec(g) == g = [i \in 0 .. n |-> IF i = 0 THEN <<>> ELSE CleanStep(rooted, g[i - 1], segs[i])]
           out == CHOOSE g : Rec(g)
<1>0. n \in Nat /\ \A i \in 1 .. n : segs[i] \in Segments
    BY LenProperties
<1>1. F \in [X \X Segments -> X]
    BY CleanStepType
<1>2. x0 \in X
    OBVIOUS
<1>3. PICK g \in [0 .. n -> X] : IsTrace(g, F, x0, segs)
    <2> HIDE DEF F, X, x0
    <2> QED BY <1>1, <1>2, StepsExist
<1>4. Rec(g)
    <2>1. ASSUME NEW i \in 0 .. n
          PROVE  g[i] = IF i = 0 THEN <<>> ELSE CleanStep(rooted, g[i - 1], segs[i])
        <3>1. CASE i = 0
            BY <3>1, <1>3 DEF IsTrace
        <3>2. CASE i \in 1 .. n
            <4>1. g[i - 1] \in X /\ segs[i] \in Segments /\ i # 0
                <5> HIDE DEF n, X
                <5> QED BY <1>0, <3>2
            <4>2. F[<<g[i - 1], segs[i]>>] = CleanStep(rooted, g[i - 1], segs[i])
                <5> HIDE DEF X
                <5> QED BY <4>1
            <4>3. g[i] = F[<<g[i - 1], segs[i]>>]
                <5> HIDE DEF F
                <5> QED BY <4>1, <3>2, <1>3 DEF IsTrace
            <4> QED BY <4>1, <4>2, <4>3
        <3> QED BY <3>1, <3>2, <1>0
    <2>2. g = [i \in 0 .. n |-> g[i]]
        OBVIOUS
    <2> QED BY <2>1, <2>2
<1>5. Rec(out)
    <2> HIDE DEF Rec
    <2> QED BY <1>4
<1>6. Clean(rooted, segs) = out[n]
    BY DEF Clean
<1> HIDE DEF out
<1>7. \A i \in 0 .. n : out[i] = IF i = 0 THEN <<>> ELSE CleanStep(rooted, out[i - 1], segs[i])
    BY <1>5
<1> HIDE DEF Rec
<1>8. ASSUME NEW i \in 1 .. n PROVE out[i] = CleanStep(rooted, out[i - 1], segs[i])
    BY <1>7, <1>0
<1>9. out[0] = <<>>
    BY <1>7, <1>0
<1> QED BY <1>6, <1>8, <1>9 DEF CleanTrace

-----------------------------------------------------------------------------
(* A walk, step by step, and the cleaning of a rooted path.                *)

\* A walk is always at a place.
LEMMA WalkStepType ==
    ASSUME NEW at \in Seq(Names), NEW s \in Segments
    PROVE  WalkStep(at, s) \in Seq(Names)
<1>1. s \in Names => Append(at, s) \in Seq(Names)
    BY AppendProperties
<1>2. at # <<>> => Front(at) \in Seq(Names)
    BY FrontLast
<1> QED BY <1>1, <1>2 DEF WalkStep, Segments

\* The places on the way of a walk.
WalkTrace(g, from, segs) ==
    /\ g[0] = from /\ Walk(from, segs) = g[Len(segs)]
    /\ \A i \in 1 .. Len(segs) : g[i] = WalkStep(g[i - 1], segs[i])

\* Walk is, likewise, the last of the values that its step gives, one after another.
LEMMA WalkSteps ==
    ASSUME NEW from \in Seq(Names), NEW segs \in Seq(Segments)
    PROVE  \E g : WalkTrace(g, from, segs)
<1> DEFINE X == Seq(Names)
           F == [p \in X \X Segments |-> WalkStep(p[1], p[2])]
           n == Len(segs)
           x0 == from
           Rec(g) == g = [i \in 0 .. n |-> IF i = 0 THEN from ELSE WalkStep(g[i - 1], segs[i])]
           at == CHOOSE g : Rec(g)
<1>0. n \in Nat /\ \A i \in 1 .. n : segs[i] \in Segments
    BY LenProperties
<1>1. F \in [X \X Segments -> X]
    BY WalkStepType
<1>2. x0 \in X
    OBVIOUS
<1>3. PICK g \in [0 .. n -> X] : IsTrace(g, F, x0, segs)
    <2> HIDE DEF F, X, x0
    <2> QED BY <1>1, <1>2, StepsExist
<1>4. Rec(g)
    <2>1. ASSUME NEW i \in 0 .. n
          PROVE  g[i] = IF i = 0 THEN from ELSE WalkStep(g[i - 1], segs[i])
        <3>1. CASE i = 0
            BY <3>1, <1>3 DEF IsTrace
        <3>2. CASE i \in 1 .. n
            <4>1. g[i - 1] \in X /\ segs[i] \in Segments /\ i # 0
                <5> HIDE DEF n, X
                <5> QED BY <1>0, <3>2
            <4>2. F[<<g[i - 1], segs[i]>>] = WalkStep(g[i - 1], segs[i])
                <5> HIDE DEF X
                <5> QED BY <4>1
            <4>3. g[i] = F[<<g[i - 1], segs[i]>>]
                <5> HIDE DEF F
                <5> QED BY <4>1, <3>2, <1>3 DEF IsTrace
            <4> QED BY <4>1, <4>2, <4>3
        <3> QED BY <3>1, <3>2, <1>0
    <2>2. g = [i \in 0 .. n |-> g[i]]
        OBVIOUS
    <2> QED BY <2>1, <2>2
<1>5. Rec(at)
    <2> HIDE DEF Rec
    <2> QED BY <1>4
<1>6. Walk(from, segs) = at[n]
    BY DEF Walk
<1> HIDE DEF at
<1>7. \A i \in 0 .. n : at[i] = IF i = 0 THEN from ELSE WalkStep(at[i - 1], segs[i])
    BY <1>5
<1> HIDE DEF Rec
<1>8. ASSUME NEW i \in 1 .. n PROVE at[i] = WalkStep(at[i - 1], segs[i])
    BY <1>7, <1>0
<1>9. at[0] = from
    BY <1>7, <1>0
<1> QED BY <1>6, <1>8, <1>9 DEF WalkTrace

\* On a rooted path, cleaning goes where a walk goes.
LEMMA CleanWalkStep ==
    ASSUME NEW at \in Seq(Names), NEW s \in Segments
    PROVE  CleanStep(TRUE, at, s) = WalkStep(at, s)
<1>1. at # <<>> => Last(at) # ".."
    BY FrontLast, NotNames
<1> QED BY <1>1 DEF CleanStep, WalkStep

\* sanitizePath gives, for every spelling of a path, the place to which a walk
\* from the root along the segments leads: ".." never goes above the root.
THEOREM SanitizeIsWalk ==
    ASSUME NEW raw \in Seq(Segments)
    PROVE  sanitizePath(raw) = Walk(<<>>, raw) /\ sanitizePath(raw) \in Seq(Names)
<1> DEFINE n == Len(raw)
<1>0. n \in Nat /\ \A i \in 1 .. n : raw[i] \in Segments
    BY LenProperties
<1>1. PICK c : CleanTrace(c, TRUE, raw)
    BY CleanSteps
<1>2. PICK w : WalkTrace(w, <<>>, raw)
    <2>1. <<>> \in Seq(Names)
        OBVIOUS
    <2> QED BY <2>1, WalkSteps
<1> DEFINE T == {i \in 0 .. n : c[i] = w[i] /\ w[i] \in Seq(Names)}
<1> HIDE DEF n
<1>3. 0 \in T
    <2>1. c[0] = <<>> /\ w[0] = <<>>
        BY <1>1, <1>2 DEF CleanTrace, WalkTrace
    <2>2. 0 \in 0 .. n /\ <<>> \in Seq(Names)
        BY <1>0
    <2> QED BY <2>1, <2>2
<1>4. ASSUME NEW i \in 0 .. n - 1, i \in T PROVE i + 1 \in T
    <2>1. i + 1 \in 1 .. n /\ i + 1 \in 0 .. n /\ (i + 1) - 1 = i
        BY <1>0
    <2>2. c[i + 1] = CleanStep(TRUE, c[i], raw[i + 1]) /\ w[i + 1] = WalkStep(w[i], raw[i + 1])
        BY <1>1, <1>2, <2>1 DEF CleanTrace, WalkTrace, n
    <2>3. c[i] = w[i] /\ w[i] \in Seq(Names) /\ raw[i + 1] \in Segments
        BY <1>4, <1>0, <2>1
    <2>4. c[i + 1] = w[i + 1] /\ w[i + 1] \in Seq(Names)
        BY <2>2, <2>3, CleanWalkStep, WalkStepType
    <2> QED BY <2>1, <2>4
<1>5. n \in T
    <2> HIDE DEF T
    <2> QED BY <1>0, <1>3, <1>4, UpTo
<1> QED BY <1>1, <1>2, <1>5 DEF sanitizePath, CleanTrace, WalkTrace, n

-----------------------------------------------------------------------------
(* Relative paths: the names of archive entries.                           *)

\* The last name and what is in front of it are those of Append.
LEMMA FrontOfAppend ==
    ASSUME NEW S, NEW s \in Seq(S), NEW e \in S
    PROVE  Front(Append(s, e)) = s /\ Last(Append(s, e)) = e
<1> DEFINE t == Append(s, e)
<1>1. t \in Seq(S) /\ t # <<>>
    BY AppendProperties
<1>2. Front(t) \in Seq(S) /\ Last(t) \in S /\ t = Append(Front(t), Last(t))
    <2> HIDE DEF t
    <2> QED BY <1>1, FrontLast
<1> QED BY <1>2, AppendInjective

\* A name put behind the second of two paths is behind both.
LEMMA ConcatAppend ==
    ASSUME NEW S, NEW s \in Seq(S), NEW t \in Seq(S), NEW e \in S
    PROVE  s \o Append(t, e) = Append(s \o t, e)
<1> DEFINE e1 == <<e>>
<1>1. e1 \in Seq(S)
    OBVIOUS
<1>2. Append(t, e) = t \o e1 /\ s \o t \in Seq(S)
    BY AppendIsConcat, ConcatProperties
<1>3. Append(s \o t, e) = (s \o t) \o e1
    BY <1>2, AppendIsConcat
<1> HIDE DEF e1
<1>4. (s \o t) \o e1 = s \o (t \o e1)
    BY <1>1, ConcatAssociative
<1> QED BY <1>2, <1>3, <1>4

\* A relative path, cleaned, and a walk along it from some directory: the walk
\* is still below the directory, at the clean path, or the clean path has
\* left the directory and says so by its first segment.
LeftIt(c) == c \in Seq(Segments) /\ c # <<>> /\ Head(c) = ".."
Below(base, N, c, w) == c \in Seq(N) /\ w = base \o c

\* A clean relative path that has left the directory never comes back.
LEMMA LeftItStep ==
    ASSUME NEW c, LeftIt(c), NEW s \in Segments
    PROVE  LeftIt(CleanStep(FALSE, c, s))
<1>1. c \in Seq(Segments) /\ c # <<>> /\ Head(c) = ".." /\ ".." \in Segments
    BY DEF LeftIt, Segments
<1>2. ASSUME NEW e \in Segments PROVE LeftIt(Append(c, e))
    BY <1>1, AppendProperties, HeadTailAppend DEF LeftIt
<1>3. ASSUME Last(c) # ".." PROVE LeftIt(Front(c))
    <2>1. /\ Front(c) \in Seq(Segments) /\ Len(Front(c)) = Len(c) - 1
          /\ \A i \in 1 .. Len(c) - 1 : Front(c)[i] = c[i]
          /\ Len(c) \in Nat \ {0}
        BY <1>1, FrontLast
    <2>2. Head(c) = c[1]
        BY <1>1
    <2>3. Len(c) # 1
        BY <1>1, <1>3, <2>2 DEF Last
    <2>4. Front(c) # <<>>
        BY <2>1, <2>3, EmptySeq
    <2>5. Head(Front(c)) = Front(c)[1]
        BY <2>1, <2>4
    <2>6. Front(c)[1] = c[1]
        BY <2>1, <2>3
    <2> QED BY <1>1, <2>1, <2>2, <2>4, <2>5, <2>6 DEF LeftIt
<1> QED BY <1>1, <1>2, <1>3, LeftIt(c) DEF CleanStep

\* One segment keeps the walk below the directory, or leaves it.
LEMMA BelowStep ==
    ASSUME NEW N \in SUBSET Names, NEW base \in Seq(Names), NEW c, NEW w,
           NEW s \in (N \cup Stays \cup {".."}), Below(base, N, c, w)
    PROVE  \/ LeftIt(CleanStep(FALSE, c, s))
           \/ Below(base, N, CleanStep(FALSE, c, s), WalkStep(w, s))
<1>1. c \in Seq(N) /\ c \in Seq(Names) /\ w = base \o c
    BY SeqMonotonic DEF Below
<1>2. CASE s \in Stays
    <2>1. CleanStep(FALSE, c, s) = c /\ WalkStep(w, s) = w
        BY <1>2, NotNames DEF CleanStep, WalkStep
    <2> QED BY <2>1
<1>3. CASE s \in N
    <2>1. s \notin Stays /\ s # ".." /\ s \in Names
        BY <1>3, NotNames
    <2>2. CleanStep(FALSE, c, s) = Append(c, s) /\ WalkStep(w, s) = Append(w, s)
        BY <2>1 DEF CleanStep, WalkStep
    <2>3. Append(c, s) \in Seq(N)
        BY <1>1, <1>3, AppendProperties
    <2>4. base \o Append(c, s) = Append(base \o c, s)
        BY <1>1, <2>1, ConcatAppend
    <2> QED BY <1>1, <2>2, <2>3, <2>4 DEF Below
<1>4. CASE s = ".." /\ c = <<>>
    <2>1. CleanStep(FALSE, c, s) = Append(<<>>, "..")
        BY <1>4 DEF CleanStep
    <2>2. <<>> \in Seq(Segments) /\ ".." \in Segments
        BY DEF Segments
    <2>3. LeftIt(Append(<<>>, ".."))
        BY <2>2, AppendProperties, HeadTailAppend DEF LeftIt
    <2> QED BY <2>1, <2>3
<1>5. CASE s = ".." /\ c # <<>>
    <2> DEFINE f == Front(c)
               l == Last(c)
               b == base \o f
    <2>1. f \in Seq(N) /\ l \in N /\ c = Append(f, l)
        BY <1>1, <1>5, FrontLast
    <2>2. CleanStep(FALSE, c, s) = f
        BY <1>5, <2>1, NotNames DEF CleanStep
    <2> HIDE DEF f, l
    <2>3. f \in Seq(Names) /\ l \in Names
        BY <2>1, SeqMonotonic
    <2>4. b \in Seq(Names) /\ base \o Append(f, l) = Append(b, l)
        BY <2>3, ConcatAppend, ConcatProperties
    <2>5. w = Append(b, l)
        BY <1>1, <2>1, <2>4
    <2> HIDE DEF b
    <2>6. w # <<>> /\ Front(w) = b
        BY <2>3, <2>4, <2>5, FrontOfAppend, AppendProperties
    <2>7. WalkStep(w, s) = b
        BY <1>5, <2>6 DEF WalkStep
    <2> QED BY <2>1, <2>2, <2>7 DEF Below, b
<1> QED BY <1>2, <1>3, <1>4, <1>5

\* The check of validateSkillTar is enough: a relative path whose clean form
\* does not begin with ".." leads below the directory it starts from, to the
\* place its clean form names there, whatever it passes on the way.
THEOREM StaysBelow ==
    ASSUME NEW N \in SUBSET Names, NEW base \in Seq(Names),
           NEW segs \in Seq(N \cup Stays \cup {".."}),
           Clean(FALSE, segs) # <<>> => Head(Clean(FALSE, segs)) # ".."
    PROVE  Clean(FALSE, segs) \in Seq(N) /\ Walk(base, segs) = base \o Clean(FALSE, segs)
<1> DEFINE n == Len(segs)
<1>0. n \in Nat /\ \A i \in 1 .. n : segs[i] \in (N \cup Stays \cup {".."})
    BY LenProperties
<1>1. (N \cup Stays \cup {".."}) \subseteq Segments
    BY DEF Segments
<1>2. segs \in Seq(Segments)
    BY <1>1, SeqMonotonic
<1>3. PICK c : CleanTrace(c, FALSE, segs)
    BY <1>2, CleanSteps
<1>4. PICK w : WalkTrace(w, base, segs)
    BY <1>2, WalkSteps
<1> DEFINE T == {i \in 0 .. n : LeftIt(c[i]) \/ Below(base, N, c[i], w[i])}
<1> HIDE DEF n
<1>5. 0 \in T
    <2>1. c[0] = <<>> /\ w[0] = base
        BY <1>3, <1>4 DEF CleanTrace, WalkTrace
    <2>2. 0 \in 0 .. n /\ <<>> \in Seq(N)
        BY <1>0
    <2>3. base \o <<>> = base
        BY ConcatEmptySeq
    <2>4. Below(base, N, c[0], w[0])
        BY <2>1, <2>2, <2>3 DEF Below
    <2> QED BY <2>2, <2>4
<1>6. ASSUME NEW i \in 0 .. n - 1, i \in T PROVE i + 1 \in T
    <2>0. n \in Nat
        BY <1>0
    <2>1. i + 1 \in 1 .. n /\ i + 1 \in 0 .. n /\ (i + 1) - 1 = i
        BY <2>0
    <2>2. c[i + 1] = CleanStep(FALSE, c[i], segs[i + 1]) /\ w[i + 1] = WalkStep(w[i], segs[i + 1])
        BY <1>3, <1>4, <2>1 DEF CleanTrace, WalkTrace, n
    <2>3. segs[i + 1] \in (N \cup Stays \cup {".."}) /\ segs[i + 1] \in Segments
        BY <1>0, <1>1, <2>1
    <2>4. LeftIt(c[i]) => LeftIt(c[i + 1])
        BY <2>2, <2>3, LeftItStep
    <2>5. Below(base, N, c[i], w[i]) => LeftIt(c[i + 1]) \/ Below(base, N, c[i + 1], w[i + 1])
        BY <2>2, <2>3, BelowStep
    <2> QED BY <1>6, <2>1, <2>4, <2>5
<1>7. n \in T
    <2> HIDE DEF T
    <2> QED BY <1>0, <1>5, <1>6, UpTo
<1>8. Clean(FALSE, segs) = c[n] /\ Walk(base, segs) = w[n]
    BY <1>3, <1>4 DEF CleanTrace, WalkTrace, n
<1> QED BY <1>7, <1>8 DEF LeftIt, Below

-----------------------------------------------------------------------------
(* The inductive invariant, and paths as places.                           *)

\* The place of the manifest.
ManifestAt == Append(DestDir, Manifest)

\* The tree is a tree, with the root a directory.
TreeOK(t) ==
    /\ <<>> \in DOMAIN t /\ t[<<>>].dir
    /\ \A p \in DOMAIN t : p \in Places /\ t[p].dir \in BOOLEAN /\ t[p].size \in 0 .. Limit
    /\ \A p \in DOMAIN t : p # <<>> => Front(p) \in DOMAIN t /\ t[Front(p)].dir

\* A request between two calls of the engine has no answer yet; a listing asks
\* for the place that was meant, and what is pushed has been validated.
JobOK ==
    /\ job # NoJob => answer = NoAnswer
    /\ \/ job = NoJob
       \/ job.op = "ls" /\ job.path = job.at /\ job.at \in Seq(Names)
       \/ job.op = "push" /\ job.archive \in Archives /\ validateSkillTar(job.archive)

\* The write that was answered last is in the tree.
AckOK ==
    \/ acked = NoAck
    \/ acked.at \in DOMAIN tree /\ ~tree[acked.at].dir /\ tree[acked.at].size = acked.size

\* An answer to a read of a file of the given size.
Faithful(reply, size) ==
    /\ reply.status = "ok" => reply.size <= size
    /\ reply.link = "up" => reply.status = "ok" /\ reply.size = size

\* The tree does not change before an answer is taken, so the answer agrees
\* with the tree.
AnswerOK ==
    /\ answer.op = "read" =>
        /\ answer.at \in Seq(Names)
        /\ answer.at # <<>> /\ Exists(answer.at) => Faithful(answer, tree[answer.at].size)
    /\ answer.op = "list" =>
        /\ answer.at \in Seq(Names)
        /\ answer.link = "up" /\ Exists(answer.at) => answer.files \in {parseFileList(answer.at), parseLSOutput(answer.at)}
    /\ answer.op = "push" /\ answer.status = "ok" => Exists(ManifestAt)

FilesInv == TreeOK(tree) /\ JobOK /\ AckOK /\ AnswerOK

\* A bounded sequence is a sequence of bounded length.
LEMMA BoundedSeqs ==
    ASSUME NEW S, NEW n \in Nat
    PROVE  \A s : s \in BoundedSeq(S, n) <=> s \in Seq(S) /\ Len(s) <= n
<1>1. ASSUME NEW s \in BoundedSeq(S, n) PROVE s \in Seq(S) /\ Len(s) <= n
    <2>1. PICK m \in 0 .. n : s \in [1 .. m -> S]
        BY DEF BoundedSeq, SeqOf
    <2>2. s \in Seq(S)
        BY <2>1, SeqDef
    <2>3. Len(s) \in Nat /\ DOMAIN s = 1 .. Len(s)
        BY <2>2, LenProperties
    <2>4. Len(s) = m
        BY <2>1, <2>3
    <2> QED BY <2>2, <2>4
<1>2. ASSUME NEW s \in Seq(S), Len(s) <= n PROVE s \in BoundedSeq(S, n)
    <2>1. Len(s) \in 0 .. n /\ s \in [1 .. Len(s) -> S]
        BY <1>2, LenProperties
    <2> QED BY <2>1 DEF BoundedSeq, SeqOf
<1> QED BY <1>1, <1>2

\* Places are sequences of names, and raw paths sequences of segments.
LEMMA PlacesDef == \A p : p \in Places <=> p \in Seq(Names) /\ Len(p) <= MaxDepth
    BY BoundedSeqs, BoundsAssumption DEF Places

LEMMA RawPathsDef == \A raw \in RawPaths : raw \in Seq(Segments)
    BY BoundedSeqs, BoundsAssumption DEF RawPaths

\* A prefix, position by position.
LEMMA PrefixDef ==
    ASSUME NEW S, NEW s \in Seq(S), NEW t \in Seq(S)
    PROVE  IsPrefix(s, t) <=> Len(s) <= Len(t) /\ \A i \in 1 .. Len(s) : t[i] = s[i]
<1> DEFINE m == Len(s)
<1>0. m \in Nat /\ Len(t) \in Nat
    BY LenProperties
<1>1. SubSeq(s, 1, m) = s
    BY SubSeqFull
<1>2. ASSUME m <= Len(t)
      PROVE  /\ SubSeq(t, 1, m) \in Seq(S) /\ Len(SubSeq(t, 1, m)) = m
             /\ \A i \in 1 .. m : SubSeq(t, 1, m)[i] = t[i]
    <2>1. \A i \in 1 .. m : t[i] \in S
        BY <1>0, <1>2, ElementOfSeq
    <2> HIDE DEF m
    <2>2. /\ SubSeq(t, 1, m) \in Seq(S)
          /\ Len(SubSeq(t, 1, m)) = IF 1 <= m THEN m - 1 + 1 ELSE 0
          /\ \A i \in 1 .. m - 1 + 1 : SubSeq(t, 1, m)[i] = t[1 + i - 1]
        BY <1>0, <2>1, SubSeqProperties
    <2> QED BY <1>0, <2>2
<1>3. ASSUME m <= Len(t), \A i \in 1 .. m : t[i] = s[i] PROVE SubSeq(t, 1, m) = s
    BY <1>2, <1>3, SeqEqual
<1> QED BY <1>1, <1>2, <1>3 DEF IsPrefix

\* What is under a place is under every place above it.
LEMMA PrefixOfFront ==
    ASSUME NEW S, NEW p \in Seq(S), NEW c \in Seq(S), c # <<>>, IsPrefix(p, Front(c))
    PROVE  IsPrefix(p, c)
<1>1. /\ Front(c) \in Seq(S) /\ Len(Front(c)) = Len(c) - 1 /\ Len(c) \in Nat
      /\ \A i \in 1 .. Len(c) - 1 : Front(c)[i] = c[i]
    BY FrontLast
<1>2. Len(p) <= Len(Front(c)) /\ \A i \in 1 .. Len(p) : Front(c)[i] = p[i]
    BY <1>1, PrefixDef
<1>3. Len(p) \in Nat
    BY LenProperties
<1>4. Len(p) <= Len(c) /\ \A i \in 1 .. Len(p) : c[i] = p[i]
    BY <1>1, <1>2, <1>3
<1> QED BY <1>4, PrefixDef

\* A child is its directory and its name.
LEMMA ChildIsAppend ==
    ASSUME NEW S, NEW p \in Seq(S), NEW c \in Seq(S), Len(c) = Len(p) + 1, IsPrefix(p, c)
    PROVE  Append(p, Last(c)) = c /\ Last(c) \in S
<1>1. c # <<>> /\ Len(p) \in Nat
    BY EmptySeq, LenProperties
<1>2. /\ Front(c) \in Seq(S) /\ Len(Front(c)) = Len(c) - 1 /\ Last(c) \in S
      /\ \A i \in 1 .. Len(c) - 1 : Front(c)[i] = c[i]
      /\ c = Append(Front(c), Last(c))
    BY <1>1, FrontLast
<1>3. \A i \in 1 .. Len(p) : c[i] = p[i]
    BY PrefixDef
<1>4. Len(Front(c)) = Len(p) /\ \A i \in 1 .. Len(p) : Front(c)[i] = p[i]
    BY <1>1, <1>2, <1>3
<1>5. Front(c) = p
    BY <1>2, <1>4, SeqEqual
<1> QED BY <1>2, <1>5

-----------------------------------------------------------------------------
(* The tree.                                                               *)

\* What Put and Without do to the places of a tree.
LEMMA PutAt ==
    ASSUME NEW t, NEW p, NEW node
    PROVE  /\ DOMAIN Put(t, p, node) = (DOMAIN t) \cup {p} /\ Put(t, p, node)[p] = node
           /\ \A c \in DOMAIN t : c # p => Put(t, p, node)[c] = t[c]
    BY DEF Put

LEMMA WithoutAt ==
    ASSUME NEW t, NEW gone
    PROVE  /\ DOMAIN Without(t, gone) = (DOMAIN t) \ gone
           /\ \A c \in (DOMAIN t) \ gone : Without(t, gone)[c] = t[c]
    BY DEF Without

\* The directory of a place is a place, and another one.
LEMMA PlaceFront ==
    ASSUME NEW p \in Places, p # <<>>
    PROVE  p \in Seq(Names) /\ Front(p) \in Places /\ Front(p) # p
<1>1. p \in Seq(Names) /\ Len(p) <= MaxDepth
    BY PlacesDef
<1>2. Front(p) \in Seq(Names) /\ Len(Front(p)) = Len(p) - 1 /\ Len(p) \in Nat
    BY <1>1, FrontLast
<1>3. Front(p) # p /\ Len(Front(p)) <= MaxDepth
    BY <1>1, <1>2, BoundsAssumption
<1> QED BY <1>1, <1>2, <1>3, PlacesDef

\* A tree stays one when something is put into a directory, not in place of
\* one, unless that is with a directory.
LEMMA PutOK ==
    ASSUME NEW t, TreeOK(t), NEW p \in Places, p # <<>>, NEW node,
           Front(p) \in DOMAIN t, t[Front(p)].dir,
           node.dir \in BOOLEAN, node.size \in 0 .. Limit,
           p \in DOMAIN t /\ t[p].dir => node.dir
    PROVE  TreeOK(Put(t, p, node))
<1> DEFINE u == Put(t, p, node)
<1>1. /\ DOMAIN u = (DOMAIN t) \cup {p} /\ u[p] = node
      /\ \A c \in DOMAIN t : c # p => u[c] = t[c]
    BY DEF Put
<1> HIDE DEF u
<1>2. <<>> \in DOMAIN u /\ u[<<>>].dir
    BY <1>1 DEF TreeOK
<1>3. ASSUME NEW c \in DOMAIN u
      PROVE  /\ c \in Places /\ u[c].dir \in BOOLEAN /\ u[c].size \in 0 .. Limit
             /\ c # <<>> => Front(c) \in DOMAIN u /\ u[Front(c)].dir
    <2>1. CASE c = p
        BY <1>1, <2>1, PlaceFront
    <2>2. CASE c # p
        <3>1. c \in DOMAIN t /\ u[c] = t[c]
            BY <1>1, <2>2
        <3>2. c \in Places /\ t[c].dir \in BOOLEAN /\ t[c].size \in 0 .. Limit
            BY <3>1 DEF TreeOK
        <3>3. ASSUME c # <<>> PROVE Front(c) \in DOMAIN u /\ u[Front(c)].dir
            <4>1. Front(c) \in DOMAIN t /\ t[Front(c)].dir
                BY <3>1, <3>3 DEF TreeOK
            <4>2. CASE Front(c) = p
                BY <1>1, <4>1, <4>2
            <4>3. CASE Front(c) # p
                BY <1>1, <4>1, <4>3
            <4> QED BY <4>2, <4>3
        <3> QED BY <3>1, <3>2, <3>3
    <2> QED BY <2>1, <2>2
<1>4. TreeOK(u)
    BY <1>2, <1>3 DEF TreeOK
<1> QED BY <1>4 DEF u

\* A tree stays one when all that is under a place is removed.
LEMMA WithoutOK ==
    ASSUME NEW t, TreeOK(t), NEW p \in Places, p # <<>>
    PROVE  TreeOK(Without(t, {c \in DOMAIN t : IsPrefix(p, c)}))
<1> DEFINE gone == {c \in DOMAIN t : IsPrefix(p, c)}
           u == Without(t, gone)
<1>1. DOMAIN u = (DOMAIN t) \ gone /\ \A c \in (DOMAIN t) \ gone : u[c] = t[c]
    BY WithoutAt
<1>2. p \in Seq(Names) /\ Len(p) \in Nat \ {0}
    BY PlacesDef, EmptySeq
<1>3. ASSUME NEW c \in DOMAIN t PROVE c \in Seq(Names) /\ c \in Places
    BY PlacesDef DEF TreeOK
<1>4. ~IsPrefix(p, <<>>)
    <2>1. <<>> \in Seq(Names) /\ Len(<<>>) = 0
        BY EmptySeq
    <2> QED BY <1>2, <2>1 DEF IsPrefix
<1> HIDE DEF u
<1>5. <<>> \in DOMAIN u /\ u[<<>>].dir
    BY <1>1, <1>4 DEF TreeOK
<1>6. ASSUME NEW c \in DOMAIN u
      PROVE  /\ c \in Places /\ u[c].dir \in BOOLEAN /\ u[c].size \in 0 .. Limit
             /\ c # <<>> => Front(c) \in DOMAIN u /\ u[Front(c)].dir
    <2>1. c \in DOMAIN t /\ ~IsPrefix(p, c) /\ u[c] = t[c]
        BY <1>1
    <2>2. c \in Places /\ t[c].dir \in BOOLEAN /\ t[c].size \in 0 .. Limit
        BY <2>1 DEF TreeOK
    <2>3. ASSUME c # <<>> PROVE Front(c) \in DOMAIN u /\ u[Front(c)].dir
        <3>1. Front(c) \in DOMAIN t /\ t[Front(c)].dir
            BY <2>1, <2>3 DEF TreeOK
        <3>2. ~IsPrefix(p, Front(c))
            BY <1>2, <1>3, <2>1, <2>3, PrefixOfFront
        <3> QED BY <1>1, <3>1, <3>2
    <2> QED BY <2>1, <2>2, <2>3
<1>7. TreeOK(u)
    BY <1>5, <1>6 DEF TreeOK
<1> QED BY <1>7 DEF u

\* Above everything that is in a tree there are directories, up to the root.
LEMMA AboveAreDirs ==
    ASSUME NEW t, TreeOK(t), NEW p \in DOMAIN t, NEW q \in Seq(Names), IsPrefix(q, p), q # p
    PROVE  q \in DOMAIN t /\ t[q].dir
<1> DEFINE n == Len(p)
           k == Len(q)
           Cut(j) == SubSeq(p, 1, n - j)
           T == {j \in 0 .. n : Cut(j) \in DOMAIN t /\ (j # 0 => t[Cut(j)].dir)}
<1>1. p \in Seq(Names) /\ n \in Nat /\ k \in Nat /\ k <= n
    BY PlacesDef, LenProperties, PrefixDef DEF TreeOK
<1>2. \A i \in 1 .. n : p[i] \in Names
    BY <1>1, ElementOfSeq
<1>3. ASSUME NEW m \in 0 .. n
      PROVE  /\ SubSeq(p, 1, m) \in Seq(Names) /\ Len(SubSeq(p, 1, m)) = m
             /\ \A i \in 1 .. m : SubSeq(p, 1, m)[i] = p[i]
    <2> HIDE DEF n
    <2>1. \A i \in 1 .. m : p[i] \in Names
        BY <1>1, <1>2
    <2>2. /\ SubSeq(p, 1, m) \in Seq(Names)
          /\ Len(SubSeq(p, 1, m)) = IF 1 <= m THEN m - 1 + 1 ELSE 0
          /\ \A i \in 1 .. m - 1 + 1 : SubSeq(p, 1, m)[i] = p[1 + i - 1]
        BY <1>1, <2>1, SubSeqProperties
    <2> QED BY <1>1, <2>2
<1>4. 0 \in T
    <2>1. Cut(0) = p
        BY <1>1, SubSeqFull
    <2>2. 0 \in 0 .. n
        BY <1>1
    <2> QED BY <2>1, <2>2
<1> HIDE DEF n, k
<1>5. ASSUME NEW j \in 0 .. n - 1, j \in T PROVE j + 1 \in T
    <2> DEFINE a == SubSeq(p, 1, n - j)
               b == SubSeq(p, 1, n - (j + 1))
    <2>1. n - j \in 0 .. n /\ n - (j + 1) \in 0 .. n /\ n - j \in Nat \ {0} /\ j + 1 \in 0 .. n
        BY <1>1
    <2>2. /\ a \in Seq(Names) /\ Len(a) = n - j /\ \A i \in 1 .. n - j : a[i] = p[i]
          /\ b \in Seq(Names) /\ Len(b) = n - (j + 1) /\ \A i \in 1 .. n - (j + 1) : b[i] = p[i]
        BY <2>1, <1>3
    <2>3. a \in DOMAIN t
        BY <1>5
    <2> HIDE DEF a, b
    <2>4. a # <<>>
        BY <2>1, <2>2, EmptySeq
    <2>5. Front(a) \in Seq(Names) /\ Len(Front(a)) = Len(a) - 1 /\ \A i \in 1 .. Len(a) - 1 : Front(a)[i] = a[i]
        BY <2>2, <2>4, FrontLast
    <2>6. Len(b) = Len(Front(a)) /\ \A i \in 1 .. Len(b) : b[i] = Front(a)[i]
        BY <1>1, <2>1, <2>2, <2>5
    <2>7. b = Front(a)
        BY <2>2, <2>5, <2>6, SeqEqual
    <2>8. b \in DOMAIN t /\ t[b].dir
        BY <2>3, <2>4, <2>7 DEF TreeOK
    <2> QED BY <2>1, <2>8 DEF b
<1>6. n - k \in T
    <2>1. n - k \in Nat /\ \A i \in 0 .. n - k - 1 : i \in 0 .. n - 1
        BY <1>1
    <2> HIDE DEF T
    <2> QED BY <1>4, <1>5, <2>1, UpTo
<1>7. Cut(n - k) = q
    <2> DEFINE a == SubSeq(p, 1, k)
    <2>1. n - (n - k) = k /\ k \in 0 .. n
        BY <1>1
    <2>2. a \in Seq(Names) /\ Len(a) = k /\ \A i \in 1 .. k : a[i] = p[i]
        BY <1>3, <2>1
    <2>3. \A i \in 1 .. k : p[i] = q[i]
        BY <1>1, PrefixDef DEF k
    <2> HIDE DEF a
    <2>4. a = q
        BY <2>2, <2>3, SeqEqual DEF k
    <2> QED BY <2>1, <2>4 DEF a
<1>8. n - k # 0
    <2>1. ASSUME n = k PROVE q = p
        BY <1>1, <2>1, PrefixDef, SeqEqual DEF n, k
    <2> QED BY <1>1, <2>1
<1> QED BY <1>6, <1>7, <1>8

-----------------------------------------------------------------------------
(* The archive of a skill.                                                 *)

\* The directory of the skill and its manifest.
LEMMA SkillNames ==
    /\ "skills" \in Names /\ Manifest \in Names /\ {Manifest} \in SUBSET Names
    /\ DestDir \in Seq(Names) /\ Len(DestDir) = 1 /\ DestDir # <<>> /\ Front(DestDir) = <<>>
    /\ ManifestAt \in Seq(Names) /\ Len(ManifestAt) = 2 /\ ManifestAt # <<>>
    /\ Front(ManifestAt) = DestDir /\ IsPrefix(DestDir, ManifestAt)
<1>1. "skills" \in Names /\ Manifest \in Names
    BY NamesAssumption, Zenon DEF Manifest
<1>2. DestDir \in Seq(Names) /\ Len(DestDir) = 1 /\ DestDir # <<>>
    BY <1>1 DEF DestDir
<1>3. Front(DestDir) = <<>>
    BY <1>2, FrontLast, EmptySeq
<1>4. /\ ManifestAt \in Seq(Names) /\ Len(ManifestAt) = 2 /\ ManifestAt # <<>>
      /\ \A i \in 1 .. 1 : ManifestAt[i] = DestDir[i]
    <2> DEFINE m == Append(DestDir, Manifest)
    <2>1. /\ m \in Seq(Names) /\ Len(m) = Len(DestDir) + 1 /\ m # <<>>
          /\ \A i \in 1 .. Len(DestDir) : m[i] = DestDir[i]
        <3>1. DestDir \in Seq(Names) /\ Manifest \in Names
            BY <1>1, <1>2
        <3> QED BY <3>1, AppendProperties
    <2> HIDE DEF m
    <2>2. Len(m) = 2 /\ \A i \in 1 .. 1 : m[i] = DestDir[i]
        BY <1>2, <2>1
    <2> QED BY <2>1, <2>2 DEF m, ManifestAt
<1>5. Front(ManifestAt) = DestDir
    BY <1>1, <1>2, FrontOfAppend DEF ManifestAt
<1>6. IsPrefix(DestDir, ManifestAt)
    BY <1>2, <1>4, PrefixDef
<1> QED BY <1>1, <1>2, <1>3, <1>4, <1>5, <1>6

LEMMA SkillPlaces ==
    DestDir \in Places /\ ManifestAt \in Places
<1>1. Len(DestDir) <= MaxDepth /\ Len(ManifestAt) <= MaxDepth
    BY SkillNames, BoundsAssumption
<1> QED BY <1>1, SkillNames, PlacesDef

\* The names in an archive are the manifest's and the segments that are not
\* names.
LEMMA EntrySegs ==
    ASSUME NEW e \in ArchiveEntries
    PROVE  e.segs \in Seq({Manifest} \cup Stays \cup {".."})
<1>1. e.segs \in BoundedSeq({Manifest, ".", ".."}, MaxSegments)
    BY DEF ArchiveEntries
<1>2. e.segs \in Seq({Manifest, ".", ".."})
    BY <1>1, BoundedSeqs, BoundsAssumption
<1>3. "." \in Stays
    BY Zenon DEF Stays
<1>4. {Manifest, ".", ".."} \subseteq {Manifest} \cup Stays \cup {".."}
    BY <1>3
<1> QED BY <1>2, <1>4, SeqMonotonic

\* A safe entry ends up at its clean name below the directory: at the
\* directory itself, at the manifest, or below the manifest's place.
LEMMA SafeTarget ==
    ASSUME NEW e \in ArchiveEntries, Safe(e)
    PROVE  /\ Clean(e.rooted, e.segs) \in Seq({Manifest})
           /\ Target(e) = DestDir \o Clean(e.rooted, e.segs)
           /\ Target(e) \in Seq(Names) /\ IsPrefix(DestDir, Target(e)) /\ Target(e) # <<>>
           /\ \/ Target(e) = DestDir /\ Clean(e.rooted, e.segs) = <<>>
              \/ Target(e) = ManifestAt
              \/ Len(Target(e)) > 2 /\ IsPrefix(ManifestAt, Target(e))
<1> DEFINE c == Clean(e.rooted, e.segs)
           g == Target(e)
<1>1. e.rooted = FALSE /\ (c # <<>> => Head(c) # "..")
    BY DEF Safe, ArchiveEntries
<1>2. c = Clean(FALSE, e.segs) /\ g = Walk(DestDir, e.segs)
    BY <1>1 DEF Target
<1>3. c \in Seq({Manifest}) /\ g = DestDir \o c
    <2>1. /\ Clean(FALSE, e.segs) \in Seq({Manifest})
          /\ Walk(DestDir, e.segs) = DestDir \o Clean(FALSE, e.segs)
        BY <1>1, EntrySegs, SkillNames, StaysBelow
    <2> QED BY <1>2, <2>1
<1> HIDE DEF c, g
<1>4. c \in Seq(Names) /\ Len(c) \in Nat /\ \A i \in 1 .. Len(c) : c[i] = Manifest
    BY <1>3, SkillNames, SeqMonotonic, ElementOfSeq, LenProperties
<1>5. /\ g \in Seq(Names) /\ Len(g) = 1 + Len(c)
      /\ \A i \in 1 .. 1 + Len(c) : g[i] = IF i <= 1 THEN DestDir[i] ELSE c[i - 1]
    <2>1. /\ g \in Seq(Names) /\ Len(g) = Len(DestDir) + Len(c)
          /\ \A i \in 1 .. Len(DestDir) + Len(c) :
                g[i] = IF i <= Len(DestDir) THEN DestDir[i] ELSE c[i - Len(DestDir)]
        BY <1>3, <1>4, SkillNames, ConcatProperties
    <2>2. Len(DestDir) = 1
        BY SkillNames
    <2> QED BY <2>1, <2>2
<1>6. IsPrefix(DestDir, g)
    BY <1>4, <1>5, SkillNames, PrefixDef
<1>7. g # <<>>
    BY <1>4, <1>5, EmptySeq
<1>8. ManifestAt[1] = DestDir[1] /\ ManifestAt[2] = Manifest
    BY SkillNames, AppendProperties DEF ManifestAt
<1>9. Len(c) # 0 => \A i \in 1 .. 2 : g[i] = ManifestAt[i]
    <2>1. ASSUME Len(c) # 0 PROVE g[1] = ManifestAt[1] /\ g[2] = ManifestAt[2]
        BY <1>4, <1>5, <1>8, <2>1
    <2> QED BY <2>1
<1>10. CASE Len(c) = 0
    <2>1. c = <<>>
        BY <1>4, <1>10, EmptySeq
    <2>2. g = DestDir
        BY <1>3, <2>1, SkillNames, ConcatEmptySeq
    <2> QED BY <1>3, <1>5, <1>6, <1>7, <2>1, <2>2 DEF c, g
<1>11. CASE Len(c) = 1
    <2>1. g = ManifestAt
        BY <1>5, <1>9, <1>11, SkillNames, SeqEqual
    <2> QED BY <1>3, <1>5, <1>6, <1>7, <2>1 DEF c, g
<1>12. CASE Len(c) > 1
    <2>1. Len(g) > 2 /\ Len(ManifestAt) <= Len(g)
        BY <1>4, <1>5, <1>12, SkillNames
    <2>3. ManifestAt \in Seq(Names) /\ Len(ManifestAt) = 2
        BY SkillNames
    <2>4. \A i \in 1 .. Len(ManifestAt) : g[i] = ManifestAt[i]
        BY <1>4, <1>9, <1>12, <2>3
    <2>2. IsPrefix(ManifestAt, g)
        BY <1>5, <2>1, <2>3, <2>4, PrefixDef
    <2> QED BY <1>3, <1>5, <1>6, <1>7, <2>1, <2>2 DEF c, g
<1>13. Len(c) = 0 \/ Len(c) = 1 \/ Len(c) > 1
    <2>1. \A k \in Nat : k = 0 \/ k = 1 \/ k > 1
        OBVIOUS
    <2> QED BY <1>4, <2>1
<1> QED BY <1>10, <1>11, <1>12, <1>13

\* The entry that validateSkillTar looks for becomes the manifest.
LEMMA TargetOfManifest ==
    ASSUME NEW e \in ArchiveEntries, Safe(e), Clean(e.rooted, e.segs) = <<Manifest>>
    PROVE  Target(e) = ManifestAt
<1>1. Target(e) = DestDir \o <<Manifest>>
    BY SafeTarget
<1> QED BY <1>1, SkillNames, AppendIsConcat DEF ManifestAt

\* The manifest's plain name is clean.
LEMMA CleanManifest == Clean(FALSE, <<Manifest>>) = <<Manifest>>
<1> DEFINE segs == <<Manifest>>
<1>1. segs \in Seq(Segments) /\ Len(segs) = 1 /\ segs[1] = Manifest
    BY SkillNames DEF Segments
<1> HIDE DEF segs
<1>2. PICK c : CleanTrace(c, FALSE, segs)
    BY <1>1, CleanSteps
<1>3. c[0] = <<>> /\ c[1] = CleanStep(FALSE, <<>>, Manifest) /\ Clean(FALSE, segs) = c[1]
    <2>1. c[0] = <<>> /\ Clean(FALSE, segs) = c[1]
        BY <1>1, <1>2 DEF CleanTrace
    <2>2. \A i \in 1 .. 1 : c[i] = CleanStep(FALSE, c[i - 1], segs[i])
        BY <1>1, <1>2 DEF CleanTrace
    <2>3. 1 \in 1 .. 1 /\ 1 - 1 = 0
        OBVIOUS
    <2>4. c[1] = CleanStep(FALSE, c[1 - 1], segs[1])
        BY <2>2, <2>3, Zenon
    <2> QED BY <1>1, <2>1, <2>3, <2>4, Zenon
<1>4. CleanStep(FALSE, <<>>, Manifest) = Append(<<>>, Manifest)
    BY SkillNames, NotNames DEF CleanStep
<1>5. Append(<<>>, Manifest) = <<Manifest>>
    OBVIOUS
<1> QED BY <1>3, <1>4, <1>5 DEF segs

LEMMA ManifestEntryTarget ==
    ASSUME ManifestEntry \in ArchiveEntries, Safe(ManifestEntry)
    PROVE  Target(ManifestEntry) = ManifestAt /\ ManifestEntry.type = "file"
<1>1. ManifestEntry.rooted = FALSE /\ ManifestEntry.segs = <<Manifest>> /\ ManifestEntry.type = "file"
    BY DEF ManifestEntry
<1>2. Clean(ManifestEntry.rooted, ManifestEntry.segs) = <<Manifest>>
    BY <1>1, CleanManifest
<1> QED BY <1>1, <1>2, TargetOfManifest

-----------------------------------------------------------------------------
(* Extraction.                                                             *)

\* The directory of the skill is there; two trees agree outside of it.
HasDir(t) == DestDir \in DOMAIN t /\ t[DestDir].dir
SameOutside(t, u) ==
    \A p \in (DOMAIN t \cup DOMAIN u) :
        ~IsPrefix(DestDir, p) => p \in DOMAIN t /\ p \in DOMAIN u /\ u[p] = t[p]

\* An entry becomes a directory or a file within the limit.
LEMMA NodeOfEntry ==
    ASSUME NEW e
    PROVE  NodeOf(e).dir \in BOOLEAN /\ (NodeOf(e).dir <=> e.type = "dir") /\ NodeOf(e).size \in 0 .. Limit
    BY BoundsAssumption DEF NodeOf, Dir, File

\* What an entry does at the directory or at the manifest.
LEMMA ExtractOne ==
    ASSUME NEW t, TreeOK(t), HasDir(t), NEW e, CanExtract(t, e),
           Target(e) = DestDir \/ Target(e) = ManifestAt
    PROVE  /\ TreeOK(Extract(t, e)) /\ HasDir(Extract(t, e)) /\ SameOutside(t, Extract(t, e))
           /\ Target(e) \in DOMAIN Extract(t, e)
           /\ Extract(t, e)[Target(e)].dir <=> e.type = "dir"
<1> DEFINE g == Target(e)
           node == NodeOf(e)
           u == Put(t, g, node)
<1>1. Extract(t, e) = u
    BY DEF Extract, NodeOf
<1>2. /\ g \in DOMAIN t => (t[g].dir <=> e.type = "dir")
      /\ g \notin DOMAIN t => Front(g) \in DOMAIN t /\ t[Front(g)].dir
    BY DEF CanExtract
<1>3. node.dir \in BOOLEAN /\ (node.dir <=> e.type = "dir") /\ node.size \in 0 .. Limit
    BY NodeOfEntry
<1>4. DOMAIN u = (DOMAIN t) \cup {g} /\ u[g] = node /\ \A c \in DOMAIN t : c # g => u[c] = t[c]
    BY DEF Put
<1>5. g = DestDir \/ g = ManifestAt
    OBVIOUS
<1> HIDE DEF g, node, u
<1>6. g \in Places /\ g # <<>> /\ Front(g) \in DOMAIN t /\ t[Front(g)].dir /\ IsPrefix(DestDir, g)
    <2>1. IsPrefix(DestDir, DestDir)
        BY SkillNames, PrefixDef, LenProperties
    <2> QED BY <1>5, <2>1, SkillNames, SkillPlaces DEF TreeOK, HasDir
<1>7. TreeOK(u)
    BY <1>2, <1>3, <1>6, PutOK DEF u
<1>8. HasDir(u)
    BY <1>2, <1>3, <1>4, <1>5 DEF HasDir
<1>9. SameOutside(t, u)
    BY <1>4, <1>6 DEF SameOutside
<1> QED BY <1>1, <1>3, <1>4, <1>7, <1>8, <1>9 DEF g

\* Nothing is extracted below a file.
LEMMA NotBelowAFile ==
    ASSUME NEW t, TreeOK(t), ManifestAt \in DOMAIN t, ~t[ManifestAt].dir,
           NEW e, Target(e) \in Seq(Names), Len(Target(e)) > 2, IsPrefix(ManifestAt, Target(e))
    PROVE  ~CanExtract(t, e)
<1> DEFINE g == Target(e)
           f == Front(g)
<1> SUFFICES ASSUME CanExtract(t, e) PROVE FALSE
    OBVIOUS
<1>1. g \in Seq(Names) /\ Len(g) > 2 /\ IsPrefix(ManifestAt, g)
    OBVIOUS
<1>2. g \notin DOMAIN t => f \in DOMAIN t /\ t[f].dir
    BY DEF CanExtract
<1> HIDE DEF g
<1>3. ManifestAt \in Seq(Names) /\ Len(ManifestAt) = 2
    BY SkillNames
<1>4. g \notin DOMAIN t
    <2>1. ManifestAt # g
        <3>1. Len(g) \in Nat
            BY <1>1, LenProperties
        <3>2. \A k \in Nat : k > 2 => k # 2
            OBVIOUS
        <3> QED BY <1>1, <1>3, <3>1, <3>2
    <2> QED BY <1>1, <1>3, <2>1, AboveAreDirs
<1>5. g # <<>> /\ Len(g) \in Nat
    BY <1>1, EmptySeq, LenProperties
<1>6. f \in Seq(Names) /\ Len(f) = Len(g) - 1 /\ \A i \in 1 .. Len(g) - 1 : f[i] = g[i]
    BY <1>1, <1>5, FrontLast
<1> HIDE DEF f
<1>7. \A i \in 1 .. 2 : g[i] = ManifestAt[i]
    <2>1. \A i \in 1 .. Len(ManifestAt) : g[i] = ManifestAt[i]
        BY <1>1, <1>3, PrefixDef
    <2> QED BY <1>3, <2>1
<1>8. Len(f) >= 2 /\ \A i \in 1 .. 2 : f[i] = ManifestAt[i]
    BY <1>1, <1>5, <1>6, <1>7
<1>9. IsPrefix(ManifestAt, f)
    BY <1>3, <1>6, <1>8, PrefixDef
<1>10. f # ManifestAt
    BY <1>2, <1>4
<1> QED BY <1>2, <1>3, <1>4, <1>9, <1>10, AboveAreDirs

\* An entry that cannot be extracted changes nothing.
LEMMA ExtractNot ==
    ASSUME NEW t, NEW e, ~CanExtract(t, e)
    PROVE  Extract(t, e) = t /\ SameOutside(t, Extract(t, e))
<1>1. Extract(t, e) = t
    BY DEF Extract
<1>2. SameOutside(t, t)
    BY DEF SameOutside
<1> QED BY <1>1, <1>2

\* An archive that was validated begins with an entry for the manifest.
LEMMA ArchiveShape ==
    ASSUME NEW a \in Archives, validateSkillTar(a)
    PROVE  /\ Target(a[1]) = ManifestAt
           /\ \/ Len(a) = 1
              \/ Len(a) = 2 /\ a[1].type = "file" /\ a[2] \in ArchiveEntries /\ Safe(a[2])
<1>1. CASE \E e \in ArchiveEntries : a = <<e>>
    <2>1. PICK e \in ArchiveEntries : a = <<e>>
        BY <1>1
    <2>2. Len(a) = 1 /\ a[1] = e /\ DOMAIN a = {1}
        BY <2>1
    <2>3. Safe(e) /\ Clean(e.rooted, e.segs) = <<Manifest>>
        BY <2>2 DEF validateSkillTar
    <2> QED BY <2>2, <2>3, TargetOfManifest
<1>2. CASE \E e \in ArchiveEntries : a = <<ManifestEntry, e>>
    <2>1. PICK e \in ArchiveEntries : a = <<ManifestEntry, e>>
        BY <1>2
    <2>2. Len(a) = 2 /\ a[1] = ManifestEntry /\ a[2] = e /\ DOMAIN a = {1, 2}
        BY <2>1
    <2>3. Safe(ManifestEntry) /\ Safe(e)
        BY <2>2 DEF validateSkillTar
    <2>4. ManifestEntry \in ArchiveEntries
        <3> DEFINE S == {Manifest, ".", ".."}
        <3>1. e.segs \in BoundedSeq(S, MaxSegments) /\ e.segs # <<>>
            BY DEF ArchiveEntries
        <3>2. e.segs \in Seq(S) /\ Len(e.segs) <= MaxSegments
            BY <3>1, BoundedSeqs, BoundsAssumption
        <3>3. 1 <= MaxSegments
            BY <3>1, <3>2, EmptySeq, BoundsAssumption
        <3>4. <<Manifest>> \in Seq(S) /\ Len(<<Manifest>>) = 1 /\ <<Manifest>> # <<>>
            OBVIOUS
        <3>5. <<Manifest>> \in BoundedSeq(S, MaxSegments)
            BY <3>3, <3>4, BoundedSeqs, BoundsAssumption
        <3> QED BY <3>4, <3>5 DEF ArchiveEntries, ManifestEntry
    <2> QED BY <2>2, <2>3, <2>4, ManifestEntryTarget
<1> QED BY <1>1, <1>2 DEF Archives

-----------------------------------------------------------------------------
(* Steps that keep the tree, and a process of the container; a read.       *)

\* Answers and trees that do not change stay in order.
LEMMA NoAnswerOK ==
    ASSUME answer' = NoAnswer
    PROVE  AnswerOK'
    BY DEF AnswerOK, NoAnswer

LEMMA SameAnswerOK ==
    ASSUME AnswerOK, tree' = tree, answer' = answer
    PROVE  AnswerOK'
<1>1. answer.op = "read" \/ answer.op = "push" => AnswerOK'
    BY DEF AnswerOK, Exists
<1>2. \A p : Children(p)' = Children(p)
    BY DEF Children
<1>3. \A p : parseFileList(p)' = parseFileList(p) /\ parseLSOutput(p)' = parseLSOutput(p)
    BY <1>2 DEF parseFileList, parseLSOutput, Exists, IsDir
<1>4. answer.op = "list" => AnswerOK'
    BY <1>3 DEF AnswerOK, Exists
<1>5. answer.op \notin {"read", "list", "push"} => AnswerOK'
    BY DEF AnswerOK
<1> QED BY <1>1, <1>4, <1>5

\* An acknowledged write is intact while its place keeps its node.
LEMMA SameAckOK ==
    ASSUME AckOK, acked' = acked,
           acked.at \in DOMAIN tree => acked.at \in DOMAIN tree' /\ tree'[acked.at] = tree[acked.at]
    PROVE  AckOK'
    BY DEF AckOK

\* So does a job, while there is no answer beside it.
LEMMA IdleJob ==
    ASSUME JobOK, job' = job, job = NoJob \/ answer' = NoAnswer
    PROVE  JobOK'
    BY DEF JobOK

\* The invariant holds at first.
LEMMA FilesInitOK ==
    ASSUME FilesInit
    PROVE  FilesInv
<1>1. DOMAIN tree = {<<>>} /\ tree[<<>>] = Dir
    BY DEF FilesInit
<1>2. <<>> \in Places
    <2>1. <<>> \in Seq(Names) /\ Len(<<>>) = 0
        BY EmptySeq
    <2>2. 0 <= MaxDepth
        BY BoundsAssumption
    <2> QED BY <2>1, <2>2, PlacesDef
<1>3. Dir.dir = TRUE /\ Dir.size \in 0 .. Limit
    BY BoundsAssumption DEF Dir
<1>4. TreeOK(tree)
    BY <1>1, <1>2, <1>3 DEF TreeOK
<1>5. JobOK /\ AckOK /\ AnswerOK
    BY DEF FilesInit, JobOK, AckOK, AnswerOK, NoAnswer
<1> QED BY <1>4, <1>5 DEF FilesInv

\* Every action keeps the invariant.
LEMMA MkdirOK ==
    ASSUME FilesInv, NEW p \in Places, ContainerMkdir(p)
    PROVE  FilesInv'
<1>1. TreeOK(tree')
    <2>1. Dir.dir = TRUE /\ Dir.size \in 0 .. Limit
        BY BoundsAssumption DEF Dir
    <2>2. TreeOK(Put(tree, p, Dir))
        BY <2>1, PutOK DEF FilesInv, ContainerMkdir, IsDir, Exists
    <2> QED BY <2>2 DEF ContainerMkdir
<1>2. AckOK'
    <2>1. acked.at \in DOMAIN tree => acked.at \in DOMAIN tree' /\ tree'[acked.at] = tree[acked.at]
        BY DEF ContainerMkdir, Exists, Put
    <2> QED BY <2>1, SameAckOK DEF FilesInv, ContainerMkdir
<1>3. AnswerOK' /\ JobOK'
    BY NoAnswerOK, IdleJob DEF FilesInv, ContainerMkdir
<1> QED BY <1>1, <1>2, <1>3 DEF FilesInv

LEMMA RemoveOK ==
    ASSUME FilesInv, NEW p \in Places, ContainerRemove(p)
    PROVE  FilesInv'
<1>1. TreeOK(tree')
    <2>1. TreeOK(Without(tree, {c \in DOMAIN tree : IsPrefix(p, c)}))
        BY WithoutOK DEF FilesInv, ContainerRemove
    <2> QED BY <2>1 DEF ContainerRemove, Under
<1>2. AckOK'
    <2>1. CASE IsPrefix(p, acked.at)
        BY <2>1 DEF ContainerRemove, AckOK
    <2>2. CASE ~IsPrefix(p, acked.at)
        <3>1. acked.at \in DOMAIN tree => acked.at \in DOMAIN tree' /\ tree'[acked.at] = tree[acked.at]
            BY <2>2 DEF ContainerRemove, Under, Without
        <3> QED BY <2>2, <3>1, SameAckOK DEF FilesInv, ContainerRemove
    <2> QED BY <2>1, <2>2
<1>3. AnswerOK' /\ JobOK'
    BY NoAnswerOK, IdleJob DEF FilesInv, ContainerRemove
<1> QED BY <1>1, <1>2, <1>3 DEF FilesInv

LEMMA CollectOK ==
    ASSUME FilesInv, Collect
    PROVE  FilesInv'
<1>1. TreeOK(tree') /\ AckOK'
    BY SameAckOK DEF FilesInv, Collect
<1>2. AnswerOK' /\ JobOK'
    BY NoAnswerOK, IdleJob DEF FilesInv, Collect
<1> QED BY <1>1, <1>2 DEF FilesInv

LEMMA ReadOK ==
    ASSUME FilesInv, NEW raw \in RawPaths, ReadFile(raw)
    PROVE  FilesInv'
<1> DEFINE path == sanitizePath(raw)
<1>1. path = Walk(<<>>, raw) /\ path \in Seq(Names)
    BY RawPathsDef, SanitizeIsWalk
<1>2. TreeOK(tree') /\ AckOK' /\ JobOK'
    BY SameAckOK, IdleJob DEF FilesInv, ReadFile, Idle
<1>3. raw = <<>> => path = <<>>
    <2> DEFINE segs == <<>>
    <2>1. segs \in Seq(Segments) /\ Len(segs) = 0
        BY EmptySeq
    <2> HIDE DEF segs
    <2>2. PICK c : CleanTrace(c, TRUE, segs)
        BY <2>1, CleanSteps
    <2>3. Clean(TRUE, segs) = <<>>
        BY <2>1, <2>2 DEF CleanTrace
    <2> QED BY <2>3 DEF sanitizePath, segs
<1>4. answer'.op = "read" /\ answer'.at = path
    BY <1>1 DEF ReadFile, Sent
<1>5. tree' = tree
    BY DEF ReadFile
<1>6. raw # <<>> /\ Exists(path) => Faithful(answer', tree[path].size)
    <2> SUFFICES ASSUME raw # <<>>, Exists(path) PROVE Faithful(answer', tree[path].size)
        OBVIOUS
    <2>1. tree[path].size \in Nat
        BY BoundsAssumption DEF FilesInv, TreeOK, Exists
    <2>2. \/ answer'.status = "ok" /\ answer'.size = tree[path].size
          \/ answer'.status = "failed" /\ answer'.link = "broken"
          \/ answer'.status = "ok" /\ answer'.link = "broken" /\ answer'.size \in 0 .. tree[path].size
        BY DEF ReadFile, Sent
    <2> HIDE DEF path
    <2> QED BY <2>1, <2>2 DEF Faithful
<1> HIDE DEF path
<1>7. AnswerOK'
    BY <1>1, <1>3, <1>4, <1>5, <1>6 DEF AnswerOK, Exists
<1> QED BY <1>2, <1>7 DEF FilesInv

-----------------------------------------------------------------------------
(* Write, list and install.                                                *)

\* A write that failed leaves a tree, the same at every other place.
LEMMA TornOK ==
    ASSUME TreeOK(tree), NEW path \in Seq(Names), Len(path) <= MaxDepth, CanPut(tree, path),
           NEW body \in 0 .. Limit, NEW u \in Torn(path, body)
    PROVE  TreeOK(u) /\ \A c \in DOMAIN tree : c # path => c \in DOMAIN u /\ u[c] = tree[c]
<1>1. /\ path # <<>> /\ Front(path) \in DOMAIN tree /\ tree[Front(path)].dir
      /\ path \in DOMAIN tree => ~tree[path].dir
    BY DEF CanPut, SplitDir
<1>2. path \in Places
    BY PlacesDef
<1>3. CASE u = tree
    BY <1>3
<1>4. CASE u = Without(tree, {path})
    <2>1. /\ DOMAIN u = DOMAIN tree \ {path}
          /\ \A c \in DOMAIN u : u[c] = tree[c]
        BY <1>4 DEF Without
    <2>2. \A p \in DOMAIN u : p # <<>> => Front(p) \in DOMAIN u /\ u[Front(p)].dir
        BY <1>1, <2>1 DEF TreeOK
    <2> QED BY <1>1, <2>1, <2>2 DEF TreeOK
<1>5. ASSUME NEW k \in 0 .. body, u = Put(tree, path, File(k)) PROVE TreeOK(u)
    <2>1. File(k).dir = FALSE /\ File(k).size \in 0 .. Limit
        BY BoundsAssumption DEF File
    <2> QED BY <1>1, <1>2, <1>5, <2>1, PutOK
<1>6. ASSUME NEW k \in 0 .. body, u = Put(tree, path, File(k))
      PROVE  \A c \in DOMAIN tree : c # path => c \in DOMAIN u /\ u[c] = tree[c]
    BY <1>6 DEF Put
<1> QED BY <1>3, <1>4, <1>5, <1>6 DEF Torn

LEMMA WriteOK ==
    ASSUME FilesInv, NEW raw \in RawPaths, NEW n \in 0 .. Limit + 1, WriteFile(raw, n)
    PROVE  FilesInv'
<1> DEFINE path == sanitizePath(raw)
           body == readAllMax(n)
<1>1. path = Walk(<<>>, raw) /\ path \in Seq(Names) /\ Len(path) <= MaxDepth
    BY RawPathsDef, SanitizeIsWalk DEF WriteFile
<1>2. JobOK'
    BY IdleJob DEF FilesInv, WriteFile, Idle
<1>3. answer'.op = "write"
    BY DEF WriteFile, Answered
<1>4. AnswerOK'
    BY <1>3 DEF AnswerOK
<1>5. CASE tree' = tree /\ acked' = acked
    BY <1>2, <1>4, <1>5, SameAckOK DEF FilesInv
<1>6. CASE /\ body # TooLarge /\ CanPut(tree, path)
           /\ tree' = Put(tree, path, File(body))
           /\ acked' = [at |-> path, size |-> n]
    <2>1. body = n /\ n \in 0 .. Limit
        BY <1>6, BoundsAssumption DEF readAllMax, TooLarge
    <2> HIDE DEF path, body
    <2>2. /\ path # <<>> /\ Front(path) \in DOMAIN tree /\ tree[Front(path)].dir
          /\ path \in DOMAIN tree => ~tree[path].dir
        BY <1>6 DEF CanPut, SplitDir
    <2>3. File(body).dir = FALSE /\ File(body).size = n
        BY <2>1 DEF File
    <2>4. path \in Places
        BY <1>1, PlacesDef
    <2>5. TreeOK(tree')
        BY <1>6, <2>1, <2>2, <2>3, <2>4, PutOK DEF FilesInv
    <2>6. path \in DOMAIN tree' /\ tree'[path] = File(body)
        BY <1>6 DEF Put
    <2>7. acked'.at = path /\ acked'.size = n
        BY <1>6
    <2>8. AckOK'
        BY <2>3, <2>6, <2>7 DEF AckOK
    <2> QED BY <1>2, <1>4, <2>5, <2>8 DEF FilesInv
<1>7. CASE /\ body # TooLarge /\ CanPut(tree, path) /\ tree' \in Torn(path, body)
           /\ acked' = IF path = acked.at THEN NoAck ELSE acked
    <2>1. body \in 0 .. Limit
        BY <1>7, BoundsAssumption DEF readAllMax, TooLarge
    <2> HIDE DEF path, body
    <2>2. TreeOK(tree') /\ \A c \in DOMAIN tree : c # path => c \in DOMAIN tree' /\ tree'[c] = tree[c]
        BY <1>1, <1>7, <2>1, TornOK DEF FilesInv
    <2>3. AckOK'
        <3>1. CASE path = acked.at
            BY <1>7, <3>1 DEF AckOK
        <3>2. CASE path # acked.at
            BY <1>7, <2>2, <3>2, SameAckOK DEF FilesInv
        <3> QED BY <3>1, <3>2
    <2> QED BY <1>2, <1>4, <2>2, <2>3 DEF FilesInv
<1> QED BY <1>1, <1>5, <1>6, <1>7 DEF WriteFile

\* Both listings answer for the tree as it is.
LEMMA ListingOK ==
    ASSUME FilesInv, UNCHANGED <<tree, gnu, acked>>, NEW at \in Seq(Names), NEW files, job' = NoJob,
           NEW way, answer' = Listed(at, files, way),
           way = "up" /\ Exists(at) => files \in {parseFileList(at), parseLSOutput(at)}
    PROVE  FilesInv'
<1>1. TreeOK(tree') /\ AckOK'
    BY SameAckOK DEF FilesInv
<1>2. JobOK'
    BY DEF JobOK
<1>3. answer'.op = "list" /\ answer'.at = at /\ answer'.files = files /\ answer'.link = way
    BY DEF Listed
<1>4. \A p : Children(p)' = Children(p)
    BY DEF Children
<1>5. \A p : parseFileList(p)' = parseFileList(p) /\ parseLSOutput(p)' = parseLSOutput(p)
    BY <1>4 DEF parseFileList, parseLSOutput, Exists, IsDir
<1>6. AnswerOK'
    BY <1>3, <1>5 DEF AnswerOK, Exists
<1> QED BY <1>1, <1>2, <1>6 DEF FilesInv

\* So does one that broke off, or failed.
LEMMA ListBreaksOK ==
    ASSUME FilesInv, UNCHANGED <<tree, gnu, acked>>, NEW at \in Seq(Names), NEW output, job' = NoJob,
           ListBreaks(at, output)
    PROVE  FilesInv'
<1>1. CASE answer' = Answered("list_failed", "failed")
    <2>1. answer'.op = "list_failed"
        BY <1>1 DEF Answered
    <2>2. AnswerOK' /\ JobOK'
        BY <2>1 DEF AnswerOK, JobOK
    <2> QED BY <2>2, SameAckOK DEF FilesInv
<1>2. ASSUME NEW files \in SUBSET output, answer' = Listed(at, files, "broken") PROVE FilesInv'
    BY <1>2, ListingOK
<1> QED BY <1>1, <1>2 DEF ListBreaks

LEMMA ListOK ==
    ASSUME FilesInv, NEW raw \in RawPaths, ListFiles(raw)
    PROVE  FilesInv'
<1> DEFINE path == sanitizePath(raw)
<1>1. path = Walk(<<>>, raw) /\ path \in Seq(Names)
    BY RawPathsDef, SanitizeIsWalk
<1>2. UNCHANGED <<tree, gnu, acked>> /\ job = NoJob /\ answer = NoAnswer
    BY DEF ListFiles, Idle
<1>3. CASE answer' = Listed(path, parseFileList(path), "up") /\ job' = job
    <2> HIDE DEF path
    <2> QED BY <1>1, <1>2, <1>3, ListingOK
<1>4. CASE job' = [op |-> "ls", path |-> path, at |-> path] /\ answer' = answer
    <2> HIDE DEF path
    <2>1. job'.op = "ls" /\ job'.path = path /\ job'.at = path
        BY <1>4
    <2>2. JobOK'
        BY <1>1, <1>2, <1>4, <2>1 DEF JobOK
    <2> QED BY <1>2, <1>4, <2>2, SameAckOK, SameAnswerOK DEF FilesInv
<1>5. ASSUME NEW output, ListBreaks(path, output), job' = job PROVE FilesInv'
    <2> HIDE DEF path
    <2> QED BY <1>1, <1>2, <1>5, ListBreaksOK
<1> QED BY <1>1, <1>3, <1>4, <1>5 DEF ListFiles

LEMMA ListLSOK ==
    ASSUME FilesInv, listFilesWithLS
    PROVE  FilesInv'
<1>1. job.op = "ls" /\ job.path = job.at /\ job.at \in Seq(Names)
    BY DEF FilesInv, JobOK, listFilesWithLS, NoJob
<1>2. UNCHANGED <<tree, gnu, acked>> /\ job' = NoJob
    BY DEF listFilesWithLS
<1>3. CASE answer' = Listed(job.at, parseLSOutput(job.path), "up")
    BY <1>1, <1>2, <1>3, ListingOK
<1>4. CASE ListBreaks(job.at, parseLSOutput(job.path))
    BY <1>1, <1>2, <1>4, ListBreaksOK
<1> QED BY <1>3, <1>4 DEF listFilesWithLS

LEMMA InstallOK ==
    ASSUME FilesInv, NEW archive \in Archives, InstallSkill(archive)
    PROVE  FilesInv'
<1>1. acked' = acked /\ job = NoJob /\ answer = NoAnswer
    BY DEF InstallSkill, Idle
<1>2. TreeOK(tree')
    <2>1. Dir.dir = TRUE /\ Dir.size \in 0 .. Limit
        BY BoundsAssumption DEF Dir
    <2>2. Front(DestDir) \in DOMAIN tree /\ tree[Front(DestDir)].dir
        BY SkillNames DEF FilesInv, TreeOK
    <2>3. ~Exists(DestDir) => TreeOK(Put(tree, DestDir, Dir))
        BY <2>1, <2>2, SkillNames, SkillPlaces, PutOK DEF FilesInv, Exists
    <2> QED BY <2>3 DEF FilesInv, InstallSkill
<1>3. AckOK'
    <2>1. acked.at \in DOMAIN tree => acked.at \in DOMAIN tree' /\ tree'[acked.at] = tree[acked.at]
        BY DEF Exists, Put, InstallSkill
    <2> QED BY <1>1, <2>1, SameAckOK DEF FilesInv
<1>4. CASE /\ validateSkillTar(archive)
           /\ job' = [op |-> "push", archive |-> archive] /\ answer' = answer
    <2>1. job'.op = "push" /\ job'.archive = archive
        BY <1>4
    <2>2. JobOK'
        BY <1>1, <1>4, <2>1 DEF JobOK
    <2> QED BY <1>1, <1>2, <1>3, <1>4, <2>2, NoAnswerOK DEF FilesInv
<1>5. ASSUME NEW status, status # "ok", answer' = Answered("push", status), job' = job
      PROVE  FilesInv'
    <2>1. answer'.op = "push" /\ answer'.status = status
        BY <1>5 DEF Answered
    <2>2. AnswerOK'
        BY <1>5, <2>1 DEF AnswerOK
    <2> QED BY <1>1, <1>2, <1>3, <1>5, <2>2, IdleJob DEF FilesInv
<1>6. "failed" # "ok" /\ "bad_request" # "ok"
    OBVIOUS
<1> QED BY <1>4, <1>5, <1>6 DEF InstallSkill

-----------------------------------------------------------------------------
(* Extraction as a step, and the theorems.                                 *)

\* An extraction takes nothing away.
LEMMA ExtractKeeps ==
    ASSUME NEW t, NEW e
    PROVE  DOMAIN t \subseteq DOMAIN Extract(t, e)
    BY DEF Extract, Put

\* Two extractions that change nothing outside change nothing outside.
LEMMA SameOutsideTwice ==
    ASSUME NEW t, NEW u, NEW v, SameOutside(t, u), SameOutside(u, v)
    PROVE  SameOutside(t, v)
    BY DEF SameOutside

\* The second entry, once the manifest is a file in its place.
LEMMA ExtractSecond ==
    ASSUME NEW t, TreeOK(t), HasDir(t), ManifestAt \in DOMAIN t, ~t[ManifestAt].dir,
           NEW e \in ArchiveEntries, Safe(e)
    PROVE  TreeOK(Extract(t, e)) /\ SameOutside(t, Extract(t, e))
<1>1. CASE ~CanExtract(t, e)
    BY <1>1, ExtractNot
<1>2. CASE CanExtract(t, e)
    <2>1. Target(e) = DestDir \/ Target(e) = ManifestAt
        BY <1>2, SafeTarget, NotBelowAFile
    <2> QED BY <1>2, <2>1, ExtractOne
<1> QED BY <1>1, <1>2

\* A push keeps the tree a tree and changes nothing outside the directory;
\* when it succeeds, the manifest is there.
LEMMA PushedOK ==
    ASSUME FilesInv, ExtractArchive
    PROVE  /\ TreeOK(tree') /\ SameOutside(tree, tree')
           /\ answer'.status = "ok" => ManifestAt \in DOMAIN tree'
<1> DEFINE a == job.archive
           first == Extract(tree, a[1])
           all == IF Len(a) = 1 \/ ~CanExtract(tree, a[1]) THEN first ELSE Extract(first, a[2])
           complete == CanExtract(tree, a[1]) /\ (Len(a) = 2 => CanExtract(first, a[2]))
<1>1. a \in Archives /\ validateSkillTar(a)
    BY DEF FilesInv, JobOK, ExtractArchive, NoJob
<1>2. /\ Target(a[1]) = ManifestAt
      /\ \/ Len(a) = 1
         \/ Len(a) = 2 /\ a[1].type = "file" /\ a[2] \in ArchiveEntries /\ Safe(a[2])
    BY <1>1, ArchiveShape
<1>3. \/ tree' = tree /\ answer'.status = "failed"
      \/ IsDir(DestDir) /\ tree' = all /\ (answer'.status = "ok" => complete)
      \/ IsDir(DestDir) /\ tree' \in {tree, first, all} /\ answer'.status = "failed"
    BY DEF ExtractArchive, Answered
<1>4. TreeOK(tree) /\ SameOutside(tree, tree)
    BY DEF FilesInv, SameOutside
<1>5. ASSUME IsDir(DestDir)
      PROVE  /\ TreeOK(first) /\ SameOutside(tree, first)
             /\ TreeOK(all) /\ SameOutside(tree, all)
             /\ complete => ManifestAt \in DOMAIN all
    <2>1. CASE ~CanExtract(tree, a[1])
        <3>1. first = tree /\ all = first
            BY <2>1, ExtractNot
        <3> QED BY <1>4, <2>1, <3>1
    <2>2. CASE CanExtract(tree, a[1])
        <3>1. HasDir(tree)
            BY <1>5 DEF HasDir, IsDir, Exists
        <3>2. /\ TreeOK(first) /\ HasDir(first) /\ SameOutside(tree, first)
              /\ ManifestAt \in DOMAIN first
              /\ first[ManifestAt].dir <=> a[1].type = "dir"
            BY <1>2, <1>4, <2>2, <3>1, ExtractOne
        <3>3. CASE Len(a) = 1
            <4>1. all = first
                BY <3>3
            <4> QED BY <3>2, <4>1
        <3>4. CASE Len(a) = 2 /\ a[1].type = "file" /\ a[2] \in ArchiveEntries /\ Safe(a[2])
            <4>1. all = Extract(first, a[2])
                BY <2>2, <3>4
            <4> HIDE DEF first, all
            <4>2. ~first[ManifestAt].dir
                BY <3>2, <3>4
            <4>3. TreeOK(all) /\ SameOutside(first, all)
                BY <3>2, <3>4, <4>1, <4>2, ExtractSecond
            <4>4. ManifestAt \in DOMAIN all
                BY <3>2, <4>1, ExtractKeeps
            <4> QED BY <3>2, <4>3, <4>4, SameOutsideTwice
        <3> QED BY <1>2, <3>3, <3>4
    <2> QED BY <2>1, <2>2
<1> HIDE DEF first, all, complete
<1> QED BY <1>3, <1>4, <1>5

LEMMA ExtractArchiveOK ==
    ASSUME FilesInv, ExtractArchive
    PROVE  FilesInv'
<1>1. TreeOK(tree')
    BY PushedOK
<1>2. job' = NoJob /\ answer'.op = "push"
    BY DEF ExtractArchive, Answered
<1>3. JobOK'
    BY <1>2 DEF JobOK
<1>4. AnswerOK'
    BY <1>2, PushedOK DEF AnswerOK, Exists
<1>5. AckOK'
    <2>1. CASE acked.at \in DOMAIN tree' /\ tree'[acked.at] = tree[acked.at]
        BY <2>1, SameAckOK DEF FilesInv, ExtractArchive
    <2>2. CASE ~(acked.at \in DOMAIN tree' /\ tree'[acked.at] = tree[acked.at])
        BY <2>2 DEF ExtractArchive, AckOK
    <2> QED BY <2>1, <2>2
<1> QED BY <1>1, <1>3, <1>4, <1>5 DEF FilesInv

\* Every step keeps the invariant.
LEMMA FilesStepOK ==
    ASSUME FilesInv, [FilesNext]_filesVars
    PROVE  FilesInv'
<1>1. CASE UNCHANGED filesVars
    <2>1. TreeOK(tree') /\ AckOK' /\ JobOK'
        BY <1>1, SameAckOK DEF FilesInv, filesVars, JobOK
    <2> QED BY <1>1, <2>1, SameAnswerOK DEF FilesInv, filesVars
<1>2. ASSUME NEW p \in Places, ContainerMkdir(p) \/ ContainerRemove(p) PROVE FilesInv'
    BY <1>2, MkdirOK, RemoveOK
<1>3. ASSUME NEW raw \in RawPaths, ReadFile(raw) \/ ListFiles(raw) \/ \E n \in 0 .. Limit + 1 : WriteFile(raw, n)
      PROVE  FilesInv'
    BY <1>3, ReadOK, ListOK, WriteOK
<1>4. CASE listFilesWithLS
    BY <1>4, ListLSOK
<1>5. CASE Collect
    BY <1>5, CollectOK
<1>6. ASSUME NEW archive \in Archives, InstallSkill(archive) PROVE FilesInv'
    BY <1>6, InstallOK
<1>7. CASE ExtractArchive
    BY <1>7, ExtractArchiveOK
<1> QED BY <1>1, <1>2, <1>3, <1>4, <1>5, <1>6, <1>7 DEF FilesNext

\* The invariant holds always.
LEMMA FilesInvariant == FilesSpec => []FilesInv
<1>1. FilesInit => FilesInv
    BY FilesInitOK
<1>2. FilesInv /\ [FilesNext]_filesVars => FilesInv'
    BY FilesStepOK
<1> QED BY <1>1, <1>2, PTL DEF FilesSpec

\* A read returns what the last write that was answered 204 put there, under
\* every spelling of the path, and only its beginning if the link broke.
THEOREM ReadsAlwaysLastWrite == FilesSpec => []ReadsLastWrite
<1>1. FilesInv => ReadsLastWrite
    <2> SUFFICES ASSUME FilesInv, answer.op = "read", answer.at = acked.at
                 PROVE  Faithful(answer, acked.size)
        BY DEF ReadsLastWrite, Faithful
    <2>1. /\ answer.at \in Seq(Names)
          /\ answer.at # <<>> /\ answer.at \in DOMAIN tree => Faithful(answer, tree[answer.at].size)
        BY DEF FilesInv, AnswerOK, Exists
    <2>2. acked # NoAck
        <3>1. ASSUME acked = NoAck PROVE FALSE
            <4>1. answer.at = <<".">>
                BY <3>1 DEF NoAck
            <4>2. answer.at[1] = "." /\ Len(answer.at) = 1
                BY <4>1
            <4>3. "." \in Names
                BY <2>1, <4>2, ElementOfSeq
            <4> QED BY <4>3, NamesAssumption, Zenon
        <3> QED BY <3>1
    <2>3. acked.at \in DOMAIN tree /\ ~tree[acked.at].dir /\ tree[acked.at].size = acked.size
        BY <2>2 DEF FilesInv, AckOK
    <2>4. acked.at # <<>>
        BY <2>3 DEF FilesInv, TreeOK
    <2> QED BY <2>1, <2>3, <2>4
<1> QED BY <1>1, FilesInvariant, PTL

\* The tree is a tree in every state.
LEMMA FilesTypes == FilesSpec => []FilesTypeOK
<1>1. FilesInv => FilesTypeOK
    <2> SUFFICES ASSUME FilesInv PROVE FilesTypeOK
        OBVIOUS
    <2>1. job.op \in {"none", "ls", "push"}
        BY DEF FilesInv, JobOK, NoJob
    <2> QED BY <2>1 DEF FilesInv, TreeOK, FilesTypeOK, IsDir, Exists
<1> QED BY <1>1, FilesInvariant, PTL

\* The listing of a directory: its children under their own paths, and with
\* find the directory itself.
LEMMA ListingOfDir ==
    ASSUME FilesInv, answer.op = "list", answer.link = "up", IsDir(answer.at)
    PROVE  LET children == {[path |-> c, dir |-> tree[c].dir] : c \in Children(answer.at)}
               itself == [path |-> Append(answer.at, BaseName(answer.at)), dir |-> TRUE]
           IN  children \subseteq answer.files /\ answer.files \subseteq children \cup {itself}
<1> DEFINE at == answer.at
           children == {[path |-> c, dir |-> tree[c].dir] : c \in Children(at)}
           listed == {Entry(at, Last(c), tree[c]) : c \in Children(at)}
           itself == [path |-> Append(at, BaseName(at)), dir |-> TRUE]
<1>1. at \in Seq(Names) /\ answer.files \in {parseFileList(at), parseLSOutput(at)}
    BY DEF FilesInv, AnswerOK, IsDir
<1>2. ASSUME NEW c \in Children(at) PROVE Entry(at, Last(c), tree[c]) = [path |-> c, dir |-> tree[c].dir]
    <2>1. c \in Seq(Names) /\ Len(c) = Len(at) + 1 /\ IsPrefix(at, c)
        BY PlacesDef DEF Children, FilesInv, TreeOK
    <2>2. Append(at, Last(c)) = c
        BY <1>1, <2>1, ChildIsAppend
    <2> QED BY <2>2 DEF Entry
<1>3. listed = children
    BY <1>2
<1>4. Entry(at, BaseName(at), tree[at]) = itself
    BY DEF Entry, IsDir, Exists, FilesInv, TreeOK
<1>5. parseLSOutput(at) = listed
    BY DEF parseLSOutput
<1>6. parseFileList(at) = {itself} \cup listed
    BY <1>4 DEF parseFileList
<1> HIDE DEF listed, children, itself, at
<1>7. children \subseteq answer.files /\ answer.files \subseteq children \cup {itself}
    BY <1>1, <1>3, <1>5, <1>6
<1> QED BY <1>7 DEF children, itself, at

\* A listing holds all children of the directory the client meant, under paths
\* that lead to them, and nothing else but, with find, the directory itself.
THEOREM ListingsAlwaysComplete == FilesSpec => []ListingComplete
<1>1. FilesInv /\ FilesTypeOK => ListingComplete
    BY ListingOfDir DEF ListingComplete
<1> QED BY <1>1, FilesInvariant, FilesTypes, PTL

\* A push that succeeds leaves the skill's manifest in place.
THEOREM ManifestAlwaysInstalled == FilesSpec => []ManifestInstalled
<1>1. FilesInv => ManifestInstalled
    BY DEF FilesInv, AnswerOK, ManifestInstalled, ManifestAt
<1> QED BY <1>1, FilesInvariant, PTL

\* An archive that validateSkillTar let pass changes nothing outside the
\* skill's directory.
THEOREM AlwaysExtractsInside == FilesSpec => ExtractsInside
<1> DEFINE Inside ==
        job.op = "push" /\ job' = NoJob =>
            \A p \in (DOMAIN tree \cup DOMAIN tree') :
                ~IsPrefix(DestDir, p) => p \in DOMAIN tree /\ p \in DOMAIN tree' /\ tree'[p] = tree[p]
<1>1. FilesInv /\ [FilesNext]_filesVars => [Inside]_filesVars
    <2> SUFFICES ASSUME FilesInv, FilesNext, job.op = "push", job' = NoJob PROVE Inside
        OBVIOUS
    <2>1. job # NoJob /\ job' # job
        BY DEF NoJob
    <2>2. ExtractArchive
        BY <2>1 DEF FilesNext, ContainerMkdir, ContainerRemove, ReadFile, ListFiles, WriteFile, Idle,
                    listFilesWithLS, Collect, InstallSkill
    <2>3. SameOutside(tree, tree')
        BY <2>2, PushedOK
    <2> QED BY <2>3 DEF SameOutside
<1> QED BY <1>1, FilesInvariant, PTL DEF FilesSpec, ExtractsInside
==============================================================================
