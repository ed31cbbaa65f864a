---------------------------- MODULE ExecWSProofs -----------------------------
(***************************************************************************)
(* Proofs about ExecWS, for any amount of output: what a terminal session  *)
(* leaves behind, and what its exit message is worth.                      *)
(***************************************************************************)
EXTENDS ExecWS, TLAPS

-----------------------------------------------------------------------------
(* The inductive invariant.                                                *)

\* Where each goroutine can be.
Places ==
    /\ pc["main"] \in {"dial", "refuse", "touch", "wait", "close", "done"}
    /\ pc["out"] \in {"unborn", "read", "send", "inspect", "tell", "close", "done"}
    /\ pc["in"] \in {"unborn", "read", "write", "resize", "close", "done"}
    /\ pc["ping"] \in {"unborn", "loop", "close", "done"}
    /\ pc["keep"] \in {"unborn", "loop", "touch", "done"}

\* Where the handler is, against what it has started and joined.
Handler ==
    /\ pc["main"] \in {"dial", "refuse"} => session = "none"
    /\ session = "none" => /\ pc["main"] \in {"dial", "refuse", "done"} /\ once = "no"
                           /\ \A g \in Goroutines \ {"main"} : pc[g] = "unborn"
                           /\ conn = IF pc["main"] = "done" THEN "closed" ELSE "open"
    /\ pc["main"] = "touch" => pc["out"] = "unborn" /\ pc["in"] = "unborn"
    /\ pc["main"] \in {"close", "done"} /\ session # "none" => pc["out"] = "done" /\ pc["in"] = "done"

\* closeAll: who runs its body, and how far that is.
Closing ==
    /\ session # "none" /\ once = "no" => session = "open" /\ conn = "open"
    /\ once = "no" => closer = "none"
    /\ once # "no" => session = "closed" /\ closer \in {"out", "in", "ping"} /\ pc[closer] \in {"close", "done"}
    /\ once = "done" => conn = "closed"
    /\ \A g \in Closers : pc[g] = "done" /\ session # "none" /\ g # "ping" => once = "done"

\* Who is about to run it, or has, and what that says of client and message.
Causes ==
    /\ pc["ping"] = "close" /\ once = "no" => client # "ok"
    /\ closer = "ping" => client # "ok"
    /\ pc["out"] = "close" /\ once = "no" /\ client = "ok" => told # "none"
    /\ closer = "out" /\ client = "ok" => told # "none"

\* What the output side has read and sent.
Stream ==
    /\ last = "eof" => process = "exited" /\ taken = produced
    /\ last = "error" => link = "lost" \/ closer \in {"in", "ping"}
    /\ pc["out"] = "unborn" => last = "more" /\ sent = taken
    /\ pc["out"] = "read" => last = "more" /\ sent = taken
    /\ pc["out"] \in {"inspect", "tell"} => last # "more"
    /\ pc["out"] \in {"inspect", "tell"} => sent = taken
    /\ pc["out"] = "close" /\ once = "no" /\ client = "ok" => sent = taken
    /\ closer = "out" /\ client = "ok" => sent = taken

\* What it has learnt of the process, and told.
Exit ==
    /\ pc["out"] = "tell" => code # "none"
    /\ code = "alive" => link = "lost" \/ closer \in {"in", "ping"}
    /\ told = "alive" => link = "lost" \/ closer \in {"in", "ping"}

IInv == TypeOK /\ Places /\ Handler /\ Closing /\ Causes /\ Stream /\ Exit

LEMMA Initially == Init => IInv
BY OutputAssumption DEF Init, IInv, TypeOK, Places, Handler, Closing, Causes, Stream, Exit, Goroutines, Closers, Codes

\* The handler.
LEMMA MainSteps == IInv /\ MainStep => IInv'
<1>. SUFFICES ASSUME IInv, MainStep PROVE IInv'
  OBVIOUS
<1>. USE DEF IInv, MainStep, Dial, Refuse, FirstTouch, Joined, Goto, procVars, outVars, closeVars, clientVars, Goroutines, Closers
<1>1. TypeOK'
  BY DEF TypeOK, Codes
<1>2. Places'
  BY DEF TypeOK, Places
<1>3. Handler'
  BY DEF TypeOK, Places, Handler, Closing
<1>4. Closing'
  BY DEF TypeOK, Places, Handler, Closing
<1>5. Causes'
  BY DEF TypeOK, Places, Handler, Closing, Causes, Exit
<1>6. Stream'
  BY DEF TypeOK, Places, Handler, Closing, Causes, Stream
<1>7. Exit'
  BY DEF TypeOK, Places, Handler, Closing, Stream, Exit
<1>. QED BY <1>1, <1>2, <1>3, <1>4, <1>5, <1>6, <1>7

\* What a Read returns is in flight; an end or an error has its cause.
LEMMA ReadIs ==
    ASSUME TypeOK, NEW r \in ReadResults
    PROVE  /\ r[1] \in Nat /\ taken + r[1] <= produced /\ r[2] \in {"more", "eof", "error"}
           /\ r[2] = "more" => r[1] > 0
           /\ r[2] = "eof" => process = "exited" /\ taken + r[1] = produced
           /\ r[2] = "error" => r[1] = 0 /\ (link = "lost" \/ session = "closed")
BY OutputAssumption DEF TypeOK, ReadResults

\* The input side.
LEMMA InSteps == IInv /\ InStep => IInv'
<1>. SUFFICES ASSUME IInv, InStep PROVE IInv'
  OBVIOUS
<1>. USE DEF IInv, InStep, InMessage, InOversized, InReadFails, InDone, InWriteFails, Goto, procVars, outVars, closeVars, clientVars, Goroutines, Closers
<1>1. TypeOK'
  BY DEF TypeOK, Codes
<1>2. Places'
  BY DEF TypeOK, Places
<1>3. Handler'
  BY DEF TypeOK, Places, Handler, Closing
<1>4. Closing'
  BY DEF TypeOK, Places, Handler, Closing
<1>5. Causes'
  BY DEF TypeOK, Places, Handler, Closing, Causes, Exit
<1>6. Stream'
  BY DEF TypeOK, Places, Handler, Closing, Causes, Stream
<1>7. Exit'
  BY DEF TypeOK, Places, Handler, Closing, Stream, Exit
<1>. QED BY <1>1, <1>2, <1>3, <1>4, <1>5, <1>6, <1>7

\* The tickers.
LEMMA TickerSteps == IInv /\ TickerStep => IInv'
<1>. SUFFICES ASSUME IInv, TickerStep PROVE IInv'
  OBVIOUS
<1>. USE DEF IInv, TickerStep, PingFails, KeepTick, KeepTouch, TickerExits, Cancelled, Goto, procVars, outVars, closeVars, clientVars, Goroutines, Closers
<1>1. TypeOK'
  BY DEF TypeOK, Codes
<1>2. Places'
  BY DEF TypeOK, Places
<1>3. Handler'
  BY DEF TypeOK, Places, Handler, Closing
<1>4. Closing'
  BY DEF TypeOK, Places, Handler, Closing
<1>5. Causes'
  BY DEF TypeOK, Places, Handler, Closing, Causes, Exit
<1>6. Stream'
  BY DEF TypeOK, Places, Handler, Closing, Causes, Stream
<1>7. Exit'
  BY DEF TypeOK, Places, Handler, Closing, Stream, Exit
<1>. QED BY <1>1, <1>2, <1>3, <1>4, <1>5, <1>6, <1>7

\* Process, daemon and client.
LEMMA WorldSteps == IInv /\ World => IInv'
<1>. SUFFICES ASSUME IInv, World PROVE IInv'
  OBVIOUS
<1>. USE DEF IInv, World, ProcessWrites, ProcessExits, LinkLost, ClientFails, DeadlinePasses, Started, Goto, procVars, outVars, closeVars, clientVars, Goroutines, Closers
<1>1. TypeOK'
  BY OutputAssumption DEF TypeOK, Codes, Stream, Handler
<1>2. Places'
  BY DEF TypeOK, Places
<1>3. Handler'
  BY DEF TypeOK, Places, Handler, Closing
<1>4. Closing'
  BY DEF TypeOK, Places, Handler, Closing
<1>5. Causes'
  BY DEF TypeOK, Places, Handler, Closing, Causes, Exit
<1>6. Stream'
  BY OutputAssumption DEF TypeOK, Places, Handler, Closing, Causes, Stream
<1>7. Exit'
  BY DEF TypeOK, Places, Handler, Closing, Stream, Exit
<1>. QED BY <1>1, <1>2, <1>3, <1>4, <1>5, <1>6, <1>7

\* The output side.
LEMMA OutSteps == IInv /\ OutStep => IInv'
<1>. SUFFICES ASSUME IInv, OutStep PROVE IInv'
  OBVIOUS
<1>. USE DEF IInv, OutStep, OutRead, OutSend, OutInspect, OutTell, AfterSend, Goto, procVars, outVars, closeVars, clientVars, Goroutines, Closers
<1>1. TypeOK'
  BY ReadIs, OutputAssumption DEF TypeOK, Codes, Stream, Handler
<1>2. Places'
  BY DEF TypeOK, Places
<1>3. Handler'
  BY DEF TypeOK, Places, Handler, Closing
<1>4. Closing'
  BY DEF TypeOK, Places, Handler, Closing
<1>5. Causes'
  BY DEF TypeOK, Places, Handler, Closing, Causes, Exit
<1>6. Stream'
  BY ReadIs, OutputAssumption DEF TypeOK, Places, Handler, Closing, Causes, Stream
<1>7. Exit'
  BY DEF TypeOK, Places, Handler, Closing, Stream, Exit
<1>. QED BY <1>1, <1>2, <1>3, <1>4, <1>5, <1>6, <1>7

\* closeAll.  The handler comes to it when both sides have been through it, so
\* that it never runs the body itself.
LEMMA CloseSteps ==
    ASSUME IInv, NEW g \in Closers, CloseStep(g)
    PROVE  IInv'
<1>. USE DEF IInv, CloseStep, CloseSession, CloseConn, CloseReturns, Goto, procVars, outVars, closeVars,
             clientVars, Goroutines, Closers
<1>1. TypeOK'
  BY DEF TypeOK
<1>2. Places'
  BY DEF TypeOK, Places
<1>3. Handler'
  BY DEF TypeOK, Places, Handler, Closing
<1>4. Closing'
  BY DEF TypeOK, Places, Handler, Closing
<1>5. Causes'
  BY DEF TypeOK, Places, Handler, Closing, Causes
<1>6. Stream'
  BY DEF TypeOK, Places, Handler, Closing, Causes, Stream
<1>7. Exit'
  BY DEF TypeOK, Places, Handler, Closing, Stream, Exit
<1>. QED BY <1>1, <1>2, <1>3, <1>4, <1>5, <1>6, <1>7

LEMMA Preserved == IInv /\ [Next]_vars => IInv'
<1>. SUFFICES ASSUME IInv, [Next]_vars PROVE IInv'
  OBVIOUS
<1>1. CASE Rest \/ UNCHANGED vars
  BY <1>1 DEF Rest, vars, procVars, outVars, closeVars, clientVars, IInv, TypeOK, Places, Handler, Closing,
              Causes, Stream, Exit
<1>. QED BY <1>1, MainSteps, OutSteps, InSteps, TickerSteps, WorldSteps, CloseSteps DEF Next

-----------------------------------------------------------------------------
(* The theorems.                                                           *)

\* Every step of the five goroutines, the process, the daemon and the client
\* keeps their positions consistent with what was closed, read and told.
THEOREM Invariance == Spec => []IInv
BY Initially, Preserved, PTL DEF Spec

\* A handler that has returned leaves neither connection open and neither
\* side behind.
THEOREM AlwaysReturnsClean == Spec => []ReturnsClean
<1>1. IInv => ReturnsClean
  BY DEF IInv, TypeOK, Places, Handler, Closing, ReturnsClean, Goroutines, Closers
<1>. QED BY <1>1, Invariance, PTL

\* A 0 for a process that runs, and a message that is missing, have the
\* causes that ExitExplained names; otherwise all output comes before it.
THEOREM ExitAlwaysExplained == Spec => []ExitExplained
<1>1. IInv => ExitExplained
  BY DEF IInv, TypeOK, Places, Handler, Closing, Causes, Stream, Exit, ExitExplained, Finished, Started,
         Goroutines, Closers
<1>. QED BY <1>1, Invariance, PTL
=============================================================================
