------------------------------- MODULE ExecWS -------------------------------
(***************************************************************************)
(* One interactive terminal session, ExecWSHandler.ExecWS, from the        *)
(* WebSocket upgrade on.  Five goroutines share a Docker exec session and  *)
(* a WebSocket connection: "main" (the handler), "out" (Docker to client), *)
(* "in" (client to Docker), "ping" and "keep" (the keep-alive ticker).     *)
(* closeAll, run once by whichever of them needs it first, is what frees   *)
(* the others from their blocking calls; the module is about whether it    *)
(* always does, and about what the client has been told by then.           *)
(*                                                                         *)
(* The lookup of the environment and what a touch does to its record are   *)
(* in EnvLifecycle (OpenExecWS, Touch, KeepAlive).                         *)
(***************************************************************************)
EXTENDS Naturals

CONSTANT MaxOutput      \* bound: chunks of output the process writes

ASSUME OutputAssumption == MaxOutput \in Nat

VARIABLES
    pc,         \* where each goroutine is
    process,    \* the exec'd process inside the container
    produced,   \* chunks of output the process has written
    taken,      \* chunks "out" has read from the session
    sent,       \* chunks "out" has written to the WebSocket
    last,       \* what the latest Read returned: "more", "eof" or "error"
    link,       \* the attach connection to the Docker daemon
    session,    \* our end of it
    conn,       \* our end of the WebSocket
    client,     \* "ok", "silent" (connected, answers nothing) or "gone"
    deadline,   \* the read deadline of conn: "ahead" or "passed"
    once,       \* closeOnce: "no", "closing" or "done"
    closer,     \* the goroutine that runs the body of closeOnce
    code,       \* what ExecExitCode answered
    told        \* the exit message the client was sent

procVars == <<process, produced, link>>
outVars == <<taken, sent, last, code, told>>
closeVars == <<session, conn, once, closer>>
clientVars == <<client, deadline>>
vars == <<pc, procVars, outVars, closeVars, clientVars>>

Goroutines == {"main", "out", "in", "ping", "keep"}
Closers == {"main", "out", "in", "ping"}

\* "exited": the exit code of a finished process; "alive": the zero that
\* Docker reports for a process that still runs; "unknown": -1.
Codes == {"none", "exited", "alive", "unknown"}

\* The context of the session; closeAll cancels it first.
Cancelled == once # "no"

Goto(g, there) == pc' = [pc EXCEPT ![g] = there]

Init ==
    /\ pc = [g \in Goroutines |-> IF g = "main" THEN "dial" ELSE "unborn"]
    /\ process = "running" /\ produced = 0 /\ link = "up"
    /\ taken = 0 /\ sent = 0 /\ last = "more" /\ code = "none" /\ told = "none"
    /\ session = "none" /\ conn = "open" /\ once = "no" /\ closer = "none"
    /\ client = "ok" /\ deadline = "ahead"

-----------------------------------------------------------------------------
(* The handler goroutine.                                                  *)

\* ExecInteractive, then the ping and keep-alive goroutines are started.
Dial ==
    /\ pc["main"] = "dial"
    /\ \/ /\ session' = "open"
          /\ pc' = [pc EXCEPT !["main"] = "touch", !["ping"] = "loop", !["keep"] = "loop"]
       \/ Goto("main", "refuse") /\ UNCHANGED session
    /\ UNCHANGED <<procVars, outVars, conn, once, closer, clientVars>>

\* The session could not be started: an error message, conn.Close, return.
Refuse ==
    /\ pc["main"] = "refuse"
    /\ conn' = "closed"
    /\ Goto("main", "done")
    /\ UNCHANGED <<procVars, outVars, session, once, closer, clientVars>>

\* The first Update of LastUsedAt, then "out" and "in" are started.
FirstTouch ==
    /\ pc["main"] = "touch"
    /\ pc' = [pc EXCEPT !["main"] = "wait", !["out"] = "read", !["in"] = "read"]
    /\ UNCHANGED <<procVars, outVars, closeVars, clientVars>>

\* wg.Wait returns; the deferred calls are next.
Joined ==
    /\ pc["main"] = "wait"
    /\ pc["out"] = "done" /\ pc["in"] = "done"
    /\ Goto("main", "close")
    /\ UNCHANGED <<procVars, outVars, closeVars, clientVars>>

-----------------------------------------------------------------------------
(* closeAll.                                                               *)

\* A bug: the Docker side is left open.
MutantCloseSession(g) ==
    /\ pc[g] = "close" /\ once = "no"
    /\ once' = "closing" /\ closer' = g
    /\ UNCHANGED <<pc, procVars, outVars, session, conn, clientVars>>

\* The first caller enters the body: cancel() and session.Close().
CloseSession(g) ==
    /\ pc[g] = "close" /\ once = "no"
    /\ once' = "closing" /\ closer' = g
    /\ session' = "closed"
    /\ UNCHANGED <<pc, procVars, outVars, conn, clientVars>>

\* A bug: the WebSocket is left open.
MutantCloseConn(g) ==
    /\ pc[g] = "close" /\ once = "closing" /\ closer = g
    /\ once' = "done"
    /\ UNCHANGED <<pc, procVars, outVars, session, conn, closer, clientVars>>

\* The body ends with conn.Close().
CloseConn(g) ==
    /\ pc[g] = "close" /\ once = "closing" /\ closer = g
    /\ conn' = "closed" /\ once' = "done"
    /\ UNCHANGED <<pc, procVars, outVars, session, closer, clientVars>>

\* Once.Do returns, to the first caller and to those it kept waiting.
CloseReturns(g) ==
    /\ pc[g] = "close" /\ once = "done"
    /\ Goto(g, "done")
    /\ UNCHANGED <<procVars, outVars, closeVars, clientVars>>

-----------------------------------------------------------------------------
(* Docker to WebSocket.                                                    *)

\* What Read may return: some of the chunks in flight, an end of file once
\* the process has exited and nothing is in flight beyond this Read, or an
\* error; io.Reader allows data together with the end.
ReadResults ==
    IF session = "closed" THEN {<<0, "error">>}
    ELSE {<<n, "more">> : n \in 1 .. (produced - taken)}
         \cup {r \in {<<produced - taken, "eof">>} : process = "exited" /\ link = "up"}
         \cup {r \in {<<0, "error">>} : link = "lost"}

AfterSend(result) == IF result = "more" THEN "read" ELSE "inspect"

\* A bug: err is looked at before n, as if data never came with the end.
MutantOutRead ==
    /\ pc["out"] = "read"
    /\ \E r \in ReadResults :
         /\ taken' = taken + r[1] /\ last' = r[2]
         /\ Goto("out", IF r[2] = "more" THEN "send" ELSE "inspect")
    /\ UNCHANGED <<procVars, sent, code, told, closeVars, clientVars>>

OutRead ==
    /\ pc["out"] = "read"
    /\ \E r \in ReadResults :
         /\ taken' = taken + r[1] /\ last' = r[2]
         /\ Goto("out", IF r[1] > 0 THEN "send" ELSE AfterSend(r[2]))
    /\ UNCHANGED <<procVars, sent, code, told, closeVars, clientVars>>

\* wsSend of the chunks just read.  A write to a client that is not there
\* may still be buffered; a write to one that is fails only on a closed conn.
OutSend ==
    /\ pc["out"] = "send"
    /\ \/ /\ conn = "open"
          /\ sent' = taken
          /\ Goto("out", AfterSend(last))
       \/ /\ conn = "closed" \/ client # "ok"
          /\ Goto("out", "close")
          /\ UNCHANGED sent
    /\ UNCHANGED <<procVars, taken, last, code, told, closeVars, clientVars>>

\* ExecExitCode: ExitCode of the inspection, whether or not it says Running;
\* an error within the 5 s becomes -1.
OutInspect ==
    /\ pc["out"] = "inspect"
    /\ code' \in {IF process = "exited" THEN "exited" ELSE "alive", "unknown"}
    /\ Goto("out", "tell")
    /\ UNCHANGED <<procVars, taken, sent, last, told, closeVars, clientVars>>

\* The exit message; its error is ignored, closeAll is deferred.
OutTell ==
    /\ pc["out"] = "tell"
    /\ \/ conn = "open" /\ told' = code
       \/ (conn = "closed" \/ client # "ok") /\ UNCHANGED told
    /\ Goto("out", "close")
    /\ UNCHANGED <<procVars, taken, sent, last, code, closeVars, clientVars>>

-----------------------------------------------------------------------------
(* WebSocket to Docker.                                                    *)

\* A message.  Unparsable ones, unknown types and resizes to zero are
\* skipped and leave no trace.
InMessage ==
    /\ pc["in"] = "read"
    /\ conn = "open" /\ deadline = "ahead" /\ client = "ok"
    /\ \E next \in {"write", "resize"} : Goto("in", next)
    /\ UNCHANGED <<procVars, outVars, closeVars, clientVars>>

\* A frame above wsMaxMessageBytes: ReadMessage fails and drops the client.
InOversized ==
    /\ pc["in"] = "read"
    /\ conn = "open" /\ client = "ok"
    /\ client' = "gone"
    /\ Goto("in", "close")
    /\ UNCHANGED <<procVars, outVars, closeVars, deadline>>

\* ReadMessage fails.
InReadFails ==
    /\ pc["in"] = "read"
    /\ conn = "closed" \/ client = "gone" \/ deadline = "passed"
    /\ Goto("in", "close")
    /\ UNCHANGED <<procVars, outVars, closeVars, clientVars>>

\* session.Write or Resize returns and the loop goes on.  Write needs the
\* process to read its terminal; Resize only warns about its own errors.
InDone ==
    /\ \/ pc["in"] = "write" /\ session = "open" /\ link = "up" /\ process = "running"
       \/ pc["in"] = "resize"
    /\ Goto("in", "read")
    /\ UNCHANGED <<procVars, outVars, closeVars, clientVars>>

\* session.Write fails: our end, the daemon's end or the process is gone.
InWriteFails ==
    /\ pc["in"] = "write"
    /\ session = "closed" \/ link = "lost" \/ process = "exited"
    /\ Goto("in", "close")
    /\ UNCHANGED <<procVars, outVars, closeVars, clientVars>>

-----------------------------------------------------------------------------
(* The tickers.  A ticker is stopped when the handler returns; a ping that *)
(* succeeds and a message that is skipped change nothing.                  *)

\* A bug: the ping goroutine gives up without closing.
MutantPingFails ==
    /\ pc["ping"] = "loop" /\ pc["main"] # "done"
    /\ conn = "closed" \/ client # "ok"
    /\ Goto("ping", "done")
    /\ UNCHANGED <<procVars, outVars, closeVars, clientVars>>

\* WriteControl fails at once on a dead connection, and after wsWriteWait
\* when the client's window is full.
PingFails ==
    /\ pc["ping"] = "loop" /\ pc["main"] # "done"
    /\ conn = "closed" \/ client # "ok"
    /\ Goto("ping", "close")
    /\ UNCHANGED <<procVars, outVars, closeVars, clientVars>>

KeepTick ==
    /\ pc["keep"] = "loop" /\ pc["main"] # "done"
    /\ Goto("keep", "touch")
    /\ UNCHANGED <<procVars, outVars, closeVars, clientVars>>

\* Update under context.Background(): it ends whatever becomes of the session.
KeepTouch ==
    /\ pc["keep"] = "touch"
    /\ Goto("keep", "loop")
    /\ UNCHANGED <<procVars, outVars, closeVars, clientVars>>

\* case <-ctx.Done(); the deferred cancel() covers a handler that returned.
TickerExits(g) ==
    /\ pc[g] = "loop"
    /\ Cancelled
    /\ Goto(g, "done")
    /\ UNCHANGED <<procVars, outVars, closeVars, clientVars>>

-----------------------------------------------------------------------------
(* The process, the daemon and the client.                                 *)

Started == session # "none"

ProcessWrites ==
    /\ Started /\ process = "running" /\ produced < MaxOutput
    /\ produced' = produced + 1
    /\ UNCHANGED <<pc, process, link, outVars, closeVars, clientVars>>

\* It ends by itself, or its container is stopped under it.
ProcessExits ==
    /\ Started /\ process = "running"
    /\ process' = "exited"
    /\ UNCHANGED <<pc, produced, link, outVars, closeVars, clientVars>>

LinkLost ==
    /\ Started /\ link = "up"
    /\ link' = "lost"
    /\ UNCHANGED <<pc, process, produced, outVars, closeVars, clientVars>>

ClientFails ==
    /\ client = "ok"
    /\ client' \in {"silent", "gone"}
    /\ UNCHANGED <<pc, procVars, outVars, closeVars, deadline>>

\* wsPongWait without a pong.  Pings go out often enough for a client that
\* answers, but a pong is only seen by an "in" that is reading.
DeadlinePasses ==
    /\ deadline = "ahead" /\ conn = "open"
    /\ client # "ok" \/ pc["in"] \in {"write", "resize"}
    /\ deadline' = "passed"
    /\ UNCHANGED <<pc, procVars, outVars, closeVars, client>>

-----------------------------------------------------------------------------
MainStep == Dial \/ Refuse \/ FirstTouch \/ Joined
OutStep == OutRead \/ OutSend \/ OutInspect \/ OutTell
InStep == InMessage \/ InOversized \/ InReadFails \/ InDone \/ InWriteFails
CloseStep(g) == CloseSession(g) \/ CloseConn(g) \/ CloseReturns(g)
TickerStep == PingFails \/ KeepTick \/ KeepTouch \/ TickerExits("ping") \/ TickerExits("keep")
World == ProcessWrites \/ ProcessExits \/ LinkLost \/ ClientFails \/ DeadlinePasses

Finished == \A g \in Goroutines : pc[g] \in {"done", "unborn"}
Rest == Finished /\ UNCHANGED vars

Next ==
    \/ MainStep \/ OutStep \/ InStep \/ TickerStep \/ World
    \/ \E g \in Closers : CloseStep(g)
    \/ Rest

Spec == Init /\ [][Next]_vars

\* The Go scheduler runs every goroutine that can proceed, timers fire, and
\* a write to a dead connection fails in the end.  Nothing makes the process
\* exit, write or read, nor the client send: InMessage, and the return of a
\* session.Write that waits for the process, are not fair.
FairSpec ==
    /\ Spec
    /\ WF_vars(MainStep) /\ WF_vars(OutStep)
    /\ WF_vars(InReadFails \/ InWriteFails \/ (InDone /\ pc["in"] = "resize"))
    /\ \A g \in Closers : WF_vars(CloseStep(g))
    /\ WF_vars(PingFails /\ client = "gone") /\ WF_vars(KeepTouch)
    /\ \A g \in {"ping", "keep"} : WF_vars(TickerExits(g))
    /\ WF_vars(DeadlinePasses)

-----------------------------------------------------------------------------
(* Properties.                                                             *)

TypeOK ==
    /\ pc \in [Goroutines -> {"unborn", "dial", "refuse", "touch", "wait", "read",
                              "send", "inspect", "tell", "write", "resize", "loop",
                              "close", "done"}]
    /\ process \in {"running", "exited"} /\ link \in {"up", "lost"}
    /\ produced \in 0 .. MaxOutput /\ taken \in 0 .. produced /\ sent \in 0 .. taken
    /\ last \in {"more", "eof", "error"} /\ code \in Codes /\ told \in Codes
    /\ session \in {"none", "open", "closed"} /\ conn \in {"open", "closed"}
    /\ once \in {"no", "closing", "done"} /\ closer \in Closers \cup {"none"}
    /\ client \in {"ok", "silent", "gone"} /\ deadline \in {"ahead", "passed"}

\* The state is well typed, and when ExecWS returns, neither connection is open any more and neither of
\* the two streaming goroutines is left behind (closeAll and wg.Wait).
ReturnsClean ==
    /\ TypeOK
    /\ pc["main"] = "done" =>
          /\ conn = "closed" /\ session # "open"
          /\ pc["out"] \in {"unborn", "done"} /\ pc["in"] \in {"unborn", "done"}

\* Once the process has exited, the daemon's connection is lost or the client
\* is gone, all five goroutines end (comment at closeAll: without it "the
\* other [is] stuck forever on a blocking read, and wg.Wait() never returns").
SessionEnds ==
    (Started /\ (process = "exited" \/ link = "lost" \/ client = "gone")) ~> Finished

\* "wsPongWait is how long the server waits for a pong before declaring the
\* client dead and closing the connection": a client that has stopped answering
\* is disconnected, unless "in" is waiting for the process to take its input
\* and so is not there to notice.
SilentClientDropped == client = "silent" ~> (conn = "closed" \/ pc["in"] = "write")

\* What the exit message ("process exited; data is the exit code string") is
\* worth.  ExecExitCode ignores Running and the input side may close first, so
\* it can be a 0 for a process that runs, but only after the daemon's
\* connection broke or another goroutine tore the session down; it can be
\* missing for a client that is there, but only because "in" closed first.  If
\* the output side ends the session of such a client, on the end of the stream,
\* then the client has got every chunk the process wrote and a message after
\* them.
ExitExplained ==
    /\ told = "alive" => link = "lost" \/ closer \in {"in", "ping"}
    /\ Finished /\ Started /\ client = "ok" /\ told = "none" => closer = "in"
    /\ closer = "out" /\ client = "ok" /\ last = "eof" => sent = produced /\ told # "none"
=============================================================================
