----------------------------- MODULE ExecStream ------------------------------
(***************************************************************************)
(* One command run over HTTP, from StartExec on: ExecHandler.Exec copies   *)
(* Docker's multiplexed stream to the response, one NDJSON event a frame,  *)
(* and ends it with the exit code; the SDK's Exec (and the MCP server's,   *)
(* which reads alike) collects the events into a result.                   *)
(*                                                                         *)
(* The context of the request, with timeout_seconds on it, is passed to    *)
(* the Docker client's calls.  Once the stream is attached, nothing ties   *)
(* its connection to that context: a read returns when there is a frame,   *)
(* or the stream or the connection has ended.                              *)
(***************************************************************************)
EXTENDS Naturals

CONSTANTS
    MaxFrames,     \* bound: frames of output the process writes
    Window         \* events the connection to the client can hold

ASSUME StreamAssumption == MaxFrames \in Nat /\ Window \in Nat \ {0}

VARIABLES
    pc,            \* the call the handler makes next
    process,       \* the exec'd process: "unborn", "running" or "exited"
    produced,      \* frames the process has written
    taken,         \* frames the handler has read from the stream
    sent,          \* frames it has written to the response
    long,          \* frames whose event is longer than a bufio.Scanner accepts
    link,          \* the attached connection: "none", "up", "lost" or "closed"
    timer,         \* the timeout_seconds of the request: "running" or "fired"
    ctx,           \* the request's context
    code,          \* what ExecExitCode answered
    told,          \* the exit event of the response
    response,      \* "none", "refused" (500), "streaming" or "ended"
    client,        \* the SDK's Exec: "reading", "answered" or "failed"
    got            \* frames it has collected

processVars == <<process, produced, long>>
handlerVars == <<pc, taken, sent, code, told, response>>
clientVars == <<client, got>>
vars == <<processVars, handlerVars, clientVars, link, timer, ctx>>

\* As in ExecWS: "alive" is the zero that Docker reports for a running
\* process, "unknown" the -1 of a failed inspection.
Codes == {"none", "exited", "alive", "unknown"}

Init ==
    /\ pc = "start" /\ process = "unborn" /\ link = "none"
    /\ produced = 0 /\ taken = 0 /\ sent = 0 /\ got = 0 /\ long = {}
    /\ timer = "running" /\ ctx = "live"
    /\ code = "none" /\ told = "none" /\ response = "none"
    /\ client = "reading"

-----------------------------------------------------------------------------
(* The handler.                                                            *)

\* engine.Exec, create and attach; what fails may have started the process.
StartExec ==
    /\ pc = "start"
    /\ \/ /\ ctx = "live"
          /\ pc' = "read" /\ process' = "running" /\ link' = "up" /\ response' = "streaming"
       \/ /\ pc' = "returned" /\ response' = "refused"
          /\ process' \in {"unborn", "running"}
          /\ UNCHANGED link
    /\ UNCHANGED <<produced, long, taken, sent, code, told, clientVars, timer, ctx>>

\* Mutant: the stream is given up once the process is known to have exited.
MutantReadFrame ==
    /\ pc = "read"
    /\ \/ taken < produced /\ process = "running" /\ taken' = taken + 1 /\ pc' = "send"
       \/ /\ process = "exited" \/ link = "lost"
          /\ pc' = "inspect" /\ UNCHANGED taken
    /\ UNCHANGED <<processVars, sent, code, told, response, clientVars, link, timer, ctx>>

\* Mutant: a read error is retried.
MutantReadRetried ==
    /\ pc = "read"
    /\ \/ taken < produced /\ taken' = taken + 1 /\ pc' = "send"
       \/ taken = produced /\ process = "exited" /\ pc' = "inspect" /\ UNCHANGED taken
    /\ UNCHANGED <<processVars, sent, code, told, response, clientVars, link, timer, ctx>>

\* DemuxDockerStream: the next frame, or the end of the stream, or an error,
\* between two frames or inside one.  Either way the loop ends.
ReadFrame ==
    /\ pc = "read"
    /\ \/ taken < produced /\ taken' = taken + 1 /\ pc' = "send"
       \/ taken = produced /\ process = "exited" /\ pc' = "inspect" /\ UNCHANGED taken
       \/ link = "lost" /\ pc' = "inspect" /\ UNCHANGED taken
    /\ UNCHANGED <<processVars, sent, code, told, response, clientVars, link, timer, ctx>>

\* A write blocks while the client is there and does not read.
Room == client = "failed" \/ sent - got < Window

\* Mutant: the event is written again.
MutantSendFrame ==
    /\ pc = "send"
    /\ Room /\ sent' = sent + 1
    /\ pc' \in {"read", "send"}
    /\ UNCHANGED <<processVars, taken, code, told, response, clientVars, link, timer, ctx>>

\* encoder.Encode and Flush; an error, possible once the client has gone,
\* ends the loop.
SendFrame ==
    /\ pc = "send"
    /\ \/ Room /\ sent' = sent + 1 /\ pc' = "read"
       \/ client = "failed" /\ pc' = "inspect" /\ UNCHANGED sent
    /\ UNCHANGED <<processVars, taken, code, told, response, clientVars, link, timer, ctx>>

\* service.ExitCode, under the request's context; a failed call is a -1.
ExitCode ==
    /\ pc = "inspect"
    /\ \/ ctx = "live" /\ code' = IF process = "exited" THEN "exited" ELSE "alive"
       \/ code' = "unknown"
    /\ pc' = "tell"
    /\ UNCHANGED <<processVars, taken, sent, told, response, clientVars, link, timer, ctx>>

\* Mutant: an unknown exit code is not reported.
MutantSendExit ==
    /\ pc = "tell"
    /\ Room
    /\ told' = IF code = "unknown" THEN told ELSE code
    /\ pc' = "returned" /\ response' = "ended"
    /\ link' = IF link = "up" THEN "closed" ELSE link
    /\ UNCHANGED <<processVars, taken, sent, code, clientVars, timer, ctx>>

\* The exit event; then session.Reader is closed and the response ended.
SendExit ==
    /\ pc = "tell"
    /\ Room
    /\ told' = code
    /\ pc' = "returned" /\ response' = "ended"
    /\ link' = IF link = "up" THEN "closed" ELSE link
    /\ UNCHANGED <<processVars, taken, sent, code, clientVars, timer, ctx>>

HandlerStep == StartExec \/ ReadFrame \/ SendFrame \/ ExitCode \/ SendExit

-----------------------------------------------------------------------------
(* The SDK's Exec.                                                         *)

\* An event of the response, in order; a line that is too long makes
\* scanner.Err, and Exec, fail.
ClientReads ==
    /\ client = "reading" /\ got < sent
    /\ \/ got + 1 \notin long /\ got' = got + 1 /\ UNCHANGED client
       \/ got + 1 \in long /\ client' = "failed" /\ UNCHANGED got
    /\ UNCHANGED <<processVars, handlerVars, link, timer, ctx>>

\* The end of the response is the result; a status other than 200 an error.
ClientEnds ==
    /\ client = "reading" /\ got = sent
    /\ \/ response = "ended" /\ client' = "answered"
       \/ response = "refused" /\ client' = "failed"
    /\ UNCHANGED <<processVars, handlerVars, got, link, timer, ctx>>

ClientStep == ClientReads \/ ClientEnds

-----------------------------------------------------------------------------
(* The world.                                                              *)

ProcessWrites ==
    /\ process = "running" /\ produced < MaxFrames
    /\ produced' = produced + 1
    /\ long' \in {long, long \cup {produced + 1}}
    /\ UNCHANGED <<process, handlerVars, clientVars, link, timer, ctx>>

ProcessExits ==
    /\ process = "running"
    /\ process' = "exited"
    /\ UNCHANGED <<produced, long, handlerVars, clientVars, link, timer, ctx>>

LinkLost ==
    /\ link = "up"
    /\ link' = "lost"
    /\ UNCHANGED <<processVars, handlerVars, clientVars, timer, ctx>>

ClientLeaves ==
    /\ client = "reading"
    /\ client' = "failed"
    /\ UNCHANGED <<processVars, handlerVars, got, link, timer, ctx>>

TimerFires ==
    /\ timer = "running" /\ pc # "returned"
    /\ timer' = "fired" /\ ctx' = "done"
    /\ UNCHANGED <<processVars, handlerVars, clientVars, link>>

\* net/http cancels the context of a request whose connection has gone.
GoneNoticed ==
    /\ client = "failed" /\ ctx = "live" /\ pc # "returned"
    /\ ctx' = "done"
    /\ UNCHANGED <<processVars, handlerVars, clientVars, link, timer>>

World == ProcessWrites \/ ProcessExits \/ LinkLost \/ ClientLeaves \/ TimerFires \/ GoneNoticed

Over == pc = "returned" /\ client # "reading"
Rest == Over /\ UNCHANGED vars

Next == HandlerStep \/ ClientStep \/ World \/ Rest

\* The handler's goroutine and a client that is there go on when they can.
\* Nothing makes the process write or exit.
Spec == Init /\ [][Next]_vars /\ WF_vars(HandlerStep) /\ WF_vars(ClientStep)

-----------------------------------------------------------------------------
(* Properties.                                                             *)

TypeOK ==
    /\ pc \in {"start", "read", "send", "inspect", "tell", "returned"}
    /\ process \in {"unborn", "running", "exited"}
    /\ produced \in 0 .. MaxFrames /\ long \subseteq 1 .. produced
    /\ taken \in 0 .. produced /\ sent \in 0 .. taken /\ got \in 0 .. sent
    /\ link \in {"none", "up", "lost", "closed"}
    /\ timer \in {"running", "fired"} /\ ctx \in {"live", "done"}
    /\ code \in Codes /\ told \in Codes
    /\ response \in {"none", "refused", "streaming", "ended"}
    /\ client \in {"reading", "answered", "failed"}

\* A result that Exec returns without an error holds all the process wrote,
\* and the process has exited; only a broken connection to the daemon, which
\* Exec cannot tell from the end of the stream, makes it fall short.
AnswerIsComplete ==
    client = "answered" /\ link # "lost" => process = "exited" /\ got = produced

\* Such a result has an exit code: the process's own, or -1, and the zero of a
\* process that still runs only if the connection to the daemon broke.
AnswerHasExit ==
    client = "answered" => told \in {"exited", "unknown"} \/ (told = "alive" /\ link = "lost")

\* When the process has exited or the daemon's connection is gone, the handler
\* returns and so does the client's Exec, whatever the client does meanwhile.
ExecEnds == (process = "exited" \/ link = "lost") ~> Over

\* "timeout_seconds: Max seconds to wait for the command": a request whose
\* timeout has passed is eventually over.
TimeoutEndsExec == timer = "fired" ~> pc = "returned"
=============================================================================
