------------------------------ MODULE RpcWorker ------------------------------
(***************************************************************************)
(* The process of an OMP worker, the requests and events that cross its    *)
(* pipes, and its end (rpc-worker.ts), as the OMP driver and the adapter   *)
(* use it.                                                                 *)
(*                                                                         *)
(* A fiber runs from one wait to the next in one step: a wait for a frame, *)
(* for an answer, for stopGate or for a timer.  The steps of a request     *)
(* between its entry in pending and the write are taken apart all the      *)
(* same, and so are the two halves of fail, before and in stop.            *)
(*                                                                         *)
(* The process is external.  It announces itself, answers, calls host      *)
(* tools, reports on its agent, writes rubbish, ends or closes its output  *)
(* at any time.  A frame stands for its chunks, put together; chunks that  *)
(* do not fit are rubbish.  What nobody will read any more is left out.    *)
(***************************************************************************)
EXTENDS Naturals, Sequences

CONSTANTS
    Requests, \* calls of send by the authority
    Hello,    \* the negotiate_protocol request of start
    Calls,    \* host_tool_call frames
    Stops,    \* calls of stop, by the adapter or at shutdown
    None,
    MaxOut    \* bound: frames in the pipe

ASSUME RpcAssumption ==
    /\ None \notin Requests \cup Calls \cup Stops
    /\ None # "start"
    /\ Hello \notin Requests
    /\ MaxOut \in Nat \ {0}

VARIABLES
    proc,    \* external: the process
    killed,  \* its group was sent SIGKILL
    agent,   \* external: what the process has in hand
    out,     \* external: what it wrote and nobody read
    eof,     \* external: its output ended
    processRef, stopping, promptIds, isStreaming,
    ready,   \* the deferred of that name, with the protocol version
    start,   \* the call of start
    reader, exitFiber, \* the fibers that read the output and await the exit
    failer,  \* the fiber in fail that goes on to call stop
    stops,   \* the calls of stop
    holder, phase, \* who holds stopGate, and what it waits for
    req, command, tools,
    subscribed, queue, listening, \* the driver's listener, its queue, the pump
    heard,   \* the events the authority has heard
    begun    \* history: prompts whose agent started, or that had a result

process == <<proc, killed, agent, out, eof>>
frames == <<ready, promptIds, isStreaming, begun>>
sending == <<req, command>>
ending == <<stopping, stops, holder, phase>>
fibers == <<reader, exitFiber, failer>>
events == <<subscribed, queue, listening, heard>>
vars == <<process, processRef, frames, sending, start, ending, fibers, tools, events>>

Senders == Requests \cup {Hello}

Pending == {r \in Senders : req[r] \in {"write", "await"}}

Frame(type, id, ok) == [type |-> type, id |-> id, ok |-> ok]

NoAgent == [ready |-> FALSE, inbox |-> {}, prompts |-> {}, turn |-> "none", calls |-> {}]

\* Mutant of Emit: there is no queue before the authority listens.
EmitToListener(e) == queue' = IF subscribed /\ listening THEN Append(queue, e) ELSE queue

\* To the driver's listener, which puts the event in its queue.
Emit(e) == queue' = IF subscribed THEN Append(queue, e) ELSE queue

Asked == \E k \in Stops : stops[k] # "idle"

-----------------------------------------------------------------------------
(* The end of the worker.                                                  *)

\* rejectPending; a request that is not written yet finds its answer later.
Rejected(q) ==
    [r \in Senders |-> IF q[r] = "await" THEN "failed"
                       ELSE IF q[r] = "write" THEN "rejected" ELSE q[r]]

TakesProcess == processRef' = FALSE

\* fail, called by the fiber f, where q is what becomes of the requests by
\* themselves.  The first one to take the process kills it and reports.
Fail(f, q) ==
    /\ TakesProcess
    /\ isStreaming' = FALSE
    /\ req' = Rejected(q)
    /\ IF processRef /\ ~stopping
       THEN /\ ready' = IF ready = "waiting" THEN "failed" ELSE ready
            /\ killed' = TRUE
            /\ Emit("worker_exited")
            /\ failer' = f
       ELSE UNCHANGED <<ready, killed, queue, failer>>
    /\ UNCHANGED <<proc, promptIds, begun, command, ending, subscribed, listening, heard>>

\* The reader goes on, or is over.
ReadsOn == UNCHANGED <<agent, out, eof, reader>>

ReaderOver == reader' = "over" /\ agent' = NoAgent /\ out' = <<>> /\ eof' = FALSE

\* Mutant of GateFree: stop awaits the fibers it interrupts.
GateFreeJoins == holder = None /\ failer = None

GateFree == holder = None

\* stop, once it has stopGate: the fibers are interrupted and not awaited, for
\* it may be one of them that stops; then stdin is closed.  (When that fails
\* the group gets a SIGTERM at once.)
BeginStop(who) ==
    /\ stopping' = TRUE
    /\ tools' = [c \in Calls |-> IF tools[c] = "running" THEN "over" ELSE tools[c]]
    /\ IF reader = "reading" THEN ReaderOver ELSE ReadsOn
    /\ exitFiber' = IF exitFiber = "watching" THEN "over" ELSE exitFiber
    /\ req' = Rejected(req)
    /\ IF processRef
       THEN holder' = who /\ phase' = "grace"
       ELSE UNCHANGED <<holder, phase>>
    /\ UNCHANGED <<proc, killed, processRef, frames, command, events>>

\* The adapter's stop drops its listeners and closes its scope, which removes
\* the driver's listener and stops the worker; shutdown calls stop directly.
CallStop(k) == \E adapter \in BOOLEAN :
    /\ stops[k] = "idle"
    /\ stops' = [stops EXCEPT ![k] = "called"]
    /\ IF adapter THEN subscribed' = FALSE /\ listening' = FALSE
                  ELSE UNCHANGED <<subscribed, listening>>
    /\ UNCHANGED <<process, processRef, frames, sending, start, stopping, holder, phase, fibers,
                   tools, queue, heard>>

Stop(k) ==
    /\ stops[k] = "called" /\ GateFree
    /\ BeginStop(k)
    /\ stops' = [stops EXCEPT ![k] = IF processRef THEN "stopping" ELSE "done"]
    /\ UNCHANGED <<start, failer>>

\* The stop that ends a failed start, or ends fail.
StartStops ==
    /\ start = "stop" /\ GateFree
    /\ BeginStop("start")
    /\ start' = IF processRef THEN "stopping" ELSE "failed"
    /\ UNCHANGED <<stops, failer>>

FailerStops ==
    /\ failer # None /\ GateFree
    /\ BeginStop("failer")
    /\ failer' = None
    /\ UNCHANGED <<stops, start>>

\* The two seconds of grace are over: SIGTERM.
StopTerminates ==
    /\ holder # None /\ phase = "grace"
    /\ phase' = "term"
    /\ UNCHANGED <<process, processRef, frames, sending, start, stopping, stops, holder, fibers,
                   tools, events>>

\* The process exited, or another second has passed.  The last SIGKILL is for
\* the process that stop found when it began, whether or not a fail has taken
\* it from processRef since.
FinishStop ==
    /\ holder # None
    /\ proc = "exited" \/ phase = "term"
    /\ killed' = TRUE
    /\ processRef' = FALSE
    /\ holder' = None
    /\ phase' = "none"
    /\ stops' = [k \in Stops |-> IF k = holder THEN "done" ELSE stops[k]]
    /\ start' = IF holder = "start" THEN "failed" ELSE start
    /\ UNCHANGED <<proc, agent, out, eof, frames, sending, stopping, fibers, tools, events>>

-----------------------------------------------------------------------------
(* start.                                                                  *)

\* Mutant of MayStart: a worker that was stopped may be started.
MayStartAgain == ~processRef

MayStart == ~stopping /\ ~processRef

\* Under the gate.  Bun.spawn may fail.
Spawn ==
    /\ start = "idle" /\ GateFree
    /\ \/ /\ MayStart
          /\ proc' = "running"
          /\ processRef' = TRUE
          /\ reader' = "reading"
          /\ start' = "race"
       \/ /\ start' = "failed"
          /\ UNCHANGED <<proc, processRef, reader>>
    /\ UNCHANGED <<killed, agent, out, eof, frames, sending, ending, exitFiber, failer, tools, events>>

\* A request has its entry in pending.
Entered(r) == req' = [req EXCEPT ![r] = "write"]

\* The worker is ready; the exit fiber starts only now.
Ready ==
    /\ start = "race" /\ ready \in {"v1", "v2"}
    /\ exitFiber' = "watching"
    /\ IF ready = "v1" THEN start' = "done" /\ UNCHANGED sending
       ELSE IF ~processRef THEN start' = "stop" /\ UNCHANGED sending
       ELSE start' = "negotiate" /\ Entered(Hello) /\ UNCHANGED command
    /\ UNCHANGED <<process, processRef, frames, ending, reader, failer, tools, events>>

\* The worker failed or exited before it was ready, or it took too long.
NotReady ==
    /\ start = "race"
    /\ start' = "stop"
    /\ UNCHANGED <<process, processRef, frames, sending, ending, fibers, tools, events>>

Negotiated ==
    /\ start = "negotiate" /\ req[Hello] \in {"ok", "failed", "timed out"}
    /\ start' = IF req[Hello] = "ok" THEN "done" ELSE "stop"
    /\ UNCHANGED <<process, processRef, frames, sending, ending, fibers, tools, events>>

\* The caller of start is interrupted: it closes the scope of the adapter.
AbandonStart(k) ==
    /\ start \in {"race", "negotiate"}
    /\ stops[k] = "idle"
    /\ start' = "failed"
    /\ stops' = [stops EXCEPT ![k] = "called"]
    /\ subscribed' = FALSE /\ listening' = FALSE
    /\ req' = IF start = "negotiate" THEN [req EXCEPT ![Hello] = "timed out"] ELSE req
    /\ UNCHANGED <<process, processRef, frames, command, stopping, holder, phase, fibers,
                   tools, queue, heard>>

-----------------------------------------------------------------------------
(* Requests, and the other frames to the worker.                           *)

\* send enters the request, or finds no process.  The driver prompts a worker
\* that does not stream; it steers or queues a turn for one that does.
Send(r) == \E c \in {"prompt", "other"} :
    /\ start = "done" /\ req[r] = "idle"
    /\ c = "prompt" => ~isStreaming
    /\ IF processRef THEN Entered(r) ELSE req' = [req EXCEPT ![r] = "failed"]
    /\ command' = [command EXCEPT ![r] = c]
    /\ UNCHANGED <<process, processRef, frames, start, ending, fibers, tools, events>>

\* The frame reaches a process that lives and goes on reading.
Write(r) ==
    /\ req[r] \in {"write", "rejected"} /\ processRef
    /\ agent' = IF proc = "running" /\ reader = "reading" THEN [agent EXCEPT !.inbox = @ \cup {r}]
                ELSE agent
    /\ req' = [req EXCEPT ![r] = IF @ = "write" THEN "await" ELSE "failed"]
    /\ UNCHANGED <<proc, killed, out, eof, processRef, frames, command, start, ending, fibers,
                   tools, events>>

\* There is no process any more, or its stdin is closed at either end.
WriteFails(r) ==
    /\ req[r] \in {"write", "rejected"}
    /\ Fail(r, [req EXCEPT ![r] = "failed"])
    /\ ReadsOn
    /\ UNCHANGED <<start, exitFiber, tools>>

TimesOut(r) ==
    /\ r \in Pending
    /\ req' = [req EXCEPT ![r] = "timed out"]
    /\ UNCHANGED <<process, processRef, frames, command, start, ending, fibers, tools, events>>

\* A host tool has its result, which is written.
ToolResult(c) ==
    /\ tools[c] = "running"
    /\ tools' = [tools EXCEPT ![c] = "over"]
    /\ \/ processRef /\ UNCHANGED <<process, processRef, frames, sending, ending, fibers, events>>
       \/ Fail(c, req) /\ ReadsOn /\ UNCHANGED exitFiber
    /\ UNCHANGED start

\* respondToUi changes something when the write fails only.
RespondToUiFails ==
    /\ start = "done"
    /\ Fail("ui", req)
    /\ ReadsOn
    /\ UNCHANGED <<start, exitFiber, tools>>

-----------------------------------------------------------------------------
(* The output of the worker.                                               *)

\* The reader takes a frame of this type.
Take(type) ==
    /\ reader = "reading" /\ out # <<>>
    /\ Head(out).type = type
    /\ out' = Tail(out)
    /\ UNCHANGED <<proc, killed, agent, eof, processRef, start, ending, fibers, subscribed,
                   listening, heard, command>>

ReadReady ==
    /\ Take("ready")
    /\ ready' = IF ready # "waiting" THEN ready ELSE IF Head(out).ok THEN "v2" ELSE "v1"
    /\ UNCHANGED <<promptIds, isStreaming, begun, req, tools, queue>>

\* The answer of a request that is waiting.
ReadAnswer ==
    LET r == Head(out).id
        ok == Head(out).ok
    IN  /\ Take("response")
        /\ r \in Pending
        /\ req' = [req EXCEPT ![r] = IF ok THEN "ok" ELSE "failed"]
        /\ promptIds' = IF ok /\ r \in Requests /\ command[r] = "prompt" THEN promptIds \cup {r}
                        ELSE promptIds
        /\ UNCHANGED <<ready, isStreaming, begun, tools, queue>>

\* Mutant of Scheduled: prompts that were accepted are not remembered.
ScheduledNot(r) == FALSE

Scheduled(r) == r \in promptIds

\* A response nobody waits for: an accepted prompt could not be scheduled, or
\* the request has timed out.
ReadLateAnswer ==
    LET r == Head(out).id
    IN  /\ Take("response")
        /\ r \notin Pending
        /\ IF ~Head(out).ok /\ Scheduled(r)
           THEN promptIds' = promptIds \ {r} /\ Emit("error")
           ELSE UNCHANGED <<promptIds, queue>>
        /\ UNCHANGED <<ready, isStreaming, begun, req, tools>>

ReadPromptResult ==
    /\ Take("prompt_result")
    /\ promptIds' = promptIds \ {Head(out).id}
    /\ begun' = begun \cup {Head(out).id}
    /\ UNCHANGED <<ready, isStreaming, req, tools, queue>>

ReadAgentStart ==
    /\ Take("agent_start")
    /\ promptIds' = {}
    /\ begun' = begun \cup promptIds
    /\ isStreaming' = TRUE
    /\ UNCHANGED <<ready, req, tools, queue>>

ReadAgentEnd ==
    /\ Take("agent_end")
    /\ isStreaming' = (Head(out).ok /\ isStreaming)
    /\ UNCHANGED <<ready, promptIds, begun, req, tools, queue>>

ReadHostToolCall ==
    /\ Take("host_tool_call")
    /\ tools' = [tools EXCEPT ![Head(out).id] = "running"]
    /\ UNCHANGED <<ready, promptIds, isStreaming, begun, req, queue>>

\* A frame that is no frame, or chunks that do not fit.
ReadRubbish ==
    /\ reader = "reading" /\ out # <<>> /\ Head(out).type = "rubbish"
    /\ Fail("reader", req)
    /\ ReaderOver
    /\ UNCHANGED <<start, exitFiber, tools>>

OutputEnded ==
    /\ reader = "reading" /\ out = <<>> /\ eof
    /\ Fail("reader", req)
    /\ ReaderOver
    /\ UNCHANGED <<start, exitFiber, tools>>

Exited ==
    /\ exitFiber = "watching" /\ proc = "exited"
    /\ Fail("exit", req)
    /\ exitFiber' = "over"
    /\ ReadsOn
    /\ UNCHANGED <<start, tools>>

-----------------------------------------------------------------------------
(* The driver's events on their way to the authority.                      *)

\* attachWorker starts the pump, when open has returned.
Listen ==
    /\ start = "done" /\ ~Asked /\ ~listening
    /\ listening' = TRUE
    /\ UNCHANGED <<process, processRef, frames, sending, start, ending, fibers, tools, subscribed,
                   queue, heard>>

Pump ==
    /\ listening /\ queue # <<>>
    /\ queue' = Tail(queue)
    /\ heard' = heard \cup {Head(queue)}
    /\ UNCHANGED <<process, processRef, frames, sending, start, ending, fibers, tools, subscribed,
                   listening>>

-----------------------------------------------------------------------------
(* External: the process.                                                  *)

ProcessExits ==
    /\ proc = "running"
    /\ proc' = "exited"
    /\ UNCHANGED <<killed, agent, out, eof, processRef, frames, sending, start, ending,
                   fibers, tools, events>>

OutputEnds ==
    /\ reader = "reading" /\ ~eof
    /\ eof' = TRUE
    /\ UNCHANGED <<proc, killed, agent, out, processRef, frames, sending, start, ending,
                   fibers, tools, events>>

\* The process writes f, after which it has a in hand.
Writes(f, a) ==
    /\ proc = "running" /\ reader = "reading" /\ ~eof /\ Len(out) < MaxOut
    /\ out' = Append(out, f)
    /\ agent' = a
    /\ UNCHANGED <<proc, killed, eof, processRef, frames, sending, start, ending, fibers, tools,
                   events>>

Announces == \E v2 \in BOOLEAN :
    ~agent.ready /\ Writes(Frame("ready", None, v2), [agent EXCEPT !.ready = TRUE])

WritesRubbish == Writes(Frame("rubbish", None, FALSE), agent)

Answers(r) == \E ok \in BOOLEAN :
    /\ agent.ready /\ r \in agent.inbox
    /\ LET prompts == IF ok /\ r \in Requests /\ command[r] = "prompt" THEN {r} ELSE {}
       IN  Writes(Frame("response", r, ok), [agent EXCEPT !.inbox = @ \ {r},
                                                          !.prompts = @ \cup prompts])

\* A prompt that was accepted cannot be scheduled, or ends without an agent.
SchedulingFails(r) ==
    r \in agent.prompts
    /\ Writes(Frame("response", r, FALSE), [agent EXCEPT !.prompts = @ \ {r}])

PromptEnds(r) ==
    r \in agent.prompts
    /\ Writes(Frame("prompt_result", r, TRUE), [agent EXCEPT !.prompts = @ \ {r}])

AgentStarts ==
    agent.prompts # {}
    /\ Writes(Frame("agent_start", None, TRUE), [agent EXCEPT !.prompts = {}, !.turn = "first"])

\* ... and may continue once.
AgentEnds == \E more \in BOOLEAN :
    /\ agent.turn = "first" \/ (agent.turn = "last" /\ ~more)
    /\ Writes(Frame("agent_end", None, more), [agent EXCEPT !.turn = IF more THEN "last" ELSE "none"])

CallsTool(c) ==
    agent.ready /\ c \notin agent.calls
    /\ Writes(Frame("host_tool_call", c, TRUE), [agent EXCEPT !.calls = @ \cup {c}])

-----------------------------------------------------------------------------
Init ==
    /\ proc = "none" /\ killed = FALSE /\ out = <<>> /\ eof = FALSE
    /\ agent = NoAgent
    /\ processRef = FALSE /\ stopping = FALSE /\ ready = "waiting"
    /\ promptIds = {} /\ isStreaming = FALSE
    /\ start = "idle" /\ reader = "none" /\ exitFiber = "none" /\ failer = None
    /\ stops = [k \in Stops |-> "idle"] /\ holder = None /\ phase = "none"
    /\ req = [r \in Senders |-> "idle"] /\ command = [r \in Requests |-> "other"]
    /\ tools = [c \in Calls |-> "none"]
    /\ subscribed = TRUE /\ queue = <<>> /\ listening = FALSE /\ heard = {}
    /\ begun = {}

StartStep == Spawn \/ Ready \/ NotReady \/ Negotiated \/ StartStops

StopStep == FailerStops \/ StopTerminates \/ FinishStop

ReadStep ==
    \/ ReadReady \/ ReadAnswer \/ ReadLateAnswer \/ ReadPromptResult
    \/ ReadAgentStart \/ ReadAgentEnd \/ ReadHostToolCall \/ ReadRubbish \/ OutputEnded

PromptStep == AgentStarts \/ \E r \in Requests : SchedulingFails(r) \/ PromptEnds(r)

ProcessStep ==
    \/ ProcessExits \/ OutputEnds
    \/ Announces \/ WritesRubbish \/ AgentEnds \/ PromptStep
    \/ \E r \in Senders : Answers(r)
    \/ \E c \in Calls : CallsTool(c)

Next ==
    \/ StartStep \/ StopStep \/ ReadStep \/ Exited \/ ProcessStep
    \/ Listen \/ Pump \/ RespondToUiFails
    \/ \E k \in Stops : CallStop(k) \/ Stop(k) \/ AbandonStart(k)
    \/ \E r \in Requests : Send(r)
    \/ \E r \in Senders : Write(r) \/ WriteFails(r) \/ TimesOut(r)
    \/ \E c \in Calls : ToolResult(c)

\* Fibers that can go on do; a process that was sent SIGKILL ends; one that
\* accepted a prompt goes on with it.  No host tool need return, no answer need
\* come and no timer of a request need fire.
Fairness ==
    /\ WF_vars(StartStep) /\ WF_vars(StopStep) /\ WF_vars(ReadStep) /\ WF_vars(Exited)
    /\ WF_vars(Listen) /\ WF_vars(Pump)
    /\ \A k \in Stops : WF_vars(Stop(k))
    /\ \A r \in Senders : WF_vars(Write(r) \/ WriteFails(r))
    /\ WF_vars(ProcessExits /\ killed)
    /\ WF_vars(PromptStep)

Spec == Init /\ [][Next]_vars /\ Fairness

-----------------------------------------------------------------------------
(* Properties.                                                             *)

Types == {"ready", "rubbish", "response", "prompt_result", "agent_start", "agent_end",
          "host_tool_call"}
Frames == [type : Types, id : Senders \cup Calls \cup {None}, ok : BOOLEAN]

\* The state keeps its types; the end of the worker is reported once at most.
TypeOK ==
    /\ proc \in {"none", "running", "exited"}
    /\ {killed, eof, processRef, stopping, isStreaming, subscribed, listening} \subseteq BOOLEAN
    /\ agent \in [ready : BOOLEAN, inbox : SUBSET Senders,
                  prompts : SUBSET Requests, turn : {"none", "first", "last"}, calls : SUBSET Calls]
    /\ out \in Seq(Frames) /\ Len(out) <= MaxOut
    /\ ready \in {"waiting", "v1", "v2", "failed"}
    /\ promptIds \subseteq Requests /\ begun \subseteq Requests
    /\ start \in {"idle", "race", "negotiate", "stop", "stopping", "done", "failed"}
    /\ reader \in {"none", "reading", "over"} /\ exitFiber \in {"none", "watching", "over"}
    /\ failer \in {None, "reader", "exit", "ui"} \cup Senders \cup Calls
    /\ stops \in [Stops -> {"idle", "called", "stopping", "done"}]
    /\ holder \in {None, "start"} \cup Stops
    /\ phase \in {"none", "grace", "term"}
    /\ req \in [Senders -> {"idle", "write", "rejected", "await", "ok", "failed", "timed out"}]
    /\ command \in [Requests -> {"prompt", "other"}]
    /\ tools \in [Calls -> {"none", "running", "over"}]
    /\ heard \subseteq {"worker_exited", "error"}
    /\ \A i \in DOMAIN queue :
          queue[i] = "worker_exited" => /\ "worker_exited" \notin heard
                                        /\ \A j \in DOMAIN queue : j # i => queue[j] = "error"

\* A process that runs, and was not killed, is in the hands of a stop, or it is
\* the worker's and no stop has returned yet: no race of start, stop and the
\* failure of a write leaves a process behind.
NoOrphan ==
    proc = "running" /\ ~killed =>
        holder # None \/ (processRef /\ \A k \in Stops : stops[k] # "done")

\* The authority hears that a worker it did not stop has exited, whichever
\* fiber finds out and however early.
ExitTold ==
    start = "done" /\ proc = "exited" ~> "worker_exited" \in heard \/ Asked

\* A stop ends, whatever fails meanwhile, and with it the process.
StopEnds ==
    \A k \in Stops : stops[k] = "called" ~> stops[k] = "done" /\ proc # "running"

\* A prompt that was acknowledged ends in something the authority hears of: its
\* agent starts, or it had a result, or an error event, or the worker's end.
PromptSettles ==
    \A r \in Requests :
        req[r] = "ok" /\ command[r] = "prompt" ~>
            r \in begun \/ heard # {} \/ Asked

=============================================================================
