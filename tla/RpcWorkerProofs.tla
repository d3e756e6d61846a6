--------------------------- MODULE RpcWorkerProofs ---------------------------
(***************************************************************************)
(* Proofs about RpcWorker, for any requests, tool calls and stops: the     *)
(* types, that the end of a worker is reported once at most, and that no   *)
(* race of start, stop and fail leaves its process behind.                 *)
(*                                                                         *)
(* There is one process, spawned by the one start, and processRef says who *)
(* may end it.  Whoever takes processRef either kills the process or finds *)
(* a stop that will.                                                       *)
(***************************************************************************)
EXTENDS RpcWorker, TLAPS

Agents == [ready : BOOLEAN, inbox : SUBSET Senders, prompts : SUBSET Requests,
           turn : {"none", "first", "last"}, calls : SUBSET Calls]

ReqStates == {"idle", "write", "rejected", "await", "ok", "failed", "timed out"}

Notices == {"worker_exited", "error"}

Failers == {"reader", "exit", "ui"} \cup Senders \cup Calls

\* What TypeOK says, but for the end that is reported once.
TProcess ==
    /\ proc \in {"none", "running", "exited"}
    /\ killed \in BOOLEAN /\ eof \in BOOLEAN
    /\ agent \in Agents
    /\ out \in Seq(Frames) /\ Len(out) <= MaxOut
    /\ \A i \in DOMAIN out : out[i].type = "prompt_result" => out[i].id \in Requests

TFrames ==
    /\ ready \in {"waiting", "v1", "v2", "failed"}
    /\ promptIds \in SUBSET Requests /\ begun \in SUBSET Requests
    /\ isStreaming \in BOOLEAN
    /\ req \in [Senders -> ReqStates]
    /\ command \in [Requests -> {"prompt", "other"}]
    /\ tools \in [Calls -> {"none", "running", "over"}]

TFibers ==
    /\ processRef \in BOOLEAN /\ stopping \in BOOLEAN
    /\ start \in {"idle", "race", "negotiate", "stop", "stopping", "done", "failed"}
    /\ reader \in {"none", "reading", "over"} /\ exitFiber \in {"none", "watching", "over"}
    /\ failer \in {None} \cup Failers
    /\ stops \in [Stops -> {"idle", "called", "stopping", "done"}]
    /\ holder \in {None, "start"} \cup Stops
    /\ phase \in {"none", "grace", "term"}

TEvents ==
    /\ subscribed \in BOOLEAN /\ listening \in BOOLEAN
    /\ queue \in Seq(Notices) /\ heard \in SUBSET Notices

\* start spawns once, and the fiber in fail has taken the process.
Started ==
    /\ processRef => start # "idle"
    /\ failer # None => ~processRef /\ start # "idle"

\* A process that nobody holds any more was killed; a stop in progress holds
\* the one there is, and no stop has returned before one was in progress.
Held ==
    /\ proc = "running" /\ ~killed => processRef \/ holder # None
    /\ stopping /\ processRef => holder # None
    /\ \A k \in Stops : stops[k] = "done" => stopping
    /\ holder # None => stopping

\* The end is reported by the one who takes the process.
Told ==
    /\ "worker_exited" \in heard => ~processRef /\ start # "idle"
    /\ \A i \in DOMAIN queue :
         queue[i] = "worker_exited" =>
             /\ ~processRef /\ start # "idle"
             /\ "worker_exited" \notin heard
             /\ \A j \in DOMAIN queue : j # i => queue[j] = "error"

WellTyped == TProcess /\ TFrames /\ TFibers /\ TEvents

IInv == WellTyped /\ Started /\ Held /\ Told

-----------------------------------------------------------------------------
(* What the operators of several actions do                                *)

LEMMA NothingIsTyped == ASSUME NEW S PROVE <<>> \in Seq(S) /\ Len(<<>>) = 0 /\ DOMAIN <<>> = {}
OBVIOUS

LEMMA RejectedIsTyped ==
  ASSUME NEW q \in [Senders -> ReqStates] PROVE Rejected(q) \in [Senders -> ReqStates]
BY DEF Rejected, ReqStates

\* A reader that is over has read everything.
LEMMA OverIsTyped ==
  ASSUME ReaderOver
  PROVE  /\ reader' = "over" /\ agent' \in Agents /\ eof' \in BOOLEAN
         /\ out' \in Seq(Frames) /\ Len(out') = 0 /\ DOMAIN out' = {}
BY NothingIsTyped DEF ReaderOver, NoAgent, Agents

\* What the reader leaves of the process and its output.
LEMMA OutputIsTyped ==
  ASSUME IInv, ReadsOn \/ ReaderOver, proc' = proc, killed' \in BOOLEAN
  PROVE  TProcess'
<1>1. CASE ReadsOn
  BY <1>1 DEF IInv, WellTyped, TProcess, ReadsOn
<1>2. CASE ReaderOver
  <2>1. Len(out') <= MaxOut
    BY <1>2, OverIsTyped, RpcAssumption
  <2> QED  BY <1>2, <2>1, OverIsTyped DEF IInv, WellTyped, TProcess
<1> QED  BY <1>1, <1>2

\* A stop that begins rejects the requests and interrupts the tools.
LEMMA BeginStopFrames ==
  ASSUME IInv, NEW who, BeginStop(who)
  PROVE  TFrames'
<1>1. req' \in [Senders -> ReqStates]
  BY RejectedIsTyped DEF IInv, WellTyped, TFrames, BeginStop
<1>2. tools' \in [Calls -> {"none", "running", "over"}]
  BY DEF IInv, WellTyped, TFrames, BeginStop
<1>3. UNCHANGED <<frames, command>>
  BY DEF BeginStop
<1> QED  BY <1>1, <1>2, <1>3 DEF IInv, WellTyped, TFrames, frames

\* An event is in the queue behind those that are there, or nowhere.
LEMMA EmitAppends ==
  ASSUME queue \in Seq(Notices), NEW e \in Notices, Emit(e)
  PROVE  /\ queue' \in Seq(Notices)
         /\ \A i \in DOMAIN queue' : (i \in DOMAIN queue /\ queue'[i] = queue[i]) \/ queue'[i] = e
BY DEF Emit

-----------------------------------------------------------------------------
(* start, stop and the requests                                            *)

LEMMA CallStopIInv == ASSUME IInv, NEW k \in Stops, CallStop(k) PROVE IInv'
<1>1. TProcess'
  BY DEF IInv, WellTyped, TProcess, CallStop, process
<1>2. TFrames'
  BY DEF IInv, WellTyped, TFrames, CallStop, frames, sending
<1>3. TFibers' /\ TEvents'
  <2>1. stops' \in [Stops -> {"idle", "called", "stopping", "done"}]
    BY DEF IInv, WellTyped, TFibers, CallStop
  <2>2. subscribed' \in BOOLEAN /\ listening' \in BOOLEAN
    BY DEF IInv, WellTyped, TEvents, CallStop
  <2>3. UNCHANGED <<processRef, start, stopping, holder, phase, fibers, queue, heard>>
    BY DEF CallStop
  <2> QED  BY <2>1, <2>2, <2>3 DEF IInv, WellTyped, TFibers, TEvents, fibers
<1>4. Started' /\ Held' /\ Told'
  BY DEF IInv, WellTyped, TFibers, Started, Held, Told, CallStop, process, ending, fibers,
     events
<1> QED  BY <1>1, <1>2, <1>3, <1>4 DEF IInv, WellTyped

LEMMA StopIInv == ASSUME IInv, NEW k \in Stops, Stop(k) PROVE IInv'
<1>1. TProcess'
  BY OutputIsTyped DEF IInv, WellTyped, TProcess, Stop, BeginStop
<1>2. TFrames'
  BY BeginStopFrames DEF Stop
<1>3. TFibers' /\ TEvents'
  <2>1. stops' \in [Stops -> {"idle", "called", "stopping", "done"}] /\ UNCHANGED <<start, failer>>
    BY DEF IInv, WellTyped, TFibers, Stop
  <2>2. reader' \in {reader, "over"} /\ exitFiber' \in {exitFiber, "over"}
    BY OverIsTyped DEF Stop, BeginStop, ReadsOn
  <2>3. /\ holder' \in {holder, k} /\ phase' \in {phase, "grace"}
        /\ stopping' = TRUE /\ UNCHANGED <<processRef, events>>
    BY DEF Stop, BeginStop
  <2> QED  BY <2>1, <2>2, <2>3 DEF IInv, WellTyped, TFibers, TEvents, events
<1>4. Started' /\ Held' /\ Told'
  BY RpcAssumption DEF IInv, WellTyped, TFibers, Started, Held, Told, Stop, process, ending,
     fibers, events, BeginStop
<1> QED  BY <1>1, <1>2, <1>3, <1>4 DEF IInv, WellTyped

LEMMA StartStopsIInv == ASSUME IInv, StartStops PROVE IInv'
<1>1. TProcess'
  BY OutputIsTyped DEF IInv, WellTyped, TProcess, StartStops, BeginStop
<1>2. TFrames'
  BY BeginStopFrames DEF StartStops
<1>3. TFibers' /\ TEvents'
  <2>1. start' \in {"stopping", "failed"} /\ UNCHANGED <<stops, failer>>
    BY DEF StartStops
  <2>2. reader' \in {reader, "over"} /\ exitFiber' \in {exitFiber, "over"}
    BY OverIsTyped DEF StartStops, BeginStop, ReadsOn
  <2>3. /\ holder' \in {holder, "start"} /\ phase' \in {phase, "grace"}
        /\ stopping' = TRUE /\ UNCHANGED <<processRef, events>>
    BY DEF StartStops, BeginStop
  <2> QED  BY <2>1, <2>2, <2>3 DEF IInv, WellTyped, TFibers, TEvents, events
<1>4. Started' /\ Held' /\ Told'
  BY RpcAssumption DEF IInv, WellTyped, TFibers, Started, Held, Told, StartStops, process,
     ending, fibers, events, BeginStop
<1> QED  BY <1>1, <1>2, <1>3, <1>4 DEF IInv, WellTyped

LEMMA FailerStopsIInv == ASSUME IInv, FailerStops PROVE IInv'
<1>1. TProcess'
  BY OutputIsTyped DEF IInv, WellTyped, TProcess, FailerStops, BeginStop
<1>2. TFrames'
  BY BeginStopFrames DEF FailerStops
<1>3. TFibers' /\ TEvents'
  <2>1. failer' = None /\ UNCHANGED <<start, stops>>
    BY DEF FailerStops
  <2>2. reader' \in {reader, "over"} /\ exitFiber' \in {exitFiber, "over"}
    BY OverIsTyped DEF FailerStops, BeginStop, ReadsOn
  <2>3. /\ holder' = holder /\ phase' \in {phase, "grace"}
        /\ stopping' = TRUE /\ UNCHANGED <<processRef, events>>
    BY DEF IInv, Started, FailerStops, BeginStop
  <2> QED  BY <2>1, <2>2, <2>3 DEF IInv, WellTyped, TFibers, TEvents, events
<1>4. Started' /\ Held' /\ Told'
  BY DEF IInv, WellTyped, TFibers, Started, Held, Told, FailerStops, process, ending, fibers,
     events, BeginStop
<1> QED  BY <1>1, <1>2, <1>3, <1>4 DEF IInv, WellTyped

LEMMA StopTerminatesIInv == ASSUME IInv, StopTerminates PROVE IInv'
<1>1. TProcess'
  BY DEF IInv, WellTyped, TProcess, StopTerminates, process
<1>2. TFrames'
  BY DEF IInv, WellTyped, TFrames, StopTerminates, frames, sending
<1>3. TFibers' /\ TEvents'
  BY DEF IInv, WellTyped, TFibers, TEvents, StopTerminates, ending, fibers, events
<1>4. Started' /\ Held' /\ Told'
  BY DEF IInv, WellTyped, TFibers, Started, Held, Told, StopTerminates, process, ending, fibers,
     events
<1> QED  BY <1>1, <1>2, <1>3, <1>4 DEF IInv, WellTyped

LEMMA FinishStopIInv == ASSUME IInv, FinishStop PROVE IInv'
<1>1. TProcess'
  BY DEF IInv, WellTyped, TProcess, FinishStop, process
<1>2. TFrames'
  BY DEF IInv, WellTyped, TFrames, FinishStop, frames, sending
<1>3. TFibers' /\ TEvents'
  BY DEF IInv, WellTyped, TFibers, TEvents, FinishStop, ending, fibers, events
<1>4. Started' /\ Held' /\ Told'
  BY DEF IInv, WellTyped, TFibers, Started, Held, Told, FinishStop, process, ending, fibers,
     events
<1> QED  BY <1>1, <1>2, <1>3, <1>4 DEF IInv, WellTyped

LEMMA SpawnIInv == ASSUME IInv, Spawn PROVE IInv'
<1>1. TProcess'
  BY DEF IInv, WellTyped, TProcess, Spawn, process
<1>2. TFrames'
  BY DEF IInv, WellTyped, TFrames, Spawn, frames, sending
<1>3. TFibers' /\ TEvents'
  BY DEF IInv, WellTyped, TFibers, TEvents, Spawn, ending, fibers, events
<1>4. Started' /\ Held' /\ Told'
  BY DEF IInv, WellTyped, TFibers, Started, Held, Told, Spawn, process, ending, fibers, events,
     MayStart
<1> QED  BY <1>1, <1>2, <1>3, <1>4 DEF IInv, WellTyped

LEMMA ReadyIInv == ASSUME IInv, Ready PROVE IInv'
<1>1. TProcess'
  BY DEF IInv, WellTyped, TProcess, Ready, process
<1>2. TFrames'
  BY DEF IInv, WellTyped, TFrames, Ready, frames, sending, ReqStates, Senders, Entered
<1>3. TFibers' /\ TEvents'
  BY DEF IInv, WellTyped, TFibers, TEvents, Ready, ending, fibers, events
<1>4. Started' /\ Held' /\ Told'
  BY DEF IInv, WellTyped, TFibers, Started, Held, Told, Ready, process, ending, fibers, events
<1> QED  BY <1>1, <1>2, <1>3, <1>4 DEF IInv, WellTyped

LEMMA NotReadyIInv == ASSUME IInv, NotReady PROVE IInv'
<1>1. TProcess'
  BY DEF IInv, WellTyped, TProcess, NotReady, process
<1>2. TFrames'
  BY DEF IInv, WellTyped, TFrames, NotReady, frames, sending
<1>3. TFibers' /\ TEvents'
  BY DEF IInv, WellTyped, TFibers, TEvents, NotReady, ending, fibers, events
<1>4. Started' /\ Held' /\ Told'
  BY DEF IInv, WellTyped, TFibers, Started, Held, Told, NotReady, process, ending, fibers,
     events
<1> QED  BY <1>1, <1>2, <1>3, <1>4 DEF IInv, WellTyped

LEMMA NegotiatedIInv == ASSUME IInv, Negotiated PROVE IInv'
<1>1. TProcess'
  BY DEF IInv, WellTyped, TProcess, Negotiated, process
<1>2. TFrames'
  BY DEF IInv, WellTyped, TFrames, Negotiated, frames, sending
<1>3. TFibers' /\ TEvents'
  <2>1. start' \in {"done", "stop"}
    BY DEF Negotiated
  <2>2. UNCHANGED <<processRef, ending, fibers, events>>
    BY DEF Negotiated
  <2> QED  BY <2>1, <2>2 DEF IInv, WellTyped, TFibers, TEvents, ending, fibers, events
<1>4. Started' /\ Held' /\ Told'
  BY DEF IInv, WellTyped, TFibers, Started, Held, Told, Negotiated, process, ending, fibers,
     events
<1> QED  BY <1>1, <1>2, <1>3, <1>4 DEF IInv, WellTyped

LEMMA AbandonStartIInv == ASSUME IInv, NEW k \in Stops, AbandonStart(k) PROVE IInv'
<1>1. TProcess'
  BY DEF IInv, WellTyped, TProcess, AbandonStart, process
<1>2. TFrames'
  BY DEF IInv, WellTyped, TFrames, AbandonStart, frames, sending, ReqStates, Senders
<1>3. TFibers' /\ TEvents'
  BY DEF IInv, WellTyped, TFibers, TEvents, AbandonStart, ending, fibers, events
<1>4. Started' /\ Held' /\ Told'
  BY DEF IInv, WellTyped, TFibers, Started, Held, Told, AbandonStart, process, ending, fibers,
     events
<1> QED  BY <1>1, <1>2, <1>3, <1>4 DEF IInv, WellTyped

LEMMA SendIInv == ASSUME IInv, NEW r \in Requests, Send(r) PROVE IInv'
<1>1. TProcess'
  BY DEF IInv, WellTyped, TProcess, Send, process
<1>2. TFrames'
  BY DEF IInv, WellTyped, TFrames, Send, frames, sending, ReqStates, Senders, Entered
<1>3. TFibers' /\ TEvents'
  BY DEF IInv, WellTyped, TFibers, TEvents, Send, ending, fibers, events
<1>4. Started' /\ Held' /\ Told'
  BY DEF IInv, WellTyped, TFibers, Started, Held, Told, Send, process, ending, fibers, events
<1> QED  BY <1>1, <1>2, <1>3, <1>4 DEF IInv, WellTyped

LEMMA WriteIInv == ASSUME IInv, NEW r \in Senders, Write(r) PROVE IInv'
<1>1. TProcess'
  BY DEF IInv, WellTyped, TProcess, Write, process, Agents
<1>2. TFrames'
  BY DEF IInv, WellTyped, TFrames, Write, frames, sending, ReqStates, Senders
<1>3. TFibers' /\ TEvents'
  BY DEF IInv, WellTyped, TFibers, TEvents, Write, ending, fibers, events
<1>4. Started' /\ Held' /\ Told'
  BY DEF IInv, WellTyped, TFibers, Started, Held, Told, Write, process, ending, fibers, events
<1> QED  BY <1>1, <1>2, <1>3, <1>4 DEF IInv, WellTyped

LEMMA TimesOutIInv == ASSUME IInv, NEW r \in Senders, TimesOut(r) PROVE IInv'
<1>1. UNCHANGED <<process, processRef, frames, command, start, ending, fibers, tools, events>>
  BY DEF TimesOut
<1>2. TProcess' /\ TFibers' /\ TEvents'
  BY <1>1 DEF IInv, WellTyped, TProcess, TFibers, TEvents, process, ending, fibers, events
<1>3. TFrames'
  BY <1>1 DEF IInv, WellTyped, TFrames, frames, TimesOut, ReqStates
<1>4. Started' /\ Held' /\ Told'
  BY <1>1 DEF IInv, Started, Held, Told, process, ending, fibers, events
<1> QED  BY <1>2, <1>3, <1>4 DEF IInv, WellTyped

-----------------------------------------------------------------------------
(* fail                                                                    *)

\* Whoever fails, and with whatever becomes of the requests: the first to take
\* the process kills it and tells its end, or a stop has it in hand.
LEMMA FailIsSound ==
  ASSUME IInv, NEW f \in Failers, NEW q \in [Senders -> ReqStates], Fail(f, q),
         start' = start, tools' \in [Calls -> {"none", "running", "over"}]
  PROVE  TFrames' /\ TEvents' /\ failer' \in {None} \cup Failers /\ Started' /\ Held' /\ Told'
<1>1. TFrames'
  BY RejectedIsTyped DEF IInv, WellTyped, TFrames, Fail, sending
<1>2. TEvents'
  BY EmitAppends DEF IInv, WellTyped, TEvents, Fail, Notices
<1>3. failer' \in {None} \cup Failers
  BY DEF IInv, WellTyped, TFibers, Fail
<1>4. Started' /\ Held'
  BY DEF IInv, WellTyped, TProcess, TFibers, Started, Held, Fail, TakesProcess, ending
<1>5. Told'
  <2>1. CASE processRef /\ ~stopping
    <3>1. "worker_exited" \notin heard /\ \A i \in DOMAIN queue : queue[i] = "error"
      BY <2>1 DEF IInv, WellTyped, TEvents, Told, Notices
    <3>2. ~processRef' /\ start' # "idle" /\ heard' = heard
      BY <2>1 DEF Fail, TakesProcess, IInv, Started
    <3>3. Emit("worker_exited")
      BY <2>1 DEF Fail
    <3>4. \A i \in DOMAIN queue' : queue'[i] = "worker_exited" =>
            \A j \in DOMAIN queue' : j # i => queue'[j] = "error"
      BY <3>1, <3>3 DEF Emit, IInv, WellTyped, TEvents
    <3> QED  BY <3>1, <3>2, <3>4 DEF Told
  <2>2. CASE ~(processRef /\ ~stopping)
    BY <2>2 DEF Fail, TakesProcess, IInv, Told
  <2> QED  BY <2>1, <2>2
<1> QED  BY <1>1, <1>2, <1>3, <1>4, <1>5

\* ... which is all, when the reader and the exit fiber are left well typed.
LEMMA FailIInv ==
  ASSUME IInv, NEW f \in Failers, NEW q \in [Senders -> ReqStates], Fail(f, q),
         start' = start, tools' \in [Calls -> {"none", "running", "over"}],
         ReadsOn \/ ReaderOver, exitFiber' \in {exitFiber, "over"}
  PROVE  IInv'
<1>1. TProcess'
  BY OutputIsTyped DEF Fail, IInv, WellTyped, TProcess
<1>2. TFibers'
  <2>1. failer' \in {None} \cup Failers
    BY FailIsSound
  <2>2. reader' \in {"none", "reading", "over"}
    BY OverIsTyped DEF IInv, WellTyped, TFibers, ReadsOn
  <2> QED  BY <2>1, <2>2 DEF IInv, WellTyped, TFibers, Fail, TakesProcess, ending
<1> QED  BY <1>1, <1>2, FailIsSound DEF IInv, WellTyped

LEMMA WriteFailsIInv == ASSUME IInv, NEW r \in Senders, WriteFails(r) PROVE IInv'
<1>1. [req EXCEPT ![r] = "failed"] \in [Senders -> ReqStates]
  BY DEF IInv, WellTyped, TFrames, ReqStates
<1> QED  BY <1>1, FailIInv DEF WriteFails, IInv, WellTyped, TFrames, Failers

LEMMA ToolResultIInv == ASSUME IInv, NEW c \in Calls, ToolResult(c) PROVE IInv'
<1>1. tools' \in [Calls -> {"none", "running", "over"}]
  BY DEF ToolResult, IInv, WellTyped, TFrames
<1>2. CASE Fail(c, req) /\ ReadsOn /\ UNCHANGED exitFiber
  BY <1>1, <1>2, FailIInv DEF ToolResult, IInv, WellTyped, TFrames, Failers
<1>3. CASE UNCHANGED <<process, processRef, frames, sending, ending, fibers, events>>
  <2>1. start' = start
    BY DEF ToolResult
  <2> QED
    BY <1>1, <1>3, <2>1
    DEF IInv, WellTyped, TProcess, TFrames, TFibers, TEvents, Started, Held, Told, process,
        frames, sending, ending, fibers, events
<1> QED  BY <1>2, <1>3 DEF ToolResult

LEMMA RespondToUiFailsIInv == ASSUME IInv, RespondToUiFails PROVE IInv'
BY FailIInv DEF RespondToUiFails, IInv, WellTyped, TFrames, Failers

LEMMA ExitedIInv == ASSUME IInv, Exited PROVE IInv'
BY FailIInv DEF Exited, IInv, WellTyped, TFrames, Failers

LEMMA ReadRubbishIInv == ASSUME IInv, ReadRubbish PROVE IInv'
BY FailIInv DEF ReadRubbish, IInv, WellTyped, TFrames, Failers

LEMMA OutputEndedIInv == ASSUME IInv, OutputEnded PROVE IInv'
BY FailIInv DEF OutputEnded, IInv, WellTyped, TFrames, Failers

-----------------------------------------------------------------------------
(* The output                                                              *)

\* A frame that is taken is a frame; those behind it stay, and nobody's
\* process, stop or start is touched.
LEMMA TakeIsTyped ==
  ASSUME IInv, NEW type \in Types, Take(type)
  PROVE  /\ Head(out) \in Frames /\ Head(out).type = type
         /\ type = "prompt_result" => Head(out).id \in Requests
         /\ TProcess' /\ TFibers' /\ Started' /\ Held'
<1>1. /\ out # <<>> /\ out' = Tail(out) /\ Head(out).type = type
      /\ UNCHANGED <<proc, killed, agent, eof, processRef, start, ending, fibers>>
  BY DEF Take
<1>2. Head(out) = out[1] /\ 1 \in DOMAIN out /\ out \in Seq(Frames)
  BY <1>1 DEF IInv, WellTyped, TProcess
<1>3. /\ Tail(out) \in Seq(Frames) /\ Len(Tail(out)) = Len(out) - 1
      /\ \A i \in DOMAIN Tail(out) : i + 1 \in DOMAIN out /\ Tail(out)[i] = out[i + 1]
  BY <1>1, <1>2
<1>4. TProcess'
  BY <1>1, <1>2, <1>3, RpcAssumption DEF IInv, WellTyped, TProcess
<1>5. TFibers' /\ Started' /\ Held'
  BY <1>1 DEF IInv, WellTyped, TFibers, Started, Held, ending, fibers
<1> QED  BY <1>1, <1>2, <1>4, <1>5 DEF IInv, WellTyped, TProcess

\* A frame that is taken leaves what the authority has heard.
LEMMA TakeTells ==
  ASSUME IInv, NEW type \in Types, Take(type), queue' = queue \/ Emit("error")
  PROVE  TEvents' /\ Told'
<1>1. /\ processRef' = processRef /\ start' = start /\ heard' = heard
      /\ subscribed' = subscribed /\ listening' = listening /\ processRef \in BOOLEAN
  BY DEF Take, IInv, WellTyped, TFibers
<1>2. TEvents'
  BY <1>1, EmitAppends DEF IInv, WellTyped, TEvents, Notices
<1>3. /\ "worker_exited" \in heard => ~processRef /\ start # "idle"
      /\ \A i \in DOMAIN queue : queue[i] = "worker_exited" =>
           /\ ~processRef /\ start # "idle" /\ "worker_exited" \notin heard
           /\ \A j \in DOMAIN queue : j # i => queue[j] = "error"
  BY DEF IInv, Told
<1>4. \A i \in DOMAIN queue' : queue'[i] = "error" \/ (i \in DOMAIN queue /\ queue'[i] = queue[i])
  <2>1. CASE queue' = queue
    BY <2>1
  <2>2. CASE Emit("error")
    BY <2>2, EmitAppends DEF IInv, WellTyped, TEvents, Notices
  <2> QED  BY <2>1, <2>2
<1>5. Told'
  BY <1>1, <1>3, <1>4 DEF Told
<1> QED  BY <1>2, <1>5

LEMMA ReadReadyIInv == ASSUME IInv, ReadReady PROVE IInv'
<1>1. Take("ready") /\ queue' = queue
  BY DEF ReadReady
<1>2. TFrames'
  BY DEF IInv, WellTyped, TFrames, ReadReady, Take
<1> QED  BY <1>1, <1>2, TakeIsTyped, TakeTells DEF IInv, WellTyped, Types

LEMMA ReadAnswerIInv == ASSUME IInv, ReadAnswer PROVE IInv'
<1>1. Take("response") /\ queue' = queue
  BY DEF ReadAnswer
<1>2. TFrames'
  BY DEF IInv, WellTyped, TFrames, ReadAnswer, Take, Pending, ReqStates
<1> QED  BY <1>1, <1>2, TakeIsTyped, TakeTells DEF IInv, WellTyped, Types

LEMMA ReadLateAnswerIInv == ASSUME IInv, ReadLateAnswer PROVE IInv'
<1>1. Take("response") /\ (queue' = queue \/ Emit("error"))
  BY DEF ReadLateAnswer
<1>2. TFrames'
  BY DEF IInv, WellTyped, TFrames, ReadLateAnswer, Take
<1> QED  BY <1>1, <1>2, TakeIsTyped, TakeTells DEF IInv, WellTyped, Types

LEMMA ReadPromptResultIInv == ASSUME IInv, ReadPromptResult PROVE IInv'
<1>1. Take("prompt_result") /\ queue' = queue
  BY DEF ReadPromptResult
<1>2. Head(out).id \in Requests
  BY <1>1, TakeIsTyped DEF Types
<1>3. TFrames'
  BY <1>2 DEF IInv, WellTyped, TFrames, ReadPromptResult, Take
<1> QED  BY <1>1, <1>3, TakeIsTyped, TakeTells DEF IInv, WellTyped, Types

LEMMA ReadAgentStartIInv == ASSUME IInv, ReadAgentStart PROVE IInv'
<1>1. Take("agent_start") /\ queue' = queue
  BY DEF ReadAgentStart
<1>2. TFrames'
  BY DEF IInv, WellTyped, TFrames, ReadAgentStart, Take
<1> QED  BY <1>1, <1>2, TakeIsTyped, TakeTells DEF IInv, WellTyped, Types

LEMMA ReadAgentEndIInv == ASSUME IInv, ReadAgentEnd PROVE IInv'
<1>1. Take("agent_end") /\ queue' = queue
  BY DEF ReadAgentEnd
<1>2. TFrames'
  BY DEF IInv, WellTyped, TFrames, ReadAgentEnd, Take
<1> QED  BY <1>1, <1>2, TakeIsTyped, TakeTells DEF IInv, WellTyped, Types

LEMMA ReadHostToolCallIInv == ASSUME IInv, ReadHostToolCall PROVE IInv'
<1>1. Take("host_tool_call") /\ queue' = queue
  BY DEF ReadHostToolCall
<1>2. TFrames'
  BY DEF IInv, WellTyped, TFrames, ReadHostToolCall, Take
<1> QED  BY <1>1, <1>2, TakeIsTyped, TakeTells DEF IInv, WellTyped, Types

-----------------------------------------------------------------------------
(* The events                                                              *)

LEMMA ListenIInv == ASSUME IInv, Listen PROVE IInv'
BY DEF IInv, WellTyped, TProcess, TFrames, TFibers, TEvents, Started, Held, Told, Listen,
   process, frames, sending, ending, fibers

LEMMA PumpIInv == ASSUME IInv, Pump PROVE IInv'
<1>1. /\ queue \in Seq(Notices) /\ queue # <<>>
      /\ queue' = Tail(queue) /\ heard' = heard \cup {Head(queue)}
  BY DEF IInv, WellTyped, TEvents, Pump
<1>2. UNCHANGED <<process, processRef, frames, sending, start, ending, fibers, tools, subscribed,
                  listening>>
  BY DEF Pump
<1>3. Head(queue) = queue[1] /\ 1 \in DOMAIN queue /\ Head(queue) \in Notices
  BY <1>1
<1>4. /\ queue' \in Seq(Notices)
      /\ \A i \in DOMAIN queue' : i + 1 \in DOMAIN queue /\ i + 1 # 1 /\ queue'[i] = queue[i + 1]
      /\ \A i, j \in DOMAIN queue' : i # j => i + 1 # j + 1
  BY <1>1
<1>5. WellTyped'
  BY <1>1, <1>2, <1>3, <1>4 DEF IInv, WellTyped, TProcess, TFrames, TFibers, TEvents,
     process, frames, sending, ending, fibers
<1>6. Started' /\ Held'
  BY <1>2 DEF IInv, Started, Held, process, ending, fibers
<1>7. Told'
  <2>1. CASE Head(queue) = "worker_exited"
    <3>1. \A i \in DOMAIN queue' : queue'[i] = "error"
      BY <1>3, <1>4, <2>1 DEF IInv, Told
    <3>2. ~processRef' /\ start' # "idle"
      BY <1>2, <1>3, <2>1 DEF IInv, Told
    <3> QED  BY <3>1, <3>2 DEF Told
  <2>2. CASE Head(queue) # "worker_exited"
    <3>1. "worker_exited" \in heard' <=> "worker_exited" \in heard
      BY <1>1, <2>2
    <3> QED  BY <1>2, <1>4, <3>1 DEF IInv, Told
  <2> QED  BY <2>1, <2>2
<1> QED  BY <1>5, <1>6, <1>7 DEF IInv

-----------------------------------------------------------------------------
(* The process                                                             *)

LEMMA ProcessExitsIInv == ASSUME IInv, ProcessExits PROVE IInv'
<1>1. UNCHANGED <<processRef, frames, sending, start, ending, fibers, tools, events>>
  BY DEF ProcessExits
<1>2. TFrames' /\ TFibers' /\ TEvents' /\ Told' /\ Started'
  BY <1>1 DEF IInv, WellTyped, TFrames, TFibers, TEvents, Told, Started, frames, sending, ending,
     fibers, events
<1>3. TProcess' /\ Held'
  BY <1>1 DEF IInv, WellTyped, TProcess, Held, ProcessExits, ending
<1> QED  BY <1>2, <1>3 DEF IInv, WellTyped

LEMMA OutputEndsIInv == ASSUME IInv, OutputEnds PROVE IInv'
<1>1. UNCHANGED <<processRef, frames, sending, start, ending, fibers, tools, events>>
  BY DEF OutputEnds
<1>2. TFrames' /\ TFibers' /\ TEvents' /\ Told' /\ Started'
  BY <1>1 DEF IInv, WellTyped, TFrames, TFibers, TEvents, Told, Started, frames, sending, ending,
     fibers, events
<1>3. TProcess' /\ Held'
  BY <1>1 DEF IInv, WellTyped, TProcess, Held, OutputEnds, ending
<1> QED  BY <1>2, <1>3 DEF IInv, WellTyped

LEMMA WritesIInv ==
  ASSUME IInv, NEW f \in Frames, NEW a \in Agents, Writes(f, a),
         f.type = "prompt_result" => f.id \in Requests
  PROVE  IInv'
<1>1. /\ out' = Append(out, f) /\ agent' = a /\ Len(out) < MaxOut /\ out \in Seq(Frames)
      /\ UNCHANGED <<proc, killed, eof, processRef, frames, sending, start, ending, fibers, tools,
                     events>>
  BY DEF Writes, IInv, WellTyped, TProcess
<1>2. /\ out' \in Seq(Frames) /\ Len(out') <= MaxOut
      /\ \A i \in DOMAIN out' : (i \in DOMAIN out /\ out'[i] = out[i]) \/ out'[i] = f
  BY <1>1, RpcAssumption
<1>3. TProcess'
  BY <1>1, <1>2 DEF IInv, WellTyped, TProcess
<1>4. TFrames' /\ TFibers' /\ TEvents'
  BY <1>1 DEF IInv, WellTyped, TFrames, TFibers, TEvents, frames, sending, ending, fibers, events
<1>5. Started' /\ Held' /\ Told'
  BY <1>1 DEF IInv, Started, Held, Told, ending, fibers, events
<1> QED  BY <1>3, <1>4, <1>5 DEF IInv, WellTyped

LEMMA FrameIsTyped ==
  ASSUME NEW type \in Types, NEW id \in Senders \cup Calls \cup {None}, NEW ok \in BOOLEAN
  PROVE  /\ Frame(type, id, ok) \in Frames
         /\ Frame(type, id, ok).type = type /\ Frame(type, id, ok).id = id
BY DEF Frame, Frames

LEMMA ProcessIInv == ASSUME IInv, ProcessStep PROVE IInv'
<1> USE DEF Types, Senders
<1>1. agent \in Agents
  BY DEF IInv, WellTyped, TProcess
<1>2. CASE Announces
  BY <1>1, <1>2, WritesIInv, FrameIsTyped DEF Announces, Agents
<1>3. CASE WritesRubbish
  BY <1>1, <1>3, WritesIInv, FrameIsTyped DEF WritesRubbish
<1>4. ASSUME NEW r \in Senders, Answers(r) PROVE IInv'
  <2> DEFINE prompts(ok) == IF ok /\ r \in Requests /\ command[r] = "prompt" THEN {r} ELSE {}
             a(ok) == [agent EXCEPT !.inbox = @ \ {r}, !.prompts = @ \cup prompts(ok)]
  <2>1. PICK ok \in BOOLEAN : Writes(Frame("response", r, ok), a(ok))
    BY <1>4 DEF Answers
  <2>2. a(ok) \in Agents
    BY <1>1 DEF Agents
  <2> QED  BY <2>1, <2>2, WritesIInv, FrameIsTyped
<1>5. ASSUME NEW r \in Requests, SchedulingFails(r) \/ PromptEnds(r) PROVE IInv'
  <2> DEFINE a == [agent EXCEPT !.prompts = @ \ {r}]
  <2>1. a \in Agents
    BY <1>1 DEF Agents
  <2>2. CASE Writes(Frame("response", r, FALSE), a)
    BY <2>1, <2>2, WritesIInv, FrameIsTyped
  <2>3. CASE Writes(Frame("prompt_result", r, TRUE), a)
    <3>1. Frame("prompt_result", r, TRUE) \in Frames /\ Frame("prompt_result", r, TRUE).id = r
      BY FrameIsTyped
    <3> QED  BY <2>1, <2>3, <3>1, WritesIInv
  <2> QED  BY <1>5, <2>2, <2>3 DEF SchedulingFails, PromptEnds
<1>6. CASE AgentStarts
  BY <1>1, <1>6, WritesIInv, FrameIsTyped DEF AgentStarts, Agents
<1>7. CASE AgentEnds
  BY <1>1, <1>7, WritesIInv, FrameIsTyped DEF AgentEnds, Agents
<1>8. ASSUME NEW c \in Calls, CallsTool(c) PROVE IInv'
  <2> DEFINE a == [agent EXCEPT !.calls = @ \cup {c}]
  <2>1. a \in Agents
    BY <1>1 DEF Agents
  <2>2. Writes(Frame("host_tool_call", c, TRUE), a)
    BY <1>8 DEF CallsTool
  <2> QED  BY <2>1, <2>2, WritesIInv, FrameIsTyped
<1> QED
  BY <1>2, <1>3, <1>4, <1>5, <1>6, <1>7, <1>8, ProcessExitsIInv, OutputEndsIInv
  DEF ProcessStep, PromptStep

-----------------------------------------------------------------------------
LEMMA Initially == Init => IInv
<1> SUFFICES ASSUME Init PROVE IInv
  OBVIOUS
<1>1. TProcess
  <2>1. out = <<>> /\ out \in Seq(Frames) /\ Len(out) = 0 /\ DOMAIN out = {}
    BY NothingIsTyped DEF Init
  <2>2. agent \in Agents
    BY DEF Init, NoAgent, Agents
  <2>3. Len(out) <= MaxOut
    BY <2>1, RpcAssumption
  <2> QED  BY <2>1, <2>2, <2>3 DEF Init, TProcess
<1>2. TFrames
  BY DEF Init, TFrames, ReqStates
<1>3. TFibers /\ TEvents
  BY NothingIsTyped DEF Init, TFibers, TEvents
<1>4. Started /\ Held /\ Told
  BY NothingIsTyped DEF Init, Started, Held, Told
<1> QED  BY <1>1, <1>2, <1>3, <1>4 DEF IInv, WellTyped

LEMMA NextIInv == IInv /\ [Next]_vars => IInv'
<1> SUFFICES ASSUME IInv, [Next]_vars PROVE IInv'
  OBVIOUS
<1>1. CASE StartStep
  BY <1>1, SpawnIInv, ReadyIInv, NotReadyIInv, NegotiatedIInv, StartStopsIInv DEF StartStep
<1>2. CASE StopStep
  BY <1>2, FailerStopsIInv, StopTerminatesIInv, FinishStopIInv DEF StopStep
<1>3. CASE ReadStep
  BY <1>3, ReadReadyIInv, ReadAnswerIInv, ReadLateAnswerIInv, ReadPromptResultIInv,
     ReadAgentStartIInv, ReadAgentEndIInv, ReadHostToolCallIInv, ReadRubbishIInv,
     OutputEndedIInv DEF ReadStep
<1>4. CASE Exited \/ ProcessStep \/ Listen \/ Pump \/ RespondToUiFails
  BY <1>4, ExitedIInv, ProcessIInv, ListenIInv, PumpIInv, RespondToUiFailsIInv
<1>5. ASSUME NEW k \in Stops, CallStop(k) \/ Stop(k) \/ AbandonStart(k) PROVE IInv'
  BY <1>5, CallStopIInv, StopIInv, AbandonStartIInv
<1>6. ASSUME NEW r \in Requests, Send(r) PROVE IInv'
  BY <1>6, SendIInv
<1>7. ASSUME NEW r \in Senders, Write(r) \/ WriteFails(r) \/ TimesOut(r) PROVE IInv'
  BY <1>7, WriteIInv, WriteFailsIInv, TimesOutIInv
<1>8. ASSUME NEW c \in Calls, ToolResult(c) PROVE IInv'
  BY <1>8, ToolResultIInv
<1>9. CASE UNCHANGED vars
  BY <1>9 DEF vars, process, frames, sending, ending, fibers, events, IInv, WellTyped,
     TProcess, TFrames, TFibers, TEvents, Started, Held, Told
<1> QED  BY <1>1, <1>2, <1>3, <1>4, <1>5, <1>6, <1>7, <1>8, <1>9 DEF Next

\* The inductive invariant holds throughout.
THEOREM Invariance == Spec => []IInv
<1> QED  BY Initially, NextIInv, PTL DEF Spec

\* The state keeps its types, and whichever fibers find out that the worker is
\* gone, its end is told the authority once at most.
THEOREM TypeCorrect == Spec => []TypeOK
<1>1. IInv => TypeOK
  BY DEF IInv, WellTyped, TProcess, TFrames, TFibers, TEvents, Told, TypeOK, Agents, ReqStates,
     Failers, Notices
<1> QED  BY <1>1, Invariance, PTL

\* However start, stop, fail and the exits of fibers interleave, a process that
\* runs is the worker's, or in the hands of a stop, or was killed.
THEOREM NothingIsLeftRunning == Spec => []NoOrphan
<1>1. IInv => NoOrphan
  BY DEF IInv, WellTyped, TFibers, Held, NoOrphan
<1> QED  BY <1>1, Invariance, PTL
==============================================================================
