------------------------------ MODULE T3Driver ------------------------------
(***************************************************************************)
(* The T3 driver (src/src/drivers/t3) under the worker adapter             *)
(* (src/src/drivers/worker-adapter.ts): the session authority sends turns, *)
(* one at a time, to a thread of a T3 daemon over a socket that may be     *)
(* lost at any moment.  A turn is dispatched under ids derived from its    *)
(* client request id, and looked up in the thread's projection before it   *)
(* is sent and after a lost answer.  The thread is seen as T3Thread        *)
(* promises.  A watcher per turn waits for the outcome of its run and      *)
(* tells the authority, and a stall timer ends an attempt that makes no    *)
(* progress.                                                               *)
(*                                                                         *)
(* T3 is external: what it does is taken from how the driver uses it, a    *)
(* receipt per command id, one active run, queued turns started in its own *)
(* time.                                                                   *)
(***************************************************************************)
EXTENDS T3Thread

CONSTANTS Turns,     \* the inputs of the session, numbered in their order
          Restarts,  \* runs T3 may create to continue an interrupted one
          MaxFaults, \* bound: lost requests, timeouts, failed reads
          MaxOpens   \* bound: attempts of the authority to open a worker

\* A run is named after the message it was made for.
ASSUME RunsAssumption ==
  /\ Turns \subseteq Nat /\ Runs = Turns \cup Restarts /\ Turns \cap Restarts = {}
  /\ None \notin Runs

VARIABLES
  \* T3
  link,      \* the run each message is linked to
  cont,      \* the run each restart continues
  landed,    \* how many times T3 accepted the message of a turn
  receipts,  \* the command ids T3 has accepted
  wire,      \* frames of dispatch requests T3 has not taken
  \* the adapter
  awaiting, owned, watch, asking, told,
  \* the authority
  phase, opens, send, processed,
  faults     \* faults so far

messages == <<link, cont, landed, receipts>>
adapter == <<awaiting, owned, watch, asking, told>>
authority == <<phase, opens, processed>>
vars == <<log, feed, messages, wire, adapter, authority, send, faults>>

\* Mutant of CommandId: every try has an id of its own.
FreshCommandId(t, try) == <<t, try>>

CommandId(t, try) == t

NoSend == [at |-> "idle", turn |-> None, target |-> None, mode |-> "auto", try |-> 1]

\* The thread has the message of a turn, and a run for it.
Located(t) == link[t] # None

Fault == faults < MaxFaults /\ faults' = faults + 1

-----------------------------------------------------------------------------
(* T3.                                                                     *)

\* A message is accepted: it steers the run it names, or has a run of its own.
Accepts(f) ==
  LET steers == f.mode = "steer"
  IN /\ receipts' = receipts \cup {f.id}
     /\ landed' = [landed EXCEPT ![f.turn] = @ + 1]
     /\ link' = [link EXCEPT ![f.turn] = IF steers THEN f.target ELSE f.turn]
     /\ IF steers THEN UNCHANGED log ELSE Goes(f.turn, "queued")
     /\ UNCHANGED cont

Refusable(f) == \/ f.mode = "steer" /\ Status(f.target) # "running"
                \/ f.mode = "start" /\ ActiveRun # {}

Answer(f, result) == send' = IF f.live THEN [send EXCEPT !.at = result] ELSE send

\* A frame is taken once, late perhaps, or never.  One that is taken when its
\* request has been given up is also one whose answer was lost.
T3Takes(f) ==
  /\ wire' = wire \ {f}
  /\ \/ /\ f.id \in receipts
        /\ Answer(f, "after")
        /\ UNCHANGED <<log, messages>>
     \/ /\ f.id \notin receipts
        /\ f.mode = "steer" => Status(f.target) = "running"
        /\ Accepts(f)
        /\ Answer(f, "after")
     \/ /\ f.id \notin receipts
        /\ Refusable(f)
        /\ Answer(f, "failed")
        /\ UNCHANGED <<log, messages>>
  /\ UNCHANGED <<feed, adapter, authority, faults>>

\* T3 runs its thread; it settles a question itself when the run is over.
T3Runs(r) ==
  /\ \/ Starts(r) \/ Ends(r) \/ Holds(r) \/ Releases(r) \/ Asks(r)
     \/ Status(r) \in Terminal /\ Settles(r)
  /\ UNCHANGED <<feed, messages, wire, adapter, authority, send, faults>>

\* T3 makes the continuation of a run before it stops the run.
T3Restarts(r, c) ==
  /\ r \in Turns /\ Status(r) = "running"
  /\ cont[c] = None /\ \A d \in Restarts : cont[d] # r
  /\ cont' = [cont EXCEPT ![c] = r]
  /\ Len(log) + 2 <= MaxLog
  /\ log' = log \o <<[run |-> c, what |-> "queued"], [run |-> r, what |-> "stopped"]>>
  /\ UNCHANGED <<feed, link, landed, receipts, wire, adapter, authority, send, faults>>

-----------------------------------------------------------------------------
(* Sending a turn.                                                         *)

\* A request that may have reached T3 is settled by reading the projection
\* once; after that, and for a refusal, the send fails.
Unanswered == IF send.try = 1 THEN [send EXCEPT !.at = "reconcile"]
              ELSE [send EXCEPT !.at = "failed"]

Abandoned == {[f EXCEPT !.live = FALSE] : f \in wire}

\* The next input: a prompt to a new worker; to one that has a turn already,
\* a steer if T3 is running one at that moment, or else a follow-up.
Delivery == IF \A t \in Turns : watch[t] = "off" THEN "auto"
            ELSE IF ActiveRun # {} THEN "steer" ELSE "queue"

Send(t) ==
  /\ phase = "open" /\ send.at = "idle"
  /\ t \notin processed /\ \A u \in Turns : u < t => u \in processed
  /\ send' = [NoSend EXCEPT !.at = "before", !.turn = t, !.mode = Delivery]
  /\ UNCHANGED <<log, feed, messages, wire, adapter, authority, faults>>

\* The handle of a turn: its watcher starts waiting for the outcome.
Handle(t) ==
  /\ awaiting' = TRUE
  /\ owned' = link[t]
  /\ watch' = [watch EXCEPT ![t] = "wait"]
  /\ send' = [send EXCEPT !.at = "returned"]
  /\ UNCHANGED <<asking, told>>

Mode(active) ==
  CASE send.mode = "steer" /\ active # {} -> "steer"
    [] send.mode = "queue" \/ (send.mode = "auto" /\ active # {}) -> "queue"
    [] OTHER -> "start"

FetchBefore ==
  /\ send.at = "before"
  /\ IF Located(send.turn)
     THEN Handle(send.turn)
     ELSE /\ send' = [send EXCEPT !.at = "dispatch", !.mode = Mode(ActiveRun),
                        !.target = IF Mode(ActiveRun) = "steer"
                                   THEN CHOOSE r \in ActiveRun : TRUE ELSE None]
          /\ UNCHANGED adapter
  /\ UNCHANGED <<log, feed, messages, wire, authority, faults>>

Dispatch ==
  /\ send.at = "dispatch"
  /\ wire' = wire \cup {[id |-> CommandId(send.turn, send.try), turn |-> send.turn,
                         mode |-> send.mode, target |-> send.target, live |-> TRUE]}
  /\ send' = [send EXCEPT !.at = "wire"]
  /\ UNCHANGED <<log, feed, messages, adapter, authority, faults>>

\* No answer in time, or the socket is gone with everything in flight on it.
RequestLost ==
  /\ send.at = "wire" /\ Fault
  /\ send' = Unanswered
  /\ wire' = Abandoned
  /\ UNCHANGED <<log, feed, messages, adapter, authority>>

Reconcile ==
  /\ send.at = "reconcile"
  /\ send' = IF Located(send.turn)
             THEN [send EXCEPT !.at = "after"]
             ELSE [send EXCEPT !.at = "dispatch", !.try = 2]
  /\ UNCHANGED <<log, feed, messages, wire, adapter, authority, faults>>

FetchAfter ==
  /\ send.at = "after"
  /\ IF Located(send.turn)
     THEN Handle(send.turn)
     ELSE send' = [send EXCEPT !.at = "failed"] /\ UNCHANGED adapter
  /\ UNCHANGED <<log, feed, messages, wire, authority, faults>>

\* A read fails for good, or no connection takes the request.
SendFails ==
  /\ send.at \in {"before", "dispatch", "reconcile", "after"} /\ Fault
  /\ send' = [send EXCEPT !.at = "failed"]
  /\ UNCHANGED <<log, feed, messages, wire, adapter, authority>>

\* The authority marks the input once the worker has it.
MarkProcessed ==
  /\ send.at = "returned"
  /\ processed' = processed \cup {send.turn}
  /\ send' = NoSend
  /\ UNCHANGED <<log, feed, messages, wire, adapter, phase, opens, faults>>

-----------------------------------------------------------------------------
(* The adapter.                                                            *)

Seen(r) == StatusAt(cursor, r)
Tell(what) == told' = IF told = None THEN what ELSE told

\* Mutant of Final: a run that T3 continues in another one has ended.
FinalAlone(r) == r

\* The run a turn ends with: its own, or the one T3 continued it in.
Final(r) ==
  LET next == {c \in Restarts : cont[c] = r /\ Seen(c) # "none"}
  IN IF Seen(r) = "stopped" /\ next # {} THEN CHOOSE c \in next : TRUE ELSE r

Resolved(t) == Seen(Final(link[t])) \in Terminal

OthersAtWork(r) == \E x \in Runs \ {r} : Status(x) \in Waiting \cup {"running"}

\* The watcher has its outcome and reads the projection for other turns.
WatcherReads(t) ==
  /\ phase = "open" /\ watch[t] = "wait" /\ ~failure /\ Resolved(t)
  /\ \/ watch' = [watch EXCEPT ![t] = IF OthersAtWork(Final(link[t])) THEN "busy" ELSE "alone"]
        /\ UNCHANGED faults
     \/ Fault /\ watch' = [watch EXCEPT ![t] = "alone"]
  /\ UNCHANGED <<log, feed, messages, wire, awaiting, owned, asking, told, authority, send>>

\* Another turn will complete the attempt.
Leaves(t) == watch[t] = "busy" /\ Seen(Final(link[t])) = "completed"

WatcherLeaves(t) ==
  /\ phase = "open" /\ Leaves(t)
  /\ watch' = [watch EXCEPT ![t] = "over"]
  /\ UNCHANGED <<log, feed, messages, wire, awaiting, owned, asking, told, authority, send, faults>>

WatcherTells(t) ==
  /\ phase = "open" /\ watch[t] \in {"busy", "alone"} /\ ~Leaves(t)
  /\ watch' = [watch EXCEPT ![t] = "over"]
  /\ awaiting' = FALSE
  /\ Tell([how |-> Seen(Final(link[t])), run |-> Final(link[t])])
  /\ UNCHANGED <<log, feed, messages, wire, owned, asking, authority, send, faults>>

Error == [how |-> "error", run |-> None]

\* The stream of events has failed: so has every outcome still awaited.
WatcherFails(t) ==
  /\ phase = "open" /\ watch[t] = "wait" /\ failure
  /\ watch' = [watch EXCEPT ![t] = "over"]
  /\ Tell(Error)
  /\ UNCHANGED <<log, feed, messages, wire, awaiting, owned, asking, authority, send, faults>>

\* Mutant of Awaits: an answer does not start the timer again.
AwaitsNothing(what) == IF what \in Questions THEN FALSE ELSE awaiting

\* What an event of the session does to the stall timer.
Awaits(what) == IF what \in Questions THEN what = "answered" ELSE awaiting

Pump ==
  /\ phase = "open"
  /\ Take
  /\ LET r == Head(queue)[1]
         what == Head(queue)[2]
     IN /\ awaiting' = Awaits(what)
        /\ asking' = CASE what = "asks" -> r
                       [] what = "answered" /\ asking = r -> None
                       [] OTHER -> asking
        /\ IF what \in Questions THEN UNCHANGED told ELSE Tell(Error)
  /\ UNCHANGED <<messages, wire, owned, watch, authority, send, faults>>

\* No progress for the stall timeout: the turn is interrupted, if T3 hears it.
Stall ==
  /\ phase = "open" /\ awaiting
  /\ awaiting' = FALSE
  /\ Tell(Error)
  /\ \/ owned \in ActiveRun /\ Happens(owned, "stopped") /\ UNCHANGED faults
     \/ owned \in ActiveRun /\ Fault /\ UNCHANGED log
     \/ owned \notin ActiveRun /\ UNCHANGED <<log, faults>>
  /\ UNCHANGED <<feed, messages, wire, owned, watch, asking, authority, send>>

-----------------------------------------------------------------------------
(* The session: opened by the authority, which resumes a thread it has.    *)

\* The first open launches the thread; a later one finds it.
Open ==
  /\ phase = "closed" /\ opens < MaxOpens
  /\ opens' = opens + 1
  /\ phase' = IF opens = 0 THEN "open" ELSE "aborting"
  /\ UNCHANGED <<log, feed, messages, wire, adapter, processed, send, faults>>

\* A worker that found its thread interrupts the run it left behind.
Abort ==
  /\ phase = "aborting"
  /\ phase' = "open"
  /\ IF ActiveRun = {} THEN UNCHANGED log ELSE \E r \in ActiveRun : Happens(r, "stopped")
  /\ UNCHANGED <<feed, messages, wire, adapter, opens, processed, send, faults>>

\* A user's reply to the question in front of the run.  T3 refuses one to a
\* question that is settled; the request or its answer may be lost.
Respond ==
  /\ phase = "open" /\ send.at = "idle" /\ asking # None
  /\ \/ /\ Settles(asking)
        /\ asking' = None
        /\ UNCHANGED <<send, faults>>
     \/ /\ send' = [send EXCEPT !.at = "failed"]
        /\ \/ Fault /\ (Settles(asking) \/ UNCHANGED log)
           \/ Question(asking) # "asks" /\ UNCHANGED <<log, faults>>
        /\ UNCHANGED asking
  /\ UNCHANGED <<feed, messages, wire, awaiting, owned, watch, told, authority>>

\* The worker is stopped, or the gateway dies: the session is gone.
Close ==
  /\ phase # "closed"
  /\ phase' = "closed"
  /\ send' = NoSend /\ wire' = Abandoned
  /\ cursor' = -1 /\ shown' = {} /\ queue' = <<>> /\ failure' = FALSE
  /\ awaiting' = FALSE /\ owned' = None /\ asking' = None /\ told' = None
  /\ watch' = [t \in Turns |-> "off"]
  /\ UNCHANGED <<log, messages, opens, processed, faults>>

Stream ==
  /\ phase # "closed"
  /\ \/ Advance /\ UNCHANGED faults
     \/ GiveUp /\ Fault
  /\ UNCHANGED <<messages, wire, adapter, authority, send>>

-----------------------------------------------------------------------------
Init ==
  /\ Empty
  /\ wire = {} /\ receipts = {}
  /\ link = [t \in Turns |-> None]
  /\ cont = [c \in Restarts |-> None]
  /\ landed = [t \in Turns |-> 0]
  /\ awaiting = FALSE /\ owned = None /\ asking = None /\ told = None
  /\ watch = [t \in Turns |-> "off"]
  /\ phase = "closed" /\ opens = 0
  /\ processed = {}
  /\ send = NoSend
  /\ faults = 0

External ==
  \/ \E f \in wire : T3Takes(f)
  \/ \E r \in Runs : T3Runs(r) \/ \E c \in Restarts : T3Restarts(r, c)

Sends ==
  \/ \E t \in Turns : Send(t)
  \/ FetchBefore \/ Dispatch \/ RequestLost \/ Reconcile \/ FetchAfter
  \/ SendFails \/ MarkProcessed

Watches(t) == WatcherReads(t) \/ WatcherLeaves(t) \/ WatcherTells(t) \/ WatcherFails(t)

Gateway == Stream \/ Pump \/ Stall \/ \E t \in Turns : Watches(t)

Next == External \/ Gateway \/ Sends \/ Open \/ Abort \/ Respond \/ Close

\* The fibers of the gateway run, and time passes.  Nothing is asked of T3 or
\* of a user, and a session need not be closed.
Spec == Init /\ [][Next]_vars /\ WF_vars(Gateway)

-----------------------------------------------------------------------------
(* Properties.                                                             *)

SendSteps == {"idle", "before", "dispatch", "wire", "reconcile", "after", "returned", "failed"}
Modes == {"auto", "steer", "queue", "start"}
NoRun == Runs \cup {None}

\* Every variable keeps its type; a request is on the wire, live, exactly
\* while the send waits for T3 to take it, and a turn that is watched is
\* linked to a run.
TypeOK ==
  /\ log \in Seq([run : Runs, what : RunStatuses \cup Questions])
  /\ link \in [Turns -> NoRun]
  /\ cont \in [Restarts -> Turns \cup {None}]
  /\ landed \in [Turns -> Nat]
  /\ wire \subseteq [id : UNION {{CommandId(t, 1), CommandId(t, 2)} : t \in Turns},
                     turn : Turns, mode : Modes, target : NoRun, live : BOOLEAN]
  /\ awaiting \in BOOLEAN
  /\ {owned, asking} \subseteq NoRun
  /\ watch \in [Turns -> {"off", "wait", "busy", "alone", "over"}]
  /\ told = None \/ told \in [how : Terminal \cup {"error"}, run : NoRun]
  /\ phase \in {"closed", "aborting", "open"}
  /\ send \in [at : SendSteps, turn : Turns \cup {None}, target : NoRun,
               mode : Modes, try : 1 .. 2]
  /\ send.at = "wire" <=> \E f \in wire : f.live
  /\ \A t \in Turns : watch[t] # "off" => Located(t)

\* A turn reaches T3 at most once, whatever is lost, timed out, sent again or
\* adopted, and in whichever attempt (driver.ts: "retrying with the same ids
\* never creates a second thread or message"); and once if the authority has
\* marked it as processed, for it will not send that one again.
OneTurn == \A t \in Turns : landed[t] <= 1 /\ (t \in processed => landed[t] = 1)

\* What the authority is told of the end of a turn is how a run ended, for good
\* and as T3 has it, although the thread goes on while the watcher reads the
\* projection; and a run that T3 continues in another one is not the end.
OutcomeIsReal ==
  told # None /\ told.how # "error" =>
    /\ told.how \in Terminal /\ Status(told.run) = told.how
    /\ told.how = "stopped" => \A c \in Restarts : cont[c] # told.run

\* An attempt whose turn was accepted is told that it is over, or waits for
\* the answer to a question it has shown: whatever T3 does with the run, and
\* however often it has asked, a turn is never left with its stall timer off
\* for good.
AttemptEnds ==
  []<>((\E t \in Turns : watch[t] # "off") => told # None \/ asking # None \/ phase # "open")
=============================================================================
