-------------------------- MODULE SessionAuthority --------------------------
(***************************************************************************)
(* The life of an agent run: SessionAuthority (processRunnable,            *)
(* processSession, handleEvent, cancel, handleFailure, renewLeases) over   *)
(* the tables of RunRepo and RunInputRepo, with the webhooks that write    *)
(* them, the reconciler's catch-up and a crash and restart of the process. *)
(*                                                                         *)
(* Per session, the processing gate lets one fiber in at a time and admits *)
(* them in order of arrival: the reconciler's visit ("tick"), the consumer *)
(* of the worker's events ("event") or the cleanup after a lost lease      *)
(* ("loss").  job[s] is the fiber inside the gate and where it is.         *)
(* Webhooks, lease expiry and the other sessions interleave with it at     *)
(* every step.                                                             *)
(*                                                                         *)
(* A lease belongs to this process ("me"), to an earlier incarnation of it *)
(* ("old") or to nobody.  An input is named by its position in the inbox,  *)
(* the order of arrival; the code orders inputs by created_at, the time at *)
(* which Linear sent the webhook.  The model assumes that the webhooks of  *)
(* a session arrive in the order in which Linear sent them: the one that   *)
(* creates the session may be sent again after later ones, but no webhook  *)
(* is overtaken.                                                           *)
(***************************************************************************)
EXTENDS Naturals, Sequences, FiniteSets, SequencesExt

CONSTANTS
    Sessions,      \* Linear agent sessions, one run each
    MaxAttempts,   \* maxAttempts (5 in the code)
    MaxWorkers,    \* config.maxConcurrentWorkers
    MaxDeferrals,  \* deferrals of a stop that cannot be verified (10)
    MaxInputs,     \* bound: inputs of a session
    MaxFaults,     \* bound: failures of a worker, of routing or of a tool
    MaxStalls,     \* bound: expiries of a lease this process holds
    MaxCrashes,    \* bound: crashes and shutdowns
    MaxDenials     \* bound: revocations and losses of team access

ASSUME AuthorityAssumption ==
    /\ MaxAttempts \in Nat \ {0}
    /\ MaxWorkers \in Nat \ {0}
    /\ MaxDeferrals \in Nat \ {0}
    /\ {MaxInputs, MaxFaults, MaxStalls, MaxCrashes, MaxDenials} \subseteq Nat

VARIABLES
    run,       \* agent_run: state, desired_state, attempt, retry, workspace
    lease,     \* agent_run: lease_owner, and whether lease_expires_at is ahead
    inbox,     \* run_input: kind, and processed_at
    access,    \* installation: "full", "denied" (team access) or "revoked"
    up,        \* the process runs
    workers,   \* workersRef
    slots,     \* workerSlots
    leased,    \* leasedSessions
    ui,        \* pendingUiRef: sessions whose worker waits for an answer
    event,     \* the event a consumer has taken, while it waits for the gate
    gate,      \* the fibers that wait for each processing gate, in order
    deferrals, \* stopDeferralCountsRef, for the stop being deferred
    job,       \* the fiber inside each processing gate
    todo,      \* the sessions processRunnable has still to visit
    faults, stalls, crashes, denials  \* events so far, for the bounds

durable == <<run, lease, inbox>>
budget == <<faults, stalls, crashes, denials>>
vars == <<run, lease, inbox, access, up, workers, slots, leased, ui, event,
          gate, deferrals, job, todo, faults, stalls, crashes, denials>>

Terminal == {"succeeded", "failed", "canceled"}

Kinds == {"created", "prompted", "stop", "notice"}

\* retry is 0 unless next_attempt_at lies ahead, and is then the number of inputs
\* there were when the retry was scheduled, or MaxInputs once the attempt it was
\* scheduled for has begun: then no input opens its gate.
NoRun == [state |-> "absent", desired |-> "running", attempt |-> 0,
          retry |-> 0, workspace |-> FALSE]

\* A stop from Linear, or a stop inferred from a notification ("notice").
IsStop(input) == input.kind \in {"stop", "notice"}

NoLease == [owner |-> "none", live |-> FALSE]

NoInit == [desired |-> "running", ended |-> FALSE, attempt |-> 0, retry |-> 0]

\* init is the run as the visit first read it, ins its inputs then; acks are the
\* inputs to acknowledge once cancel has returned, ended tells cancel that the
\* run had ended, resume that the visit found an interrupted run, and failing
\* that handleFailure has run.  given is history: the input that the worker was
\* handed and that is not yet acknowledged, 0 if none.
NoJob == [who |-> "none", pc |-> "none", init |-> NoInit, ins |-> {},
          ended |-> FALSE, acks |-> {}, resume |-> FALSE, failing |-> FALSE,
          given |-> 0]

Ended(s) == run[s].state \in Terminal


-----------------------------------------------------------------------------
(* Repositories                                                             *)

\* A run made active again: enqueue's restart and reopen write the same row.
Requeued(r) == [r EXCEPT !.state = "queued", !.desired = "running",
                         !.attempt = 0, !.retry = 0]

\* Mutant of Stopped: the CASE on the state is forgotten.
StoppedAlways(r) == [r EXCEPT !.desired = "canceled", !.state = "stopping"]

\* applyStop
Stopped(r) == [r EXCEPT !.desired = "canceled",
                        !.state = IF @ \in {"queued", "waiting"} THEN "stopping"
                                                                 ELSE @]

\* The fence of update: the lease is this process's and has not expired.
Fenced(s) == lease[s].owner = "me" /\ lease[s].live

\* update: the new values, under the fence.  A terminal state is immutable.
MayUpdate(s, state) ==
    /\ Fenced(s)
    /\ Ended(s) => state = run[s].state

\* Mutant of Claimable: the present owner is not looked at.
ClaimableAnyLease(s) == ~Ended(s)

\* claimLease
Claimable(s) ==
    /\ ~Ended(s)
    /\ lease[s].owner \in {"none", "me"} \/ ~lease[s].live

Mine == [owner |-> "me", live |-> TRUE]

\* Mutant of Listed: no listCancellationPending.
ListedWithoutCancellations(s) ==
    /\ run[s].state \notin Terminal \cup {"absent"}
    /\ \/ \E i \in DOMAIN inbox[s] : ~inbox[s][i].done
       \/ /\ run[s].desired = "running" /\ run[s].retry = 0
          /\ lease[s].owner = "none" \/ ~lease[s].live

\* listCancellationPending, listSessionsWithPendingInputs and listRunnable.
Listed(s) ==
    /\ run[s].state \notin Terminal \cup {"absent"}
    /\ \/ run[s].desired = "canceled"
       \/ \E i \in DOMAIN inbox[s] : ~inbox[s][i].done
       \/ /\ run[s].desired = "running" /\ run[s].retry = 0
          /\ lease[s].owner = "none" \/ ~lease[s].live

Pending(s) == {i \in DOMAIN inbox[s] : ~inbox[s][i].done}

\* Mutant of StopsOf: inferred stops are left for a later visit.
UserStopsOf(s, ins) == {i \in ins : inbox[s][i].kind = "stop"}

StopsOf(s, ins) == {i \in ins : IsStop(inbox[s][i])}

ActionableOf(s, ins) == {i \in ins : ~IsStop(inbox[s][i])}

\* The loops over the stops and over the inputs of a visit acknowledge each one
\* they pass: what is left of S is what is not processed.
Left(s, S) == {i \in S : ~inbox[s][i].done}

First(S) == CHOOSE i \in S : \A j \in S : i <= j

\* markProcessed
Marked(s, ids) ==
    [inbox EXCEPT ![s] = [i \in DOMAIN @ |->
        IF i \in ids THEN [@[i] EXCEPT !.done = TRUE] ELSE @[i]]]

-----------------------------------------------------------------------------
(* Steps of the fiber inside the gate                                       *)

At(s, pc) == up /\ job[s].pc = pc

Goto(s, pc) == job' = [job EXCEPT ![s].pc = pc]

\* Something the step calls fails, or update's fence does.
Broken(s) ==
    \/ ~Fenced(s) /\ UNCHANGED faults
    \/ faults < MaxFaults /\ faults' = faults + 1

\* cancel begins, for the run as it was read; acks are the inputs the caller
\* marks once cancel has returned.
StartCancel(s, ended, acks) ==
    job' = [job EXCEPT ![s] = [@ EXCEPT !.pc = "cancel", !.ended = ended,
                                        !.acks = acks]]

\* Mutant of Released: only what the lease still covers is returned.
ReleasedIfOwned(s) ==
    IF s \in workers' \/ lease[s].owner # "me"
      THEN UNCHANGED <<slots, leased, lease>>
      ELSE /\ slots' = slots \ {s}
           /\ leased' = leased \ {s}
           /\ lease' = [lease EXCEPT ![s] = NoLease]

\* releaseIfNoWorker
Released(s) ==
    IF s \in workers'
      THEN UNCHANGED <<slots, leased, lease>>
      ELSE /\ slots' = slots \ {s}
           /\ leased' = leased \ {s}
           /\ lease' = IF lease[s].owner = "me"
                         THEN [lease EXCEPT ![s] = NoLease] ELSE lease

\* The fiber leaves the gate.
Leave(s) ==
    /\ At(s, "leave")
    /\ job' = [job EXCEPT ![s] = NoJob]
    /\ UNCHANGED workers
    /\ Released(s)
    /\ UNCHANGED <<run, inbox, access, up, ui, event, gate, deferrals, todo, budget>>

-----------------------------------------------------------------------------
(* processRunnable and the head of processSession                           *)

Sweeping == \E s \in Sessions : job[s].who = "tick" \/ "tick" \in ToSet(gate[s])

Sweep ==
    /\ up
    /\ ~Sweeping /\ todo = {}
    /\ todo' = {s \in Sessions : Listed(s)}
    /\ UNCHANGED <<durable, access, up, workers, slots, leased, ui, event, gate,
                   deferrals, job, budget>>

Visit(s) ==
    /\ up
    /\ ~Sweeping /\ s \in todo
    /\ todo' = todo \ {s}
    /\ gate' = [gate EXCEPT ![s] = Append(@, "tick")]
    /\ UNCHANGED <<durable, access, up, workers, slots, leased, ui, event,
                   deferrals, job, budget>>

\* The first fiber in line enters the gate.
Enters(s, who) ==
    /\ up
    /\ job[s].who = "none"
    /\ gate[s] # << >> /\ Head(gate[s]) = who
    /\ gate' = [gate EXCEPT ![s] = Tail(@)]

Read(s) ==
    /\ Enters(s, "tick")
    /\ job' = [job EXCEPT ![s] = [@ EXCEPT !.who = "tick", !.pc = "inputs",
                           !.init = [desired |-> run[s].desired, ended |-> Ended(s),
                                     attempt |-> run[s].attempt,
                                     retry |-> run[s].retry]]]
    /\ UNCHANGED <<durable, access, up, workers, slots, leased, ui, event,
                   deferrals, todo, budget>>

\* The pending inputs.  A visit to a run whose stop was recorded cancels it and
\* acknowledges every stop, unless there is something to resume it for.
Inputs(s) ==
    LET ins == Pending(s) IN
    /\ At(s, "inputs")
    /\ \/ /\ job[s].init.desired = "canceled" /\ ActionableOf(s, ins) = {}
          /\ StartCancel(s, job[s].init.ended, StopsOf(s, ins))
       \/ /\ job[s].init.desired = "canceled" => ActionableOf(s, ins) # {}
          /\ job' = [job EXCEPT ![s] = [@ EXCEPT !.ins = ins,
                       !.pc = IF job[s].init.desired = "canceled" THEN "reopen"
                                                                  ELSE "stops"]]
    /\ UNCHANGED <<durable, access, up, workers, slots, leased, ui, event, gate,
                   deferrals, todo, budget>>

\* reopen, which refuses a run that is not canceled yet.
Reopen(s) ==
    /\ At(s, "reopen")
    /\ \/ /\ run[s].state = "canceled"
          /\ run' = [run EXCEPT ![s] = Requeued(@)]
          /\ Goto(s, "stops")
       \/ /\ run[s].state # "canceled"
          /\ StartCancel(s, job[s].init.ended, StopsOf(s, job[s].ins))
          /\ UNCHANGED run
    /\ UNCHANGED <<lease, inbox, access, up, workers, slots, leased, ui, event,
                   gate, deferrals, todo, budget>>

\* Stops need the lease, not a slot.
Stops(s) ==
    LET stops == StopsOf(s, job[s].ins) IN
    /\ At(s, "stops")
    /\ \/ /\ stops = {}
          /\ Goto(s, "slot")
          /\ UNCHANGED <<lease, leased>>
       \/ /\ stops # {} /\ ~Claimable(s)
          /\ Goto(s, "leave")
          /\ UNCHANGED <<lease, leased>>
       \/ /\ stops # {} /\ Claimable(s)
          /\ lease' = [lease EXCEPT ![s] = Mine]
          /\ leased' = leased \cup {s}
          /\ Goto(s, "stop")
    /\ UNCHANGED <<run, inbox, access, up, workers, slots, ui, event, gate,
                   deferrals, todo, budget>>

\* Where the loop over the stops goes once stop i is acknowledged.
PassStop(s, i) ==
    /\ inbox' = Marked(s, {i})
    /\ deferrals' = [deferrals EXCEPT ![s] = 0]
    /\ Goto(s, IF Left(s, StopsOf(s, job[s].ins)) = {i} THEN "slot" ELSE "stop")

\* Mutant of DeferralCount: the count does not survive the visit.
DeferralCountOfVisit(s) == 1

\* recordStopDeferral
DeferralCount(s) == deferrals[s] + 1

\* One stop.  A notice is checked against the issue's state in Linear: canceled,
\* not canceled, or unknown.
Stop(s) ==
    LET i == First(Left(s, StopsOf(s, job[s].ins))) IN
    /\ At(s, "stop")
    /\ \/ \* it applies
          /\ run' = IF inbox[s][i].kind = "notice"
                      THEN [run EXCEPT ![s] = Stopped(@)] ELSE run
          /\ StartCancel(s, Ended(s), {i})
          /\ UNCHANGED <<inbox, deferrals>>
       \/ \* it does not apply
          /\ inbox[s][i].kind = "notice"
          /\ PassStop(s, i)
          /\ UNCHANGED run
       \/ \* unknown: deferred, a bounded number of times
          /\ inbox[s][i].kind = "notice"
          /\ IF DeferralCount(s) < MaxDeferrals
               THEN /\ deferrals' = [deferrals EXCEPT ![s] = DeferralCount(s)]
                    /\ Goto(s, "leave")
                    /\ UNCHANGED inbox
               ELSE PassStop(s, i)
          /\ UNCHANGED run
    /\ UNCHANGED <<lease, access, up, workers, slots, leased, ui, event, gate,
                   todo, budget>>

\* Mutant of SlotFree: one worker too many.
SlotFreeOffByOne(s) == s \in workers \cup slots \/ Cardinality(slots) <= MaxWorkers

\* Mutant of SlotFree: one worker too few.
SlotFreeTooFew(s) == s \in workers \cup slots \/ Cardinality(slots) + 1 < MaxWorkers

SlotFree(s) == s \in workers \cup slots \/ Cardinality(slots) < MaxWorkers

\* The retry gate, which a prompt newer than the retry opens, and the slot.
Slot(s) ==
    LET wait == /\ job[s].init.retry # 0
                /\ \A i \in ActionableOf(s, job[s].ins) : i <= job[s].init.retry
    IN
    /\ At(s, "slot")
    /\ IF wait \/ ~SlotFree(s)
         THEN Goto(s, "leave") /\ UNCHANGED slots
         ELSE /\ Goto(s, "lease")
              /\ slots' = IF s \in workers THEN slots ELSE slots \cup {s}
    /\ UNCHANGED <<durable, access, up, workers, leased, ui, event, gate,
                   deferrals, todo, budget>>

\* A live worker's lease is renewed, never claimed again.
Lease(s) ==
    /\ At(s, "lease")
    /\ IF IF s \in workers THEN Fenced(s) ELSE Claimable(s)
         THEN /\ lease' = [lease EXCEPT ![s] = Mine]
              /\ leased' = leased \cup {s}
              /\ Goto(s, "check")
         ELSE /\ Goto(s, "leave")
              /\ UNCHANGED <<lease, leased>>
    /\ UNCHANGED <<run, inbox, access, up, workers, slots, ui, event, gate,
                   deferrals, todo, budget>>

\* The run is read again under the lease.
Check(s) ==
    LET interrupted == \/ run[s].state \in {"orphaned", "starting", "running"}
                       \/ run[s].state = "waiting" /\ run[s].workspace
    IN
    /\ At(s, "check")
    /\ IF run[s].desired = "canceled"
         THEN StartCancel(s, Ended(s), {})
         ELSE job' = [job EXCEPT ![s] = [@ EXCEPT !.pc = "access",
                             !.resume = interrupted /\ s \notin workers]]
    /\ UNCHANGED <<durable, access, up, workers, slots, leased, ui, event, gate,
                   deferrals, todo, budget>>

\* Mutant of Exhausted: one attempt too many.
ExhaustedLate(s) == s \notin workers /\ run[s].attempt > MaxAttempts

Exhausted(s) == s \notin workers /\ run[s].attempt >= MaxAttempts

\* The installation, the team, the attempts, and which way to go on.
Access(s) ==
    LET outcome == IF access = "revoked" THEN "failed" ELSE "canceled"
    IN
    /\ At(s, "access")
    /\ \/ /\ access # "full"
          /\ \/ /\ MayUpdate(s, outcome)
                /\ run' = [run EXCEPT ![s].state = outcome]
                /\ deferrals' = [deferrals EXCEPT ![s] = 0]
                /\ Goto(s, "leave")
             \/ /\ ~MayUpdate(s, outcome)
                /\ Goto(s, "fail")
                /\ UNCHANGED <<run, deferrals>>
       \/ /\ access = "full"
          /\ \/ /\ Exhausted(s)
                /\ Goto(s, "fail")
             \/ /\ ~Exhausted(s)
                /\ job[s].ins # {}
                /\ Goto(s, "next")
             \/ /\ ~Exhausted(s)
                /\ job[s].ins = {}
                /\ Goto(s, IF job[s].resume THEN "resume" ELSE "leave")
          /\ UNCHANGED <<run, deferrals>>
    /\ UNCHANGED <<lease, inbox, access, up, workers, slots, leased, ui, event,
                   gate, todo, budget>>

-----------------------------------------------------------------------------
(* Starting a worker, and giving it the inputs                              *)

\* One more attempt, which ends any wait for a retry.
Starting(r) == [r EXCEPT !.state = "starting", !.attempt = @ + 1, !.retry = 0]

\* An interrupted run without a new input is given a retry prompt.
Resume(s) ==
    /\ At(s, "resume")
    /\ \/ /\ MayUpdate(s, "starting")
          /\ run' = [run EXCEPT ![s] = Starting(@)]
          /\ Goto(s, IF run[s].workspace THEN "start" ELSE "fail")
          /\ UNCHANGED faults
       \/ /\ Broken(s)
          /\ Goto(s, "fail")
          /\ UNCHANGED run
    /\ UNCHANGED <<lease, inbox, access, up, workers, slots, leased, ui, event,
                   gate, deferrals, todo, stalls, crashes, denials>>

\* The next actionable input.  A stop that arrived meanwhile wins: the run is
\* canceled (reopen refuses a run that is not yet canceled) and the input is
\* acknowledged with it.
NextInput(s) ==
    LET left == Left(s, ActionableOf(s, job[s].ins)) IN
    /\ At(s, "next")
    /\ \/ /\ left = {}
          /\ Goto(s, "leave")
       \/ /\ left # {} /\ run[s].desired = "canceled"
          /\ StartCancel(s, Ended(s), {First(left)})
       \/ /\ left # {} /\ run[s].desired # "canceled"
          /\ Goto(s, IF s \in workers THEN "deliver" ELSE "route")
    /\ UNCHANGED <<durable, access, up, workers, slots, leased, ui, event, gate,
                   deferrals, todo, budget>>

\* The input NextInput chose.
Current(s) == First(Left(s, ActionableOf(s, job[s].ins)))

\* One more attempt, counted before a workspace is made; it leaves the time of
\* a retry as it was.
Attempted(r) == [r EXCEPT !.attempt = @ + 1,
                          !.retry = IF @ = 0 THEN 0 ELSE MaxInputs]

\* Mutant of Route: the input is acknowledged although the user is asked.
RouteAcknowledges(s) ==
    /\ At(s, "route")
    /\ \/ /\ run[s].workspace
          /\ MayUpdate(s, "starting")
          /\ run' = [run EXCEPT ![s] = Starting(@)]
          /\ Goto(s, "start")
          /\ UNCHANGED faults
       \/ /\ ~run[s].workspace
          /\ Fenced(s)
          /\ run' = [run EXCEPT ![s] = Attempted(@)]
          /\ Goto(s, "prepare")
          /\ UNCHANGED faults
       \/ /\ ~run[s].workspace
          /\ MayUpdate(s, "waiting")
          /\ run' = [run EXCEPT ![s].state = "waiting"]
          /\ Goto(s, "mark")
          /\ UNCHANGED faults
       \/ /\ Broken(s)
          /\ Goto(s, "fail")
          /\ UNCHANGED run
    /\ UNCHANGED <<lease, inbox, access, up, workers, slots, leased, ui, event,
                   gate, deferrals, todo, stalls, crashes, denials>>

\* Where the run works: the workspace it has, or the repository chosen for it.
\* Without a choice the user is asked and the input stays pending.
Route(s) ==
    /\ At(s, "route")
    /\ \/ /\ run[s].workspace
          /\ MayUpdate(s, "starting")
          /\ run' = [run EXCEPT ![s] = Starting(@)]
          /\ Goto(s, "start")
          /\ UNCHANGED faults
       \/ /\ ~run[s].workspace
          /\ Fenced(s)
          /\ run' = [run EXCEPT ![s] = Attempted(@)]
          /\ Goto(s, "prepare")
          /\ UNCHANGED faults
       \/ /\ ~run[s].workspace
          /\ MayUpdate(s, "waiting")
          /\ run' = [run EXCEPT ![s].state = "waiting"]
          /\ Goto(s, "leave")
          /\ UNCHANGED faults
       \/ /\ Broken(s)
          /\ Goto(s, "fail")
          /\ UNCHANGED run
    /\ UNCHANGED <<lease, inbox, access, up, workers, slots, leased, ui, event,
                   gate, deferrals, todo, stalls, crashes, denials>>

\* The workspace is made, which may take long, and recorded.
Prepare(s) ==
    /\ At(s, "prepare")
    /\ \/ /\ MayUpdate(s, "starting")
          /\ run' = [run EXCEPT ![s] = [@ EXCEPT !.state = "starting",
                                                !.workspace = TRUE]]
          /\ Goto(s, "start")
          /\ UNCHANGED faults
       \/ /\ Broken(s)
          /\ Goto(s, "fail")
          /\ UNCHANGED run
    /\ UNCHANGED <<lease, inbox, access, up, workers, slots, leased, ui, event,
                   gate, deferrals, todo, stalls, crashes, denials>>

\* Preparation may outlive a lease: openWorker checks the fence once more before
\* it creates the process, and attachWorker puts the worker in the map.
Start(s) ==
    /\ At(s, "start")
    /\ \/ /\ Fenced(s)
          /\ workers' = workers \cup {s}
          /\ Goto(s, "ready")
          /\ UNCHANGED faults
       \/ /\ Broken(s)
          /\ Goto(s, "fail")
          /\ UNCHANGED workers
    /\ UNCHANGED <<durable, access, up, slots, leased, ui, event, gate, deferrals,
                   todo, stalls, crashes, denials>>

Ready(s) ==
    /\ At(s, "ready")
    /\ \/ /\ MayUpdate(s, "running")
          /\ run' = [run EXCEPT ![s].state = "running"]
          /\ Goto(s, "prompt")
          /\ UNCHANGED faults
       \/ /\ Broken(s)
          /\ Goto(s, "fail")
          /\ UNCHANGED run
    /\ UNCHANGED <<lease, inbox, access, up, workers, slots, leased, ui, event,
                   gate, deferrals, todo, stalls, crashes, denials>>

\* The worker has the input.
Given(s) ==
    job' = [job EXCEPT ![s] = [@ EXCEPT !.pc = "mark", !.given = Current(s)]]

\* The worker has its first prompt: the input, or the retry prompt.
Prompted(s) ==
    \/ job[s].ins = {} /\ Goto(s, "leave")
    \/ job[s].ins # {} /\ Given(s)

\* The prompt starts a turn, or runs a local command that starts none
\* (finishLocalCommand).
Prompt(s) ==
    /\ At(s, "prompt")
    /\ \/ /\ Prompted(s)
          /\ UNCHANGED <<run, faults>>
       \/ /\ MayUpdate(s, "waiting")
          /\ run' = [run EXCEPT ![s] = [@ EXCEPT !.state = "waiting", !.retry = 0]]
          /\ Prompted(s)
          /\ UNCHANGED faults
       \/ /\ Broken(s)
          /\ Goto(s, "fail")
          /\ UNCHANGED run
    /\ UNCHANGED <<lease, inbox, access, up, workers, slots, leased, ui, event,
                   gate, deferrals, todo, stalls, crashes, denials>>

\* A prompt for a live worker answers its question, steers or follows up.  The
\* input of a session's creation that finds a worker is passed over.
Deliver(s) ==
    LET prompted == inbox[s][Current(s)].kind = "prompted" IN
    /\ At(s, "deliver")
    /\ \/ /\ ~prompted
          /\ Goto(s, "mark")
          /\ UNCHANGED <<run, ui, faults>>
       \/ /\ prompted
          /\ MayUpdate(s, "running")
          /\ run' = [run EXCEPT ![s].state = "running"]
          /\ ui' = ui \ {s}
          /\ Given(s)
          /\ UNCHANGED faults
       \/ /\ prompted
          /\ Broken(s)
          /\ ui' \in {ui, ui \ {s}}
          /\ Goto(s, "fail")
          /\ UNCHANGED run
    /\ UNCHANGED <<lease, inbox, access, up, workers, slots, leased, event, gate,
                   deferrals, todo, stalls, crashes, denials>>

Mark(s) ==
    /\ At(s, "mark")
    /\ inbox' = Marked(s, {Current(s)})
    /\ job' = [job EXCEPT ![s] = [@ EXCEPT !.pc = "next", !.given = 0]]
    /\ UNCHANGED <<run, lease, access, up, workers, slots, leased, ui, event, gate,
                   deferrals, todo, budget>>

-----------------------------------------------------------------------------
(* cancel and handleFailure                                                 *)

\* cancel takes the lease of a run that has not ended, without which it does
\* nothing, and stops the worker.
Cancel(s) ==
    /\ At(s, "cancel")
    /\ IF job[s].ended \/ Claimable(s)
         THEN /\ lease' = IF job[s].ended THEN lease ELSE [lease EXCEPT ![s] = Mine]
              /\ leased' = IF job[s].ended THEN leased ELSE leased \cup {s}
              /\ workers' = workers \ {s}
              /\ ui' = ui \ {s}
              /\ Goto(s, "canceled")
         ELSE /\ Goto(s, "acks")
              /\ UNCHANGED <<lease, leased, workers, ui>>
    /\ UNCHANGED <<run, inbox, access, up, slots, event, gate, deferrals, todo,
                   budget>>

\* The outcome is written under the fence, unless the run had ended when it
\* was read.
Canceled(s) ==
    /\ At(s, "canceled")
    /\ \/ /\ job[s].ended
          /\ Goto(s, "acks")
          /\ UNCHANGED <<run, faults>>
       \/ /\ ~job[s].ended
          /\ MayUpdate(s, "canceled")
          /\ run' = [run EXCEPT ![s].state = "canceled"]
          /\ Goto(s, "acks")
          /\ UNCHANGED faults
       \/ /\ ~job[s].ended
          /\ Broken(s)
          /\ Goto(s, IF job[s].failing THEN "leave" ELSE "fail")
          /\ UNCHANGED run
    /\ UNCHANGED <<lease, inbox, access, up, workers, slots, leased, ui, event,
                   gate, deferrals, todo, stalls, crashes, denials>>

\* The end of cancel, releaseIfNoWorker included; its caller acknowledges the
\* inputs that asked for it.
Acks(s) ==
    /\ At(s, "acks")
    /\ deferrals' = [deferrals EXCEPT ![s] = 0]
    /\ inbox' = Marked(s, job[s].acks)
    /\ Goto(s, "leave")
    /\ UNCHANGED workers
    /\ Released(s)
    /\ UNCHANGED <<run, access, up, ui, event, gate, todo, budget>>

\* handleFailure first stops the worker.
Fail(s) ==
    /\ At(s, "fail")
    /\ workers' = workers \ {s}
    /\ job' = [job EXCEPT ![s] = [@ EXCEPT !.pc = "failed", !.failing = TRUE]]
    /\ UNCHANGED <<durable, access, up, slots, leased, ui, event, gate, deferrals,
                   todo, budget>>

\* The attempt a failed visit is charged, unless it was charged already.
Charged(s) ==
    IF /\ job[s].who = "tick"
       /\ run[s].attempt = job[s].init.attempt
       /\ run[s].attempt < MaxAttempts
      THEN [run[s] EXCEPT !.attempt = @ + 1]
      ELSE run[s]

\* Then it cancels, gives up or schedules a retry, if the run is still its own.
Failed(s) ==
    LET r == Charged(s) IN
    /\ At(s, "failed")
    /\ \/ /\ Ended(s) \/ ~Fenced(s)
          /\ Goto(s, "leave")
          /\ UNCHANGED <<run, deferrals>>
       \/ /\ ~Ended(s) /\ Fenced(s)
          /\ r.desired = "canceled"
          /\ run' = [run EXCEPT ![s] = r]
          /\ StartCancel(s, FALSE, {})
          /\ UNCHANGED deferrals
       \/ /\ ~Ended(s) /\ Fenced(s)
          /\ r.desired # "canceled" /\ r.attempt >= MaxAttempts
          /\ run' = [run EXCEPT ![s] = [r EXCEPT !.state = "failed",
                                                 !.retry = 0]]
          /\ deferrals' = [deferrals EXCEPT ![s] = 0]
          /\ Goto(s, "leave")
       \/ /\ ~Ended(s) /\ Fenced(s)
          /\ r.desired # "canceled" /\ r.attempt < MaxAttempts
          /\ run' = [run EXCEPT ![s] = [r EXCEPT !.state = "orphaned",
                                !.retry = Len(inbox[s])]]
          /\ Goto(s, "leave")
          /\ UNCHANGED deferrals
    /\ UNCHANGED <<lease, inbox, access, up, workers, slots, leased, ui, event,
                   gate, todo, budget>>

-----------------------------------------------------------------------------
(* handleEvent: the consumer of a worker's events                           *)

Events == {"end", "ask", "local", "error"}

\* The worker ends its turn, asks the user, reports a local command, or dies;
\* the consumer takes the event and waits for the gate.
Emit(s) ==
    /\ up
    /\ s \in workers /\ event[s] = "none"
    /\ \E e \in Events :
         /\ event' = [event EXCEPT ![s] = e]
         /\ IF e = "error"
              THEN faults < MaxFaults /\ faults' = faults + 1
              ELSE UNCHANGED faults
    /\ gate' = [gate EXCEPT ![s] = Append(@, "event")]
    /\ UNCHANGED <<durable, access, up, workers, slots, leased, ui, deferrals,
                   job, todo, stalls, crashes, denials>>

\* The run is read: events of a canceled run are dropped, and a worker whose
\* lease is lost is stopped.
HandleEvent(s) ==
    /\ Enters(s, "event")
    /\ event' = [event EXCEPT ![s] = "none"]
    /\ IF run[s].desired = "canceled" \/ run[s].state = "canceled"
         THEN UNCHANGED <<job, workers, slots, leased, lease>>
         ELSE IF ~Fenced(s)
           THEN /\ workers' = workers \ {s}
                /\ Released(s)
                /\ UNCHANGED job
           ELSE /\ job' = [job EXCEPT ![s] = [NoJob EXCEPT !.who = "event",
                                                          !.pc = event[s]]]
                /\ UNCHANGED <<workers, slots, leased, lease>>
    /\ UNCHANGED <<run, inbox, access, up, ui, deferrals, todo, budget>>

\* agent_end
HandleEnd(s) ==
    /\ At(s, "end")
    /\ \/ /\ MayUpdate(s, "succeeded")
          /\ run' = [run EXCEPT ![s] = [@ EXCEPT !.state = "succeeded",
                                                !.retry = 0]]
          /\ Goto(s, "finish")
       \/ /\ ~MayUpdate(s, "succeeded")
          /\ Goto(s, "fail")
          /\ UNCHANGED run
    /\ UNCHANGED <<lease, inbox, access, up, workers, slots, leased, ui, event,
                   gate, deferrals, todo, budget>>

\* The final response is posted, and the worker is stopped whatever happens.
Finish(s) ==
    /\ At(s, "finish")
    /\ workers' = workers \ {s}
    /\ deferrals' = [deferrals EXCEPT ![s] = 0]
    /\ Goto(s, "leave")
    /\ UNCHANGED <<durable, access, up, slots, leased, ui, event, gate, todo, budget>>

\* extension_ui_request, and prompt_result without an agent turn
HandleWait(s) ==
    /\ At(s, "ask") \/ At(s, "local")
    /\ ui' = IF job[s].pc = "ask" THEN ui \cup {s} ELSE ui
    /\ \/ /\ MayUpdate(s, "waiting")
          /\ run' = [run EXCEPT ![s] = [@ EXCEPT !.state = "waiting",
                             !.retry = IF job[s].pc = "ask" THEN run[s].retry ELSE 0]]
          /\ Goto(s, "leave")
       \/ /\ ~MayUpdate(s, "waiting")
          /\ Goto(s, "fail")
          /\ UNCHANGED run
    /\ UNCHANGED <<lease, inbox, access, up, workers, slots, leased, event, gate,
                   deferrals, todo, budget>>

HandleError(s) ==
    /\ At(s, "error")
    /\ Goto(s, "fail")
    /\ UNCHANGED <<durable, access, up, workers, slots, leased, ui, event, gate,
                   deferrals, todo, budget>>

-----------------------------------------------------------------------------
(* Leases: renewLeases, and the clock                                       *)

LeaseExpires(s) ==
    /\ lease[s].live
    /\ lease[s].owner = "me" => stalls < MaxStalls
    /\ lease' = [lease EXCEPT ![s].live = FALSE]
    /\ stalls' = IF lease[s].owner = "me" THEN stalls + 1 ELSE stalls
    /\ UNCHANGED <<run, inbox, access, up, workers, slots, leased, ui, event, gate,
                   deferrals, job, todo, faults, crashes, denials>>

\* A lease that cannot be renewed: its worker's cleanup joins the line.
RenewFails(s) ==
    /\ up
    /\ s \in leased /\ ~Fenced(s)
    /\ "loss" \notin ToSet(gate[s])
    /\ gate' = [gate EXCEPT ![s] = Append(@, "loss")]
    /\ UNCHANGED <<durable, access, up, workers, slots, leased, ui, event,
                   deferrals, job, todo, budget>>

CleanUp(s) ==
    /\ Enters(s, "loss")
    /\ workers' = workers \ {s}
    /\ Released(s)
    /\ UNCHANGED <<run, inbox, access, up, ui, event, deferrals, job, todo, budget>>

RetryDue(s) ==
    /\ run[s].retry # 0
    /\ run' = [run EXCEPT ![s].retry = 0]
    /\ UNCHANGED <<lease, inbox, access, up, workers, slots, leased, ui, event,
                   gate, deferrals, job, todo, budget>>

-----------------------------------------------------------------------------
(* Webhooks, the reconciler's catch-up, the process                         *)

\* enqueue, in the transaction of the webhook that may also create the run: a
\* prompt restarts a finished run, a stop cancels it; a notice is verified later.
Enqueued(s, kind) ==
    /\ inbox' = [inbox EXCEPT ![s] = Append(@, [kind |-> kind, done |-> FALSE])]
    /\ run' = [run EXCEPT ![s] =
                 LET r == IF @.state = "absent" THEN [@ EXCEPT !.state = "queued"]
                                                ELSE @
                 IN CASE kind = "stop" -> Stopped(r)
                      [] kind = "notice" -> r
                      [] OTHER -> IF r.state \in {"succeeded", "failed"}
                                    THEN Requeued(r) ELSE r]

\* A session is created once, by a webhook that may come after a prompt's: the
\* id of its input is that of the session, and a second one is ignored.
Enqueue(s) ==
    /\ up
    /\ Len(inbox[s]) < MaxInputs
    /\ \E kind \in Kinds :
         /\ kind = "created" => \A i \in DOMAIN inbox[s] : inbox[s][i].kind # "created"
         /\ kind = "notice" => run[s].state \notin Terminal \cup {"absent"}
         /\ Enqueued(s, kind)
    /\ UNCHANGED <<lease, access, up, workers, slots, leased, ui, event, gate,
                   deferrals, job, todo, budget>>

\* catchup, before a sweep: a prompt of a canceled run that no webhook brought
\* is enqueued and its session visited.
CatchUp(s) ==
    /\ up
    /\ ~Sweeping /\ todo = {}
    /\ run[s].state = "canceled"
    /\ Len(inbox[s]) < MaxInputs
    /\ Enqueued(s, "prompted")
    /\ todo' = {s}
    /\ UNCHANGED <<lease, access, up, workers, slots, leased, ui, event, gate,
                   deferrals, job, budget>>

\* revoke cancels what is active.  A permission change cancels the active runs
\* of the teams it removes; when it only withdraws the access to all public
\* teams it cancels none.
Deny ==
    /\ up
    /\ denials < MaxDenials
    /\ denials' = denials + 1
    /\ \E a \in {"denied", "revoked"} \ {access} :
         /\ access # "revoked"
         /\ access' = a
         /\ \/ run' = [s \in Sessions |->
                        IF run[s].state \in Terminal \cup {"absent"}
                          THEN run[s] ELSE [run[s] EXCEPT !.desired = "canceled"]]
            \/ a = "denied" /\ UNCHANGED run
    /\ UNCHANGED <<lease, inbox, up, workers, slots, leased, ui, event, gate,
                   deferrals, job, todo, faults, stalls, crashes>>

\* The process ends: a crash leaves its leases, shutdown releases them.
Crash ==
    /\ up
    /\ crashes < MaxCrashes
    /\ crashes' = crashes + 1
    /\ up' = FALSE
    /\ \E released \in {{}, leased} :
         lease' = [s \in Sessions |->
                     IF lease[s].owner # "me" THEN lease[s]
                     ELSE IF s \in released THEN NoLease
                     ELSE [lease[s] EXCEPT !.owner = "old"]]
    /\ workers' = {} /\ slots' = {} /\ leased' = {} /\ ui' = {}
    /\ event' = [s \in Sessions |-> "none"]
    /\ gate' = [s \in Sessions |-> << >>]
    /\ deferrals' = [s \in Sessions |-> 0]
    /\ job' = [s \in Sessions |-> NoJob]
    /\ todo' = {}
    /\ UNCHANGED <<run, inbox, access, faults, stalls, denials>>

\* recoverInterruptedRuns, for the runs whose lease is free or expired.
Recovered(r) ==
    [r EXCEPT !.state = CASE r.desired = "canceled" -> "stopping"
                          [] r.desired # "canceled" /\ @ \in {"starting", "running"}
                               -> "orphaned"
                          [] OTHER -> @,
              !.retry = IF /\ r.desired = "running"
                           /\ r.state \in {"starting", "running"}
                          THEN 0 ELSE @]

Boot ==
    /\ ~up
    /\ up' = TRUE
    /\ LET free == {s \in Sessions : /\ run[s].state \notin Terminal \cup {"absent"}
                                     /\ ~lease[s].live}
       IN  /\ run' = [s \in Sessions |-> IF s \in free THEN Recovered(run[s]) ELSE run[s]]
           /\ lease' = [s \in Sessions |-> IF s \in free THEN NoLease ELSE lease[s]]
    /\ UNCHANGED <<inbox, access, workers, slots, leased, ui, event, gate, deferrals,
                   job, todo, budget>>

-----------------------------------------------------------------------------
Init ==
    /\ run = [s \in Sessions |-> NoRun]
    /\ lease = [s \in Sessions |-> NoLease]
    /\ inbox = [s \in Sessions |-> << >>]
    /\ access = "full"
    /\ up = TRUE
    /\ workers = {} /\ slots = {} /\ leased = {} /\ ui = {}
    /\ event = [s \in Sessions |-> "none"]
    /\ gate = [s \in Sessions |-> << >>]
    /\ deferrals = [s \in Sessions |-> 0]
    /\ job = [s \in Sessions |-> NoJob]
    /\ todo = {}
    /\ faults = 0 /\ stalls = 0 /\ crashes = 0 /\ denials = 0

\* The fiber inside the gate takes a step.
Step(s) ==
    \/ Read(s) \/ Inputs(s) \/ Reopen(s) \/ Stops(s) \/ Stop(s) \/ Slot(s) \/ Lease(s)
    \/ Check(s) \/ Access(s)
    \/ Resume(s) \/ NextInput(s) \/ Route(s) \/ Prepare(s) \/ Start(s) \/ Ready(s)
    \/ Prompt(s) \/ Deliver(s) \/ Mark(s)
    \/ Cancel(s) \/ Canceled(s) \/ Acks(s) \/ Fail(s) \/ Failed(s)
    \/ HandleEnd(s) \/ Finish(s) \/ HandleWait(s) \/ HandleError(s)
    \/ Leave(s)

Session(s) ==
    \/ Visit(s) \/ Step(s)
    \/ Emit(s) \/ HandleEvent(s)
    \/ LeaseExpires(s) \/ RenewFails(s) \/ CleanUp(s) \/ RetryDue(s)
    \/ Enqueue(s) \/ CatchUp(s)

Next ==
    \/ Sweep \/ Deny \/ Crash \/ Boot
    \/ \E s \in Sessions : Session(s)

Spec == Init /\ [][Next]_vars

\* The reconciler ticks, the gates are first come first served, every ready
\* fiber runs, time passes (the renewal timer fires, a retry falls due, a lease
\* nobody renews expires) and the service manager restarts the process.  Nothing
\* makes a worker emit an event, a user write or the process fail.
Fairness ==
    /\ WF_vars(Sweep) /\ WF_vars(Boot)
    /\ \A s \in Sessions :
         /\ WF_vars(Visit(s))
         /\ WF_vars(Step(s))
         /\ WF_vars(HandleEvent(s))
         /\ WF_vars(RenewFails(s)) /\ WF_vars(CleanUp(s))
         /\ WF_vars(RetryDue(s))
         /\ WF_vars(lease[s].owner = "old" /\ LeaseExpires(s))

FairSpec == Spec /\ Fairness

-----------------------------------------------------------------------------
(* Properties                                                               *)

States == {"absent", "queued", "starting", "running", "waiting", "stopping",
           "succeeded", "failed", "canceled", "orphaned"}

Pcs == {"none", "inputs", "reopen", "stops", "stop", "slot", "lease", "check",
        "access", "resume", "next", "route", "prepare", "start", "ready", "prompt",
        "deliver", "mark", "cancel", "canceled", "acks", "fail", "failed",
        "end", "finish", "ask", "local", "error", "leave"}

Run == [state : States, desired : {"running", "canceled"}, attempt : 0 .. MaxAttempts,
        retry : 0 .. MaxInputs, workspace : BOOLEAN]

Input == [kind : Kinds, done : BOOLEAN]

Snapshot == [desired : {"running", "canceled"}, ended : BOOLEAN,
             attempt : 0 .. MaxAttempts, retry : 0 .. MaxInputs]

Job == [who : {"none", "tick", "event"}, pc : Pcs, init : Snapshot,
        ins : SUBSET (1 .. MaxInputs), acks : SUBSET (1 .. MaxInputs),
        ended : BOOLEAN, resume : BOOLEAN, failing : BOOLEAN,
        given : 0 .. MaxInputs]

\* Among the rest, no run is ever given more than maxAttempts attempts.
TypeOK ==
    /\ run \in [Sessions -> Run]
    /\ lease \in [Sessions -> [owner : {"none", "me", "old"}, live : BOOLEAN]]
    /\ inbox \in [Sessions -> Seq(Input)]
    /\ \A s \in Sessions : Len(inbox[s]) <= MaxInputs
    /\ access \in {"full", "denied", "revoked"}
    /\ up \in BOOLEAN
    /\ {workers, slots, leased, ui, todo} \subseteq SUBSET Sessions
    /\ event \in [Sessions -> Events \cup {"none"}]
    /\ gate \in [Sessions -> Seq({"tick", "event", "loss"})]
    /\ deferrals \in [Sessions -> 0 .. MaxDeferrals - 1]
    /\ job \in [Sessions -> Job]
    /\ faults \in 0 .. MaxFaults /\ stalls \in 0 .. MaxStalls
    /\ crashes \in 0 .. MaxCrashes /\ denials \in 0 .. MaxDenials

\* No fiber is in, or waits for, the gate of s.
Quiet(s) == job[s].who = "none" /\ gate[s] = << >>

\* However visits, events, failures and cleanups interleave, no more workers
\* run than config.maxConcurrentWorkers, each on a slot of its own.
SlotsBounded == workers \subseteq slots /\ Cardinality(slots) <= MaxWorkers

\* When no fiber is busy with a session, exactly the sessions with a worker
\* hold a slot, and no other holds a lease of this process: no path through
\* processSession, cancel, handleFailure or the event consumer leaks either.
NothingLeaked ==
    \A s \in Sessions : Quiet(s) =>
        /\ s \in slots <=> s \in workers
        /\ s \in leased \/ lease[s].owner = "me" => s \in workers

\* A stop dominates the inputs written after it: while an input is given to a
\* worker, every earlier stop or notice has been dealt with.
StopDominates ==
    \A s \in Sessions :
        /\ job[s].pc \in {"start", "ready", "prompt", "deliver", "mark"}
        /\ job[s].ins # {}
        =>
            \A i \in 1 .. Current(s) - 1 :
                IsStop(inbox[s][i]) => inbox[s][i].done

\* An outcome is final for late events, retries, cleanups and recovery: what
\* revives an ended run is an input of the user that still waits.
OutcomeIsFinal ==
    [][\A s \in Sessions :
         Ended(s) /\ run'[s].state # run[s].state =>
             /\ run'[s].state = "queued"
             /\ \E i \in DOMAIN inbox'[s] :
                  ~IsStop(inbox'[s][i]) /\ ~inbox'[s][i].done]_vars

\* The lease of an incarnation that may still be alive is never taken from it:
\* not by a visit, a stop, a cancellation or startup recovery.
LeaseRespected ==
    [][\A s \in Sessions :
         lease[s] = [owner |-> "old", live |-> TRUE] =>
             lease'[s].owner = "old"]_vars

\* An input of the user is acknowledged only after this very input was handed to
\* the worker, which still lives, or when the user has stopped the run: a failure
\* at any step leaves it pending.  The input of the session's creation is also
\* acknowledged, unread, when it finds that a prompt has started the worker.
PromptReachesWorker ==
    [][\A s \in Sessions : \A i \in DOMAIN inbox[s] :
         /\ ~IsStop(inbox[s][i])
         /\ ~inbox[s][i].done /\ inbox'[s][i].done
         => \/ s \in workers /\ job[s].given = i
            \/ s \in workers /\ inbox[s][i].kind = "created"
            \/ run[s].desired = "canceled"]_vars

\* A recorded cancellation takes effect, across failures, lost leases and
\* restarts, unless the user prompts again.
CancellationSettles ==
    \A s \in Sessions :
        run[s].desired = "canceled" ~> Ended(s) \/ run[s].desired = "running"

\* A run that should be worked on is never forgotten: it gets a worker, asks the
\* user, or ends.
NoRunForgotten ==
    \A s \in Sessions :
        run[s].state \in {"queued", "starting", "running", "orphaned"} ~>
            s \in workers \/ Ended(s) \/ run[s].state \in {"waiting", "stopping"}

\* A notice that waits to be verified, on a run that has not ended.
Unverified(s, i) ==
    /\ i \in DOMAIN inbox[s] /\ inbox[s][i].kind = "notice"
    /\ ~inbox[s][i].done /\ ~Ended(s)

\* A stop whose cause cannot be verified does not hold up an active run for
\* ever: it is applied or dropped after a bounded number of deferrals.
NoticeSettles ==
    \A s \in Sessions : \A i \in 1 .. MaxInputs :
        Unverified(s, i) ~> ~Unverified(s, i)

=============================================================================
