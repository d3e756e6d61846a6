----------------------- MODULE SessionAuthorityProofs -----------------------
(***************************************************************************)
(* Proofs about SessionAuthority, for any sessions and bounds: the types,  *)
(* the worker slots, what a session leaves behind, the order of stops and  *)
(* inputs, and what a step may never do to an outcome, a lease and an      *)
(* input.                                                                  *)
(*                                                                         *)
(* The gate lets one fiber of a session in at a time, so IInv says of each *)
(* session what its fiber may rely on at the place where it is (Sound),    *)
(* and a step of one session leaves the others as they are (Kept).         *)
(***************************************************************************)
EXTENDS SessionAuthority, FiniteSetTheorems, WellFoundedInduction, TLAPS

\* A visit from the slot to the worker's acknowledgement, the part of it that
\* has a worker, and the part that has chosen an input.
Holding == {"lease", "check", "access", "resume", "next", "route", "prepare",
            "start", "ready", "prompt", "deliver", "mark"}
Working == {"ready", "prompt", "deliver", "mark"}
Serving == {"route", "prepare", "start"} \cup Working
Canceling == {"cancel", "canceled", "acks"}

\* Workers are on slots; a visit keeps its slot, and has a worker or has none.
Placed(s) ==
    /\ s \in workers => s \in slots
    /\ job[s].pc \in Holding => s \in slots
    /\ job[s].pc \in Working => s \in workers
    /\ job[s].pc \in {"resume", "route", "canceled", "failed"} => s \notin workers
    /\ job[s].pc = "access" /\ job[s].resume => s \notin workers

\* A session without a fiber holds nothing but what its worker needs.
Resting(s) ==
    job[s].who = "none" =>
        /\ job[s].pc = "none"
        /\ s \in slots => s \in workers
        /\ s \in leased \/ lease[s].owner = "me" => s \in workers

\* A run that ended has no worker, unless access was lost.
Lasting(s) ==
    /\ job[s].pc \in {"resume", "next", "route"} =>
          s \in workers \/ run[s].attempt < MaxAttempts
    /\ job[s].pc \in {"resume", "next"} \cup Serving => ~Ended(s)
    /\ job[s].pc \in {"check", "access"} /\ access = "full" => ~Ended(s)
    /\ s \in workers /\ Ended(s) => access # "full" \/ job[s].pc = "finish"

\* The inputs of a visit are the first that are not processed, the stops among
\* them are dealt with before its worker is, and it serves one that is left.
Ordered(s) ==
    /\ job[s].pc \in {"reopen", "stops", "stop", "slot"} \cup Holding =>
         /\ job[s].ins \subseteq DOMAIN inbox[s]
         /\ \A i \in DOMAIN inbox[s] \ job[s].ins :
              ~inbox[s][i].done => \A j \in job[s].ins : j < i
    /\ job[s].pc \in {"reopen", "stops"} => \A i \in job[s].ins : ~inbox[s][i].done
    /\ job[s].pc = "reopen" => ActionableOf(s, job[s].ins) # {}
    /\ job[s].pc = "stop" => Left(s, StopsOf(s, job[s].ins)) # {}
    /\ job[s].pc \in {"slot"} \cup Holding => Left(s, StopsOf(s, job[s].ins)) = {}
    /\ job[s].pc = "resume" => job[s].ins = {}
    /\ job[s].pc \in Serving =>
         \/ Left(s, ActionableOf(s, job[s].ins)) # {}
         \/ job[s].ins = {} /\ job[s].pc \notin {"deliver", "mark"}

\* A cancellation acknowledges an input that is no stop only for a run that the
\* user has canceled, and that no prompt has revived.
Honest(s) ==
    /\ job[s].pc \in Canceling => job[s].acks \subseteq DOMAIN inbox[s]
    /\ \A i \in job[s].acks :
        job[s].pc \in Canceling /\ ~IsStop(inbox[s][i]) =>
            run[s].desired = "canceled" /\ run[s].state \notin {"succeeded", "failed"}

\* What a visit is about to acknowledge was given to the worker, or is the
\* creation of the session.
Handed(s) ==
    job[s].pc = "mark" =>
        job[s].given = Current(s) \/ inbox[s][Current(s)].kind = "created"

Sound(s) ==
    /\ Placed(s) /\ Resting(s) /\ Lasting(s) /\ Ordered(s)
    /\ Honest(s) /\ Handed(s)

Bounded == IsFiniteSet(slots) /\ Cardinality(slots) <= MaxWorkers

IInv == TypeOK /\ Bounded /\ \A s \in Sessions : Sound(s)

-----------------------------------------------------------------------------
(* What a step leaves alone                                                *)

\* Nothing changes for a session, but that its run may be canceled and that
\* access may be lost.
Kept(t) ==
    /\ job'[t] = job[t] /\ inbox'[t] = inbox[t]
    /\ run'[t].state = run[t].state /\ run'[t].attempt = run[t].attempt
    /\ run'[t].desired \in {run[t].desired, "canceled"}
    /\ lease'[t].owner = lease[t].owner
    /\ t \in workers' <=> t \in workers
    /\ t \in slots' <=> t \in slots
    /\ t \in leased' <=> t \in leased
    /\ access' = access \/ access' # "full"

LEMMA KeptIsSound ==
  ASSUME NEW t \in Sessions, Sound(t), Kept(t)
  PROVE  Sound(t)'
<1>1. Placed(t)' /\ Resting(t)'
  BY DEF Sound, Kept, Placed, Resting, Holding, Working
<1>2. Lasting(t)'
  BY DEF Sound, Kept, Lasting, Serving, Working, Ended
<1>3. Ordered(t)'
  BY DEF Sound, Kept, Ordered, Holding, Serving, Working, Left, StopsOf, ActionableOf, IsStop
<1>4. Honest(t)'
  BY DEF Sound, Kept, Honest, Canceling, IsStop
<1>5. Handed(t)'
  <2>1. Current(t)' = Current(t)
    BY DEF Kept, Current, Left, ActionableOf, IsStop
  <2> QED  BY <2>1 DEF Sound, Kept, Handed
<1> QED  BY <1>1, <1>2, <1>3, <1>4, <1>5 DEF Sound

\* A step of one session leaves the others sound.
LEMMA OthersAreSound ==
  ASSUME IInv, NEW s \in Sessions, Sound(s)', \A t \in Sessions \ {s} : Kept(t)
  PROVE  \A t \in Sessions : Sound(t)'
BY KeptIsSound DEF IInv

\* What a fiber needs at the places where it needs little.
LEMMA LightIsSound ==
  ASSUME NEW s \in Sessions,
         job'[s].pc \in {"none", "inputs", "finish", "fail", "leave", "end", "ask", "local", "error"},
         job'[s].who # "none", s \in workers' => s \in slots',
         s \in workers' /\ Ended(s)' => access' # "full" \/ job'[s].pc = "finish"
  PROVE  Sound(s)'
<1>1. Placed(s)' /\ Resting(s)'
  BY DEF Placed, Resting, Holding, Working
<1>2. Lasting(s)'
  BY DEF Lasting, Serving, Working
<1>3. Ordered(s)'
  BY DEF Ordered, Holding, Serving, Working
<1>4. Honest(s)' /\ Handed(s)'
  BY DEF Honest, Canceling, Handed
<1> QED  BY <1>1, <1>2, <1>3, <1>4 DEF Sound

\* A session without a fiber.
LEMMA IdleIsSound ==
  ASSUME NEW s \in Sessions, job'[s].pc = "none", s \in workers' => s \in slots',
         s \in slots' => s \in workers',
         s \in leased' \/ lease'[s].owner = "me" => s \in workers',
         s \in workers' /\ Ended(s)' => access' # "full"
  PROVE  Sound(s)'
<1>1. Placed(s)' /\ Resting(s)'
  BY DEF Placed, Resting, Holding, Working
<1>2. Lasting(s)'
  BY DEF Lasting, Serving, Working
<1>3. Ordered(s)'
  BY DEF Ordered, Holding, Serving, Working
<1>4. Honest(s)' /\ Handed(s)'
  BY DEF Honest, Canceling, Handed
<1> QED  BY <1>1, <1>2, <1>3, <1>4 DEF Sound

\* Where a fiber goes, and what it takes along.
LEMMA Moves ==
  ASSUME IInv, NEW s \in Sessions, NEW pc \in Pcs, Goto(s, pc)
  PROVE  /\ job' \in [Sessions -> Job]
         /\ job'[s].pc = pc /\ job'[s].who = job[s].who
         /\ job'[s].ins = job[s].ins /\ job'[s].acks = job[s].acks
         /\ job'[s].init = job[s].init /\ job'[s].resume = job[s].resume
         /\ \A t \in Sessions \ {s} : job'[t] = job[t]
BY DEF IInv, TypeOK, Goto, Job

LEMMA CancelStarts ==
  ASSUME IInv, NEW s \in Sessions, NEW ended \in BOOLEAN,
         NEW acks \in SUBSET (1 .. MaxInputs), StartCancel(s, ended, acks)
  PROVE  /\ job' \in [Sessions -> Job]
         /\ job'[s].pc = "cancel" /\ job'[s].who = job[s].who
         /\ job'[s].acks = acks
         /\ \A t \in Sessions \ {s} : job'[t] = job[t]
<1> DEFINE j == [job[s] EXCEPT !.pc = "cancel", !.ended = ended, !.acks = acks]
<1>1. job \in [Sessions -> Job] /\ job[s] \in Job
  BY DEF IInv, TypeOK
<1>2. j \in Job /\ j.pc = "cancel" /\ j.who = job[s].who /\ j.acks = acks
  BY <1>1 DEF Job, Pcs
<1>3. job' = [job EXCEPT ![s] = j]
  BY DEF StartCancel
<1> QED  BY <1>1, <1>2, <1>3

\* A run is given new values.
LEMMA Rewrites ==
  ASSUME IInv, NEW s \in Sessions, NEW r \in Run, run' = [run EXCEPT ![s] = r]
  PROVE  /\ run' \in [Sessions -> Run] /\ run'[s] = r
         /\ \A t \in Sessions \ {s} : run'[t] = run[t]
BY DEF IInv, TypeOK

LEMMA Runs ==
  ASSUME NEW r \in Run
  PROVE  /\ \A x \in States : [r EXCEPT !.state = x] \in Run
         /\ Requeued(r) \in Run /\ Stopped(r) \in Run
         /\ r.attempt < MaxAttempts => Starting(r) \in Run
<1>1. 0 \in 0 .. MaxAttempts /\ 0 \in 0 .. MaxInputs
  BY AuthorityAssumption
<1>2. \A x \in States : [r EXCEPT !.state = x] \in Run
  BY DEF Run
<1>3. Requeued(r) \in Run
  BY <1>1 DEF Run, Requeued, States
<1>4. Stopped(r) \in Run
  BY DEF Run, Stopped, States
<1>5. ASSUME r.attempt < MaxAttempts PROVE Starting(r) \in Run
  <2>1. r.attempt + 1 \in 0 .. MaxAttempts
    BY <1>5, AuthorityAssumption DEF Run
  <2> QED  BY <2>1, <1>1 DEF Run, Starting, States
<1> QED  BY <1>2, <1>3, <1>4, <1>5

\* An input is acknowledged.
LEMMA Marks ==
  ASSUME IInv, NEW s \in Sessions, NEW ids, inbox' = Marked(s, ids)
  PROVE  /\ inbox' \in [Sessions -> Seq(Input)]
         /\ \A t \in Sessions : Len(inbox'[t]) <= MaxInputs
         /\ DOMAIN inbox'[s] = DOMAIN inbox[s]
         /\ \A i \in DOMAIN inbox[s] :
              /\ inbox'[s][i].kind = inbox[s][i].kind
              /\ inbox'[s][i].done <=> inbox[s][i].done \/ i \in ids
         /\ \A t \in Sessions \ {s} : inbox'[t] = inbox[t]
<1> DEFINE new == [i \in DOMAIN inbox[s] |->
                     IF i \in ids THEN [inbox[s][i] EXCEPT !.done = TRUE] ELSE inbox[s][i]]
<1>1. inbox \in [Sessions -> Seq(Input)] /\ inbox[s] \in Seq(Input)
  BY DEF IInv, TypeOK
<1>2. DOMAIN inbox[s] = 1 .. Len(inbox[s]) /\ Len(inbox[s]) \in Nat
  BY <1>1
<1>3. \A i \in DOMAIN inbox[s] : inbox[s][i] \in Input
  BY <1>1
<1>4. inbox' = [inbox EXCEPT ![s] = new]
  BY DEF Marked
<1>5. new \in Seq(Input) /\ Len(new) = Len(inbox[s])
  <2>1. \A i \in 1 .. Len(inbox[s]) : new[i] \in Input
    BY <1>2, <1>3 DEF Input
  <2>2. new \in [1 .. Len(inbox[s]) -> Input]
    BY <1>2, <2>1
  <2> QED  BY <1>2, <2>2
<1>6. inbox'[s] = new /\ \A t \in Sessions \ {s} : inbox'[t] = inbox[t]
  BY <1>1, <1>4
<1>7. \A i \in DOMAIN inbox[s] :
              /\ new[i].kind = inbox[s][i].kind
              /\ new[i].done <=> inbox[s][i].done \/ i \in ids
  BY <1>3 DEF Input
<1>8. \A t \in Sessions : Len(inbox'[t]) <= MaxInputs
  BY <1>5, <1>6 DEF IInv, TypeOK
<1>9. inbox' \in [Sessions -> Seq(Input)]
  BY <1>1, <1>4, <1>5
<1> QED  BY <1>6, <1>7, <1>8, <1>9, <1>5, <1>2

Less == {ss \in Nat \X Nat : ss[1] < ss[2]}

LEMMA LessIsWellFounded == IsWellFoundedOn(Less, Nat)
BY NatLessThanWellFounded DEF OpToRel, Less

\* The first of some inputs is one of them, and the others are later.
LEMMA FirstIsFirst ==
  ASSUME NEW S, S \subseteq Nat, S # {}
  PROVE  First(S) \in S /\ \A i \in S : First(S) <= i
<1>1. IsWellFoundedOn(Less, Nat)
  BY LessIsWellFounded
<1>2. PICK x \in S : \A y \in S : <<y, x>> \notin Less
  BY <1>1, WFMin
<1>3. ASSUME NEW y \in S PROVE x <= y
  <2>1. ~ y < x
    BY <1>2 DEF Less
  <2> QED  BY <2>1
<1> QED  BY <1>3 DEF First

LEMMA Inboxes ==
  ASSUME IInv, NEW s \in Sessions
  PROVE  /\ inbox[s] \in Seq(Input)
         /\ DOMAIN inbox[s] = 1 .. Len(inbox[s])
         /\ DOMAIN inbox[s] \subseteq 1 .. MaxInputs
         /\ \A i \in DOMAIN inbox[s] : inbox[s][i] \in Input
BY AuthorityAssumption DEF IInv, TypeOK

\* releaseIfNoWorker returns the slot and the lease exactly when they are not needed.
LEMMA Releases ==
  ASSUME IInv, NEW s \in Sessions, workers' \in {workers, workers \ {s}}, Released(s)
  PROVE  /\ slots' \subseteq Sessions /\ leased' \subseteq Sessions
         /\ lease' \in [Sessions -> [owner : {"none", "me", "old"}, live : BOOLEAN]]
         /\ Bounded'
         /\ s \in workers' <=> s \in slots'
         /\ s \in workers' \/ (s \notin leased' /\ lease'[s].owner # "me")
         /\ \A t \in Sessions \ {s} :
              /\ t \in slots' <=> t \in slots
              /\ t \in leased' <=> t \in leased
              /\ t \in workers' <=> t \in workers
              /\ lease'[t] = lease[t]
<1>1. CASE s \in workers'
  <2>1. s \in slots
    BY <1>1 DEF IInv, Sound, Placed
  <2> QED  BY <1>1, <2>1 DEF Released, IInv, TypeOK, Bounded
<1>2. CASE s \notin workers'
  <2>1. /\ slots' = slots \ {s} /\ leased' = leased \ {s}
        /\ lease' = IF lease[s].owner = "me" THEN [lease EXCEPT ![s] = NoLease] ELSE lease
    BY <1>2 DEF Released
  <2>2. Bounded'
    <3>1. IsFiniteSet(slots) /\ Cardinality(slots) <= MaxWorkers
      BY DEF IInv, Bounded
    <3>2. IsFiniteSet(slots') /\ Cardinality(slots') <= Cardinality(slots)
      BY <2>1, <3>1, FS_Subset
    <3>3. Cardinality(slots) \in Nat /\ Cardinality(slots') \in Nat /\ MaxWorkers \in Nat
      BY <3>1, <3>2, FS_CardinalityType, AuthorityAssumption
    <3> QED  BY <3>1, <3>2, <3>3 DEF Bounded
  <2>3. lease' \in [Sessions -> [owner : {"none", "me", "old"}, live : BOOLEAN]]
        /\ lease'[s].owner # "me" /\ \A t \in Sessions \ {s} : lease'[t] = lease[t]
    BY <2>1 DEF IInv, TypeOK, NoLease
  <2> QED  BY <1>2, <2>1, <2>2, <2>3 DEF IInv, TypeOK
<1> QED  BY <1>1, <1>2

\* Fibers queue at a gate and enter it.
LEMMA Queues ==
  ASSUME IInv, NEW s \in Sessions
  PROVE  /\ \A w \in {"tick", "event", "loss"} :
              gate' = [gate EXCEPT ![s] = Append(@, w)]
                => gate' \in [Sessions -> Seq({"tick", "event", "loss"})]
         /\ \A w : Enters(s, w) => /\ gate' \in [Sessions -> Seq({"tick", "event", "loss"})]
                                   /\ job[s].pc = "none"
<1>1. gate[s] \in Seq({"tick", "event", "loss"})
  BY DEF IInv, TypeOK
<1>2. gate[s] # << >> => Tail(gate[s]) \in Seq({"tick", "event", "loss"})
  BY <1>1
<1>3. job[s].who = "none" => job[s].pc = "none"
  BY DEF IInv, Sound, Resting
<1>4. ASSUME NEW w \in {"tick", "event", "loss"},
             gate' = [gate EXCEPT ![s] = Append(@, w)]
      PROVE  gate' \in [Sessions -> Seq({"tick", "event", "loss"})]
  <2>1. Append(gate[s], w) \in Seq({"tick", "event", "loss"})
    BY <1>1
  <2> QED  BY <1>4, <2>1 DEF IInv, TypeOK
<1>5. ASSUME NEW w, Enters(s, w)
      PROVE  gate' \in [Sessions -> Seq({"tick", "event", "loss"})] /\ job[s].pc = "none"
  BY <1>2, <1>3, <1>5 DEF IInv, TypeOK, Enters
<1> QED  BY <1>4, <1>5

-----------------------------------------------------------------------------
(* The gates, the events, the leases                                       *)

LEMMA QuietIsSound ==
  ASSUME IInv, TypeOK', slots' = slots, \A t \in Sessions : Kept(t)
  PROVE  IInv'
<1>1. Bounded'
  BY DEF IInv, Bounded
<1>2. \A t \in Sessions : Sound(t)'
  BY KeptIsSound DEF IInv
<1> QED  BY <1>1, <1>2 DEF IInv

LEMMA SweepIInv == ASSUME IInv, Sweep PROVE IInv'
<1>1. TypeOK'
  BY DEF IInv, TypeOK, Sweep, durable, budget
<1>2. \A t \in Sessions : Kept(t)
  BY DEF IInv, TypeOK, Sweep, Kept, durable
<1> QED  BY <1>1, <1>2, QuietIsSound DEF Sweep

LEMMA VisitIInv == ASSUME IInv, NEW s \in Sessions, Visit(s) PROVE IInv'
<1>1. TypeOK'
  BY Queues DEF IInv, TypeOK, Visit, durable, budget
<1>2. \A t \in Sessions : Kept(t)
  BY DEF IInv, TypeOK, Visit, Kept, durable
<1> QED  BY <1>1, <1>2, QuietIsSound DEF Visit

LEMMA EmitIInv == ASSUME IInv, NEW s \in Sessions, Emit(s) PROVE IInv'
<1>1. TypeOK'
  <2>1. event' \in [Sessions -> Events \cup {"none"}]
    BY DEF IInv, TypeOK, Emit
  <2>2. faults' \in 0 .. MaxFaults
    BY AuthorityAssumption DEF IInv, TypeOK, Emit
  <2>3. gate' \in [Sessions -> Seq({"tick", "event", "loss"})]
    BY Queues DEF Emit
  <2> QED  BY <2>1, <2>2, <2>3 DEF IInv, TypeOK, Emit, durable
<1>2. \A t \in Sessions : Kept(t)
  BY DEF IInv, TypeOK, Emit, Kept, durable
<1> QED  BY <1>1, <1>2, QuietIsSound DEF Emit

LEMMA RenewFailsIInv == ASSUME IInv, NEW s \in Sessions, RenewFails(s) PROVE IInv'
<1>1. TypeOK'
  BY Queues DEF IInv, TypeOK, RenewFails, durable, budget
<1>2. \A t \in Sessions : Kept(t)
  BY DEF IInv, TypeOK, RenewFails, Kept, durable
<1> QED  BY <1>1, <1>2, QuietIsSound DEF RenewFails

LEMMA LeaseExpiresIInv == ASSUME IInv, NEW s \in Sessions, LeaseExpires(s) PROVE IInv'
<1>1. TypeOK'
  <2>1. lease' \in [Sessions -> [owner : {"none", "me", "old"}, live : BOOLEAN]]
    BY DEF IInv, TypeOK, LeaseExpires
  <2>2. stalls' \in 0 .. MaxStalls
    BY AuthorityAssumption DEF IInv, TypeOK, LeaseExpires
  <2> QED  BY <2>1, <2>2 DEF IInv, TypeOK, LeaseExpires
<1>2. \A t \in Sessions : Kept(t)
  BY DEF IInv, TypeOK, LeaseExpires, Kept
<1> QED  BY <1>1, <1>2, QuietIsSound DEF LeaseExpires

LEMMA RetryDueIInv == ASSUME IInv, NEW s \in Sessions, RetryDue(s) PROVE IInv'
<1>1. TypeOK'
  <2>1. 0 \in 0 .. MaxInputs
    BY AuthorityAssumption
  <2>2. [run[s] EXCEPT !.retry = 0] \in Run
    BY <2>1 DEF IInv, TypeOK, Run
  <2>3. run' \in [Sessions -> Run]
    BY <2>2, Rewrites DEF RetryDue
  <2> QED  BY <2>3 DEF IInv, TypeOK, RetryDue, budget
<1>2. \A t \in Sessions : Kept(t)
  BY DEF IInv, TypeOK, RetryDue, Kept, Run
<1> QED  BY <1>1, <1>2, QuietIsSound DEF RetryDue

LEMMA DenyIInv == ASSUME IInv, Deny PROVE IInv'
<1> DEFINE r(t) == [run[t] EXCEPT !.desired = "canceled"]
<1>1. ASSUME NEW t \in Sessions
      PROVE  /\ run[t] \in Run /\ r(t) \in Run /\ r(t).desired = "canceled"
             /\ r(t).state = run[t].state /\ r(t).attempt = run[t].attempt
  BY DEF IInv, TypeOK, Run
<1>2. /\ run' \in [Sessions -> Run]
      /\ \A t \in Sessions : run'[t] \in {run[t], r(t)}
  <2>1. CASE run' = run
    BY <2>1 DEF IInv, TypeOK
  <2>2. CASE run' = [t \in Sessions |-> IF run[t].state \in Terminal \cup {"absent"}
                                         THEN run[t] ELSE r(t)]
    <3> HIDE DEF r
    <3> QED  BY <2>2, <1>1
  <2> QED  BY <2>1, <2>2 DEF Deny
<1>3. TypeOK'
  <2>2. denials' \in 0 .. MaxDenials
    BY AuthorityAssumption DEF IInv, TypeOK, Deny
  <2> QED  BY <1>2, <2>2 DEF IInv, TypeOK, Deny
<1>4. \A t \in Sessions : Kept(t)
  BY <1>1, <1>2 DEF Deny, Kept
<1> QED  BY <1>3, <1>4, QuietIsSound DEF Deny

\* What the consumer of an event may do at the head of the gate.
LEMMA HandleEventIInv == ASSUME IInv, NEW s \in Sessions, HandleEvent(s) PROVE IInv'
<1>1. gate' \in [Sessions -> Seq({"tick", "event", "loss"})] /\ job[s].pc = "none"
  BY Queues DEF HandleEvent
<1>2. event' \in [Sessions -> Events \cup {"none"}]
  BY DEF IInv, TypeOK, HandleEvent
<1>3. CASE UNCHANGED <<job, workers, slots, leased, lease>>
  <2>1. TypeOK'
    BY <1>1, <1>2, <1>3 DEF IInv, TypeOK, HandleEvent, budget
  <2>2. \A t \in Sessions : Kept(t)
    BY <1>3 DEF IInv, TypeOK, HandleEvent, Kept
  <2> QED  BY <1>3, <2>1, <2>2, QuietIsSound
<1>4. CASE workers' = workers \ {s} /\ Released(s) /\ UNCHANGED job
  <2>1. TypeOK'
    BY <1>1, <1>2, <1>4, Releases DEF IInv, TypeOK, HandleEvent, budget
  <2>2. Sound(s)'
    BY <1>1, <1>4, Releases, IdleIsSound
  <2>3. \A t \in Sessions \ {s} : Kept(t)
    BY <1>4, Releases DEF IInv, TypeOK, HandleEvent, Kept
  <2> QED  BY <1>4, <2>1, <2>2, <2>3, OthersAreSound, Releases DEF IInv
<1>5. CASE job' = [job EXCEPT ![s] = [NoJob EXCEPT !.who = "event", !.pc = event[s]]]
           /\ UNCHANGED <<workers, slots, leased, lease>>
  <2> DEFINE j == [NoJob EXCEPT !.who = "event", !.pc = event[s]]
  <2>1. event[s] \in Events \cup {"none"}
    BY DEF IInv, TypeOK
  <2>2. j \in Job /\ j.who = "event" /\ j.pc = event[s]
    <3>1. 0 \in 0 .. MaxAttempts /\ 0 \in 0 .. MaxInputs
      BY AuthorityAssumption
    <3> QED  BY <2>1, <3>1 DEF Job, NoJob, NoInit, Snapshot, Pcs, Events
  <2>3. job' \in [Sessions -> Job] /\ job'[s] = j /\ \A t \in Sessions \ {s} : job'[t] = job[t]
    BY <1>5, <2>2 DEF IInv, TypeOK
  <2>4. TypeOK'
    BY <1>1, <1>2, <1>5, <2>3 DEF IInv, TypeOK, HandleEvent, budget
  <2>5. s \in workers => s \in slots
    BY DEF IInv, Sound, Placed
  <2>6. s \in workers /\ Ended(s) => access # "full"
    BY <1>1 DEF IInv, Sound, Lasting
  <2>7. Ended(s)' <=> Ended(s)
    BY DEF HandleEvent, Ended
  <2>8. Sound(s)'
    BY <1>5, <2>1, <2>2, <2>3, <2>5, <2>6, <2>7, LightIsSound DEF HandleEvent, Events
  <2>9. \A t \in Sessions \ {s} : Kept(t)
    BY <1>5, <2>3 DEF IInv, TypeOK, HandleEvent, Kept
  <2> QED  BY <1>5, <2>4, <2>8, <2>9, OthersAreSound DEF IInv, Bounded
<1> QED  BY <1>3, <1>4, <1>5 DEF HandleEvent

LEMMA CleanUpIInv == ASSUME IInv, NEW s \in Sessions, CleanUp(s) PROVE IInv'
<1>1. gate' \in [Sessions -> Seq({"tick", "event", "loss"})] /\ job[s].pc = "none"
  BY Queues DEF CleanUp
<1>2. TypeOK'
  BY <1>1, Releases DEF IInv, TypeOK, CleanUp, budget
<1>3. Sound(s)'
  BY <1>1, Releases, IdleIsSound DEF CleanUp
<1>4. \A t \in Sessions \ {s} : Kept(t)
  BY Releases DEF IInv, TypeOK, CleanUp, Kept
<1> QED  BY <1>2, <1>3, <1>4, OthersAreSound, Releases DEF IInv, CleanUp

LEMMA LeaveIInv == ASSUME IInv, NEW s \in Sessions, Leave(s) PROVE IInv'
<1>1. NoJob \in Job /\ NoJob.pc = "none"
  BY AuthorityAssumption DEF Job, NoJob, NoInit, Snapshot, Pcs
<1>2. job' \in [Sessions -> Job] /\ job'[s] = NoJob /\ \A t \in Sessions \ {s} : job'[t] = job[t]
  BY <1>1 DEF IInv, TypeOK, Leave
<1>3. TypeOK'
  BY <1>2, Releases DEF IInv, TypeOK, Leave, budget
<1>4. s \in workers /\ Ended(s) => access # "full"
  BY DEF IInv, Sound, Lasting, Leave, At
<1>5. Sound(s)'
  BY <1>1, <1>2, <1>4, Releases, IdleIsSound DEF Leave, Ended
<1>6. \A t \in Sessions \ {s} : Kept(t)
  BY <1>2, Releases DEF IInv, TypeOK, Leave, Kept
<1> QED  BY <1>3, <1>5, <1>6, OthersAreSound, Releases DEF IInv, Leave

-----------------------------------------------------------------------------
(* Webhooks and the process                                                *)

\* A new input comes last; the run it revives had ended, and the run it cancels had not.
LEMMA Enqueues ==
  ASSUME IInv, NEW s \in Sessions, NEW kind \in Kinds, Enqueued(s, kind),
         Len(inbox[s]) < MaxInputs,
         UNCHANGED <<lease, access, workers, slots, leased, job>>
  PROVE  /\ run' \in [Sessions -> Run] /\ inbox' \in [Sessions -> Seq(Input)]
         /\ \A t \in Sessions : Len(inbox'[t]) <= MaxInputs
         /\ Bounded' /\ \A t \in Sessions : Sound(t)'
<1> DEFINE input == [kind |-> kind, done |-> FALSE]
           r == IF run[s].state = "absent" THEN [run[s] EXCEPT !.state = "queued"] ELSE run[s]
           q == CASE kind = "stop" -> Stopped(r)
                  [] kind = "notice" -> r
                  [] OTHER -> IF r.state \in {"succeeded", "failed"} THEN Requeued(r) ELSE r
<1>1. input \in Input /\ input.done = FALSE
  BY DEF Input
<1>2. /\ r \in Run /\ r.attempt = run[s].attempt /\ r.desired = run[s].desired
      /\ \/ r.state = run[s].state
         \/ r.state = "queued" /\ run[s].state = "absent"
  <2>1. run[s] \in Run
    BY DEF IInv, TypeOK
  <2>2. CASE run[s].state = "absent"
    BY <2>1, <2>2 DEF Run, States
  <2>3. CASE run[s].state # "absent"
    BY <2>1, <2>3
  <2> QED  BY <2>2, <2>3
<1>3. /\ q \in Run /\ q.attempt \in {0, run[s].attempt}
      /\ q.state \in Terminal => q.state = run[s].state
      /\ run[s].state \notin {"succeeded", "failed"} =>
            q.desired \in {run[s].desired, "canceled"} /\ q.state \notin {"succeeded", "failed"}
  <2> HIDE DEF r
  <2>1. CASE kind = "stop"
    <3>1. q = Stopped(r)
      BY <2>1
    <3> HIDE DEF q
    <3>2. q \in Run
      BY <1>2, <3>1, Runs
    <3> QED  BY <1>2, <3>1, <3>2 DEF Stopped, Run, Terminal
  <2>2. CASE kind = "notice"
    BY <1>2, <2>2 DEF Terminal
  <2>3. CASE kind \notin {"stop", "notice"}
    <3>1. q = IF r.state \in {"succeeded", "failed"} THEN Requeued(r) ELSE r
      BY <2>3
    <3> HIDE DEF q
    <3>2. Requeued(r) \in Run
      BY <1>2, Runs
    <3> QED  BY <1>2, <3>1, <3>2 DEF Requeued, Run, Terminal
  <2> QED  BY <2>1, <2>2, <2>3
<1>4. run' = [run EXCEPT ![s] = q] /\ inbox' = [inbox EXCEPT ![s] = Append(@, input)]
  BY DEF Enqueued
<1> HIDE DEF r, q, input
<1>5. run' \in [Sessions -> Run] /\ run'[s] = q /\ \A t \in Sessions \ {s} : run'[t] = run[t]
  BY <1>3, <1>4, Rewrites
<1>6. inbox'[s] = Append(inbox[s], input) /\ \A t \in Sessions \ {s} : inbox'[t] = inbox[t]
  BY <1>4 DEF IInv, TypeOK
<1>7. /\ inbox'[s] \in Seq(Input) /\ Len(inbox'[s]) = Len(inbox[s]) + 1
      /\ DOMAIN inbox[s] = 1 .. Len(inbox[s]) /\ DOMAIN inbox'[s] = 1 .. Len(inbox[s]) + 1
      /\ Len(inbox[s]) \in Nat
      /\ \A i \in DOMAIN inbox[s] : inbox'[s][i] = inbox[s][i]
  <2>1. inbox[s] \in Seq(Input)
    BY DEF IInv, TypeOK
  <2> QED  BY <1>1, <1>6, <2>1
<1>8. inbox' \in [Sessions -> Seq(Input)] /\ \A t \in Sessions : Len(inbox'[t]) <= MaxInputs
  BY <1>4, <1>6, <1>7, AuthorityAssumption DEF IInv, TypeOK
<1>9. Placed(s)' /\ Resting(s)'
  BY DEF IInv, Sound, Placed, Resting, Holding, Working
<1>10. Lasting(s)'
  <2>1. Ended(s)' => Ended(s)
    BY <1>3, <1>5 DEF Ended, Terminal
  <2>2. run[s].attempt < MaxAttempts => run'[s].attempt < MaxAttempts
    BY <1>3, <1>5, AuthorityAssumption
  <2> QED  BY <2>1, <2>2 DEF IInv, Sound, Lasting, Serving, Working
<1>11. Ordered(s)'
  <2>1. \A S \in SUBSET DOMAIN inbox[s] :
            /\ Left(s, StopsOf(s, S))' = Left(s, StopsOf(s, S))
            /\ Left(s, ActionableOf(s, S))' = Left(s, ActionableOf(s, S))
    BY <1>7 DEF Left, StopsOf, ActionableOf, IsStop
  <2>2. job[s].pc \in {"reopen", "stops", "stop", "slot"} \cup Holding =>
          \A i \in DOMAIN inbox'[s] \ job[s].ins :
              ~inbox'[s][i].done => \A j \in job[s].ins : j < i
    BY <1>7 DEF IInv, Sound, Ordered
  <2>3. job[s].pc \in {"reopen", "stops", "stop", "slot"} \cup Holding => job[s].ins \subseteq DOMAIN inbox[s]
    BY DEF IInv, Sound, Ordered
  <2>4. DOMAIN inbox[s] \subseteq DOMAIN inbox'[s]
    BY <1>7
  <2>5. job[s].pc \in {"reopen", "stops"} => \A i \in job[s].ins : ~inbox'[s][i].done
    BY <1>7, <2>3 DEF IInv, Sound, Ordered
  <2>6. job' = job /\ Ordered(s)
    BY DEF IInv, Sound
  <2>7. job[s].pc = "reopen" => ActionableOf(s, job[s].ins)' # {}
    <3>1. job[s].pc = "reopen" => ActionableOf(s, job[s].ins) # {} /\ job[s].ins \subseteq DOMAIN inbox[s]
      BY DEF IInv, Sound, Ordered
    <3> QED  BY <1>7, <2>6, <3>1 DEF ActionableOf, IsStop
  <2> QED  BY <2>1, <2>2, <2>3, <2>4, <2>5, <2>6, <2>7 DEF Ordered, Holding, Serving, Working
<1>12. Honest(s)'
  BY <1>3, <1>5, <1>7 DEF IInv, Sound, Honest, IsStop
<1>15. Handed(s)'
  <2>1. CASE job[s].pc = "mark"
    <3>1. /\ job[s].ins \subseteq DOMAIN inbox[s]
          /\ Left(s, ActionableOf(s, job[s].ins)) # {}
      BY <2>1 DEF IInv, Sound, Ordered, Holding, Serving, Working
    <3>2. Left(s, ActionableOf(s, job[s].ins))' = Left(s, ActionableOf(s, job[s].ins))
      BY <1>7, <3>1 DEF Left, ActionableOf, IsStop
    <3>3. Current(s)' = Current(s)
      BY <3>2 DEF Current
    <3>4. Current(s) \in DOMAIN inbox[s]
      <4> DEFINE left == Left(s, ActionableOf(s, job[s].ins))
      <4>1. left \subseteq job[s].ins /\ left \subseteq Nat
        BY <3>1, Inboxes DEF Left, ActionableOf
      <4>2. First(left) \in left
        <5> HIDE DEF left
        <5> QED  BY <3>1, <4>1, FirstIsFirst DEF left
      <4> QED  BY <3>1, <4>1, <4>2 DEF Current
    <3> QED  BY <1>7, <2>1, <3>3, <3>4 DEF IInv, Sound, Handed
  <2>2. CASE job[s].pc # "mark"
    BY <2>2 DEF Handed
  <2> QED  BY <2>1, <2>2
<1>13. \A t \in Sessions \ {s} : Kept(t)
  BY <1>5, <1>6 DEF Kept
<1>14. Sound(s)'
  BY <1>9, <1>10, <1>11, <1>12, <1>15 DEF Sound
<1> QED  BY <1>5, <1>8, <1>13, <1>14, OthersAreSound DEF IInv, Bounded

LEMMA EnqueueIInv == ASSUME IInv, NEW s \in Sessions, Enqueue(s) PROVE IInv'
<1>1. PICK kind \in Kinds : Enqueued(s, kind)
  BY DEF Enqueue
<1>2. TypeOK'
  BY <1>1, Enqueues DEF Enqueue, IInv, TypeOK, budget
<1> QED  BY <1>1, <1>2, Enqueues DEF Enqueue, IInv

LEMMA CatchUpIInv == ASSUME IInv, NEW s \in Sessions, CatchUp(s) PROVE IInv'
<1>1. "prompted" \in Kinds
  BY DEF Kinds
<1>2. TypeOK'
  BY <1>1, Enqueues DEF CatchUp, IInv, TypeOK, budget
<1> QED  BY <1>1, <1>2, Enqueues DEF CatchUp, IInv

\* A process that ends leaves no fiber and no worker.
LEMMA CrashIInv == ASSUME IInv, Crash PROVE IInv'
<1>1. NoJob \in Job /\ NoJob.pc = "none"
  <2>1. 0 \in 0 .. MaxAttempts /\ 0 \in 0 .. MaxInputs
    BY AuthorityAssumption
  <2> QED  BY <2>1 DEF Job, NoJob, NoInit, Snapshot, Pcs
<1>2. PICK released \in {{}, leased} :
         lease' = [s \in Sessions |->
                     IF lease[s].owner # "me" THEN lease[s]
                     ELSE IF s \in released THEN NoLease
                     ELSE [lease[s] EXCEPT !.owner = "old"]]
  BY DEF Crash
<1>3. /\ lease' \in [Sessions -> [owner : {"none", "me", "old"}, live : BOOLEAN]]
      /\ \A s \in Sessions : lease'[s].owner # "me"
  <2>1. \A s \in Sessions : lease[s] \in [owner : {"none", "me", "old"}, live : BOOLEAN]
    BY DEF IInv, TypeOK
  <2> QED  BY <1>2, <2>1 DEF NoLease
<1>4. crashes' \in 0 .. MaxCrashes /\ 0 \in 0 .. MaxDeferrals - 1
  BY AuthorityAssumption DEF IInv, TypeOK, Crash
<1>5. /\ job' \in [Sessions -> Job] /\ \A s \in Sessions : job'[s].pc = "none"
      /\ gate' \in [Sessions -> Seq({"tick", "event", "loss"})]
  BY <1>1 DEF Crash
<1>6. TypeOK'
  BY <1>3, <1>4, <1>5 DEF IInv, TypeOK, Crash
<1>7. Bounded'
  BY FS_EmptySet, AuthorityAssumption DEF Bounded, Crash
<1>8. \A s \in Sessions : Sound(s)'
  BY <1>3, <1>5, IdleIsSound DEF Crash
<1> QED  BY <1>6, <1>7, <1>8 DEF IInv

\* Recovery ends no run.
LEMMA BootIInv == ASSUME IInv, Boot PROVE IInv'
<1> DEFINE free == {s \in Sessions : run[s].state \notin Terminal \cup {"absent"} /\ ~lease[s].live}
<1>1. /\ run' = [s \in Sessions |-> IF s \in free THEN Recovered(run[s]) ELSE run[s]]
      /\ lease' = [s \in Sessions |-> IF s \in free THEN NoLease ELSE lease[s]]
  BY DEF Boot
<1>2. ASSUME NEW s \in Sessions
      PROVE  /\ run'[s] \in Run /\ run'[s].attempt = run[s].attempt
             /\ run'[s].desired = run[s].desired
             /\ run'[s].state \in Terminal => run'[s].state = run[s].state
  <2>1. run[s] \in Run
    BY DEF IInv, TypeOK
  <2>2. CASE s \in free
    <3>1. run'[s] = Recovered(run[s])
      BY <1>1, <2>2
    <3>2. 0 \in 0 .. MaxInputs
      BY AuthorityAssumption
    <3> QED  BY <2>1, <2>2, <3>1, <3>2 DEF Recovered, Run, States, Terminal
  <2>3. CASE s \notin free
    BY <1>1, <2>1, <2>3
  <2> QED  BY <2>2, <2>3
<1>3. run' \in [Sessions -> Run]
  BY <1>1, <1>2
<1>4. /\ lease' \in [Sessions -> [owner : {"none", "me", "old"}, live : BOOLEAN]]
      /\ \A s \in Sessions : lease'[s].owner = "me" => lease[s].owner = "me"
  BY <1>1 DEF IInv, TypeOK, NoLease
<1>5. TypeOK'
  BY <1>3, <1>4 DEF IInv, TypeOK, Boot, budget
<1>6. ASSUME NEW s \in Sessions PROVE Sound(s)'
  <2>1. Sound(s)
    BY DEF IInv
  <2>2. Placed(s)' /\ Resting(s)'
    BY <1>4, <2>1 DEF Boot, Sound, Placed, Resting, Holding, Working
  <2>3. Ended(s)' => Ended(s)
    BY <1>2 DEF Ended
  <2>4. Lasting(s)'
    BY <1>2, <2>1, <2>3 DEF Boot, Sound, Lasting, Serving, Working
  <2>5. Ordered(s)'
    BY <2>1 DEF Boot, Sound, Ordered, Holding, Serving, Working, Left, StopsOf, ActionableOf, IsStop
  <2>6. Honest(s)'
    BY <1>2, <2>1 DEF Boot, Sound, Honest, Canceling, IsStop, Terminal
  <2>7. Handed(s)'
    <3>1. Current(s)' = Current(s)
      BY DEF Boot, Current, Left, ActionableOf, IsStop
    <3> QED  BY <2>1, <3>1 DEF Boot, Sound, Handed
  <2> QED  BY <2>2, <2>4, <2>5, <2>6, <2>7 DEF Sound
<1> QED  BY <1>5, <1>6 DEF IInv, Bounded, Boot

-----------------------------------------------------------------------------
(* A visit                                                                 *)

LEMMA ReadIInv == ASSUME IInv, NEW s \in Sessions, Read(s) PROVE IInv'
<1> DEFINE init == [desired |-> run[s].desired, ended |-> Ended(s),
                    attempt |-> run[s].attempt, retry |-> run[s].retry]
           j == [job[s] EXCEPT !.who = "tick", !.pc = "inputs", !.init = init]
<1>1. gate' \in [Sessions -> Seq({"tick", "event", "loss"})] /\ job[s].pc = "none"
  BY Queues DEF Read
<1>2. init \in Snapshot
  BY DEF IInv, TypeOK, Run, Snapshot, Ended
<1>3. j \in Job /\ j.who = "tick" /\ j.pc = "inputs"
  <2> HIDE DEF init
  <2>1. job[s] \in Job
    BY DEF IInv, TypeOK
  <2> QED  BY <1>2, <2>1 DEF Job, Pcs
<1>4. job' = [job EXCEPT ![s] = j]
  BY DEF Read
<1> HIDE DEF j
<1>5. job' \in [Sessions -> Job] /\ job'[s] = j /\ \A t \in Sessions \ {s} : job'[t] = job[t]
  BY <1>3, <1>4 DEF IInv, TypeOK
<1>6. TypeOK'
  BY <1>1, <1>5 DEF IInv, TypeOK, Read, durable, budget
<1>7. s \in workers => s \in slots /\ (Ended(s) => access # "full")
  BY <1>1 DEF IInv, Sound, Placed, Lasting
<1>8. Sound(s)'
  BY <1>3, <1>5, <1>7, LightIsSound DEF Read, Ended, durable
<1>9. \A t \in Sessions \ {s} : Kept(t)
  BY <1>5 DEF IInv, TypeOK, Read, Kept, durable
<1> QED  BY <1>6, <1>8, <1>9, OthersAreSound DEF IInv, Bounded, Read

\* A fiber that leaves or fails, and may have written the run.
LEMMA LeavesOff ==
  ASSUME IInv, NEW s \in Sessions, job[s].pc \notin {"none", "finish"},
         NEW pc \in {"leave", "fail"}, Goto(s, pc), Ended(s)' => Ended(s),
         \A t \in Sessions \ {s} : run'[t] = run[t],
         UNCHANGED <<lease, inbox, access, workers, slots, leased>>
  PROVE  job' \in [Sessions -> Job] /\ Bounded' /\ \A t \in Sessions : Sound(t)'
<1>1. pc \in Pcs
  BY DEF Pcs
<1>2. job[s].who # "none"
  BY DEF IInv, Sound, Resting
<1>3. s \in workers => s \in slots /\ (Ended(s) => access # "full")
  BY DEF IInv, Sound, Placed, Lasting
<1>4. Sound(s)'
  BY <1>1, <1>2, <1>3, Moves, LightIsSound
<1>5. \A t \in Sessions \ {s} : Kept(t)
  BY <1>1, Moves DEF IInv, TypeOK, Kept
<1> QED  BY <1>1, <1>4, <1>5, Moves, OthersAreSound DEF IInv, Bounded

LEMMA GivesUp ==
  ASSUME IInv, NEW s \in Sessions, job[s].pc \notin {"none", "finish"},
         NEW pc \in {"leave", "fail"}, Goto(s, pc),
         UNCHANGED <<run, lease, inbox, access, workers, slots, leased>>
  PROVE  job' \in [Sessions -> Job] /\ Bounded' /\ \A t \in Sessions : Sound(t)'
<1>1. (Ended(s)' => Ended(s)) /\ \A t \in Sessions \ {s} : run'[t] = run[t]
  BY DEF Ended
<1> QED  BY <1>1, LeavesOff

\* A visit that goes on with the same inputs.
LEMMA StaysOrdered ==
  ASSUME IInv, NEW s \in Sessions, inbox' = inbox, job'[s].ins = job[s].ins,
         job[s].pc \in {"slot"} \cup Holding, job'[s].pc \in Holding,
         job'[s].pc = "resume" => job[s].ins = {},
         job'[s].pc \in Serving =>
            \/ job[s].pc \in Serving \/ job[s].ins = {}
            \/ Left(s, ActionableOf(s, job[s].ins)) # {},
         job'[s].pc \in {"deliver", "mark"} => Left(s, ActionableOf(s, job[s].ins)) # {}
  PROVE  Ordered(s)'
<1>1. /\ Left(s, StopsOf(s, job[s].ins))' = Left(s, StopsOf(s, job[s].ins))
      /\ Left(s, ActionableOf(s, job[s].ins))' = Left(s, ActionableOf(s, job[s].ins))
  BY DEF Left, StopsOf, ActionableOf, IsStop
<1> QED  BY <1>1 DEF IInv, Sound, Ordered, Holding, Serving, Working

LEMMA StaysSound ==
  ASSUME IInv, NEW s \in Sessions, Placed(s)', Lasting(s)', Ordered(s)',
         job[s].pc # "none", job'[s].who = job[s].who, job'[s].pc \notin Canceling,
         job'[s].pc = "mark" => Handed(s)'
  PROVE  Sound(s)'
<1>1. job[s].who # "none"
  BY DEF IInv, Sound, Resting
<1>2. Resting(s)' /\ Honest(s)' /\ Handed(s)'
  BY <1>1 DEF Resting, Honest, Handed
<1> QED  BY <1>2 DEF Sound

\* A fiber that starts to cancel.
LEMMA CancelIsSound ==
  ASSUME IInv, NEW s \in Sessions, NEW ended \in BOOLEAN,
         NEW acks \in SUBSET DOMAIN inbox[s], StartCancel(s, ended, acks),
         job[s].pc \notin {"none", "finish"},
         UNCHANGED <<inbox, access, workers, slots>>, Ended(s)' => Ended(s),
         \A i \in acks : ~IsStop(inbox[s][i]) =>
            run'[s].desired = "canceled" /\ run'[s].state \notin {"succeeded", "failed"}
  PROVE  /\ job' \in [Sessions -> Job] /\ Sound(s)'
         /\ \A t \in Sessions \ {s} : job'[t] = job[t]
<1>1. acks \in SUBSET (1 .. MaxInputs)
  BY Inboxes
<1>2. job'[s].pc = "cancel" /\ job'[s].who = job[s].who /\ job'[s].acks = acks
  BY <1>1, CancelStarts
<1>3. job[s].who # "none" /\ (s \in workers => s \in slots)
      /\ (s \in workers /\ Ended(s) => access # "full")
  BY DEF IInv, Sound, Resting, Placed, Lasting
<1>4. Placed(s)' /\ Resting(s)'
  BY <1>2, <1>3 DEF Placed, Resting, Holding, Working
<1>5. Lasting(s)'
  BY <1>2, <1>3 DEF Lasting, Serving, Working
<1>6. Ordered(s)'
  BY <1>2 DEF Ordered, Holding, Serving, Working
<1>7. Honest(s)' /\ Handed(s)'
  BY <1>2 DEF Honest, IsStop, Handed
<1> QED  BY <1>1, <1>4, <1>5, <1>6, <1>7, CancelStarts DEF Sound

LEMMA InputsIInv == ASSUME IInv, NEW s \in Sessions, Inputs(s) PROVE IInv'
<1> DEFINE ins == Pending(s)
<1>1. ins \in SUBSET DOMAIN inbox[s] /\ ins \in SUBSET (1 .. MaxInputs)
  BY Inboxes DEF Pending
<1>2. job[s] \in Job /\ job[s].pc = "inputs" /\ job[s].init.ended \in BOOLEAN
  BY DEF IInv, TypeOK, Job, Snapshot, Inputs, At
<1>3. CASE StartCancel(s, job[s].init.ended, StopsOf(s, ins))
  <2>1. StopsOf(s, ins) \in SUBSET DOMAIN inbox[s]
        /\ \A i \in StopsOf(s, ins) : IsStop(inbox[s][i])
    BY <1>1 DEF StopsOf
  <2>2. /\ job' \in [Sessions -> Job] /\ Sound(s)'
        /\ \A t \in Sessions \ {s} : job'[t] = job[t]
    BY <1>2, <1>3, <2>1, CancelIsSound DEF Inputs, Ended, durable
  <2>3. TypeOK'
    BY <2>2 DEF IInv, TypeOK, Inputs, budget, durable
  <2>4. \A t \in Sessions \ {s} : Kept(t)
    BY <2>2 DEF IInv, TypeOK, Inputs, Kept, durable
  <2> QED  BY <2>2, <2>3, <2>4, OthersAreSound DEF IInv, Bounded, Inputs
<1>4. ASSUME NEW pc \in {"reopen", "stops"}, pc = "reopen" => ActionableOf(s, ins) # {},
             job' = [job EXCEPT ![s] = [@ EXCEPT !.ins = ins, !.pc = pc]]
      PROVE  IInv'
  <2> DEFINE j == [job[s] EXCEPT !.ins = ins, !.pc = pc]
  <2>1. j \in Job /\ j.pc = pc /\ j.ins = ins /\ j.who = job[s].who
    <3> HIDE DEF ins
    <3> QED  BY <1>1, <1>2 DEF Job, Pcs
  <2>2. /\ job' \in [Sessions -> Job] /\ job'[s] = j
        /\ \A t \in Sessions \ {s} : job'[t] = job[t]
    BY <1>4, <2>1 DEF IInv, TypeOK
  <2>3. TypeOK'
    BY <2>2 DEF IInv, TypeOK, Inputs, budget, durable
  <2>4. Placed(s)' /\ Lasting(s)'
    <3>1. s \in workers => s \in slots /\ (Ended(s) => access # "full")
      BY <1>2 DEF IInv, Sound, Placed, Lasting
    <3> QED  BY <2>1, <2>2, <3>1 DEF Inputs, Placed, Lasting, Holding, Serving, Working, Ended, durable
  <2>5. Ordered(s)'
    <3>1. inbox' = inbox /\ job'[s].ins = ins /\ job'[s].pc = pc
      BY <2>1, <2>2 DEF Inputs, durable
    <3>2. ActionableOf(s, ins)' = ActionableOf(s, ins)
      BY <3>1 DEF ActionableOf, IsStop, Pending
    <3> QED  BY <1>4, <3>1, <3>2 DEF Ordered, Holding, Serving, Working, Pending
  <2>6. Sound(s)'
    BY <1>2, <2>1, <2>2, <2>4, <2>5, StaysSound DEF Canceling
  <2>7. \A t \in Sessions \ {s} : Kept(t)
    BY <2>2 DEF IInv, TypeOK, Inputs, Kept, durable
  <2> QED  BY <2>3, <2>6, <2>7, OthersAreSound DEF IInv, Bounded, Inputs
<1> QED
  <2>1. CASE job[s].init.desired = "canceled"
    BY <1>3, <1>4, <2>1 DEF Inputs
  <2>2. CASE job[s].init.desired # "canceled"
    BY <1>4, <2>2 DEF Inputs
  <2> QED  BY <2>1, <2>2

LEMMA ReopenIInv == ASSUME IInv, NEW s \in Sessions, Reopen(s) PROVE IInv'
<1>1. /\ job[s] \in Job /\ job[s].pc = "reopen" /\ job[s].init.ended \in BOOLEAN
      /\ job[s].ins \subseteq DOMAIN inbox[s]
  BY DEF IInv, TypeOK, Job, Snapshot, Reopen, At, Sound, Ordered
<1>2. CASE StartCancel(s, job[s].init.ended, StopsOf(s, job[s].ins)) /\ UNCHANGED run
  <2>1. StopsOf(s, job[s].ins) \in SUBSET DOMAIN inbox[s]
        /\ \A i \in StopsOf(s, job[s].ins) : IsStop(inbox[s][i])
    BY <1>1 DEF StopsOf
  <2>2. /\ job' \in [Sessions -> Job] /\ Sound(s)'
        /\ \A t \in Sessions \ {s} : job'[t] = job[t]
    BY <1>1, <1>2, <2>1, CancelIsSound DEF Reopen, Ended
  <2>3. TypeOK'
    BY <1>2, <2>2 DEF IInv, TypeOK, Reopen, budget
  <2>4. \A t \in Sessions \ {s} : Kept(t)
    BY <1>2, <2>2 DEF IInv, TypeOK, Reopen, Kept
  <2> QED  BY <2>2, <2>3, <2>4, OthersAreSound DEF IInv, Bounded, Reopen
<1>3. CASE run' = [run EXCEPT ![s] = Requeued(@)] /\ Goto(s, "stops")
  <2>1. /\ job' \in [Sessions -> Job] /\ job'[s].pc = "stops" /\ job'[s].who = job[s].who
        /\ job'[s].ins = job[s].ins /\ \A t \in Sessions \ {s} : job'[t] = job[t]
    BY <1>3, Moves DEF Pcs
  <2>2. run[s] \in Run /\ Requeued(run[s]) \in Run /\ Requeued(run[s]).state = "queued"
    <3>1. run[s] \in Run
      BY DEF IInv, TypeOK
    <3>2. Requeued(run[s]).state = "queued"
      BY <3>1 DEF Requeued, Run
    <3> QED  BY <3>1, <3>2, Runs
  <2>3. /\ run' \in [Sessions -> Run] /\ (Ended(s)' => Ended(s))
        /\ \A t \in Sessions \ {s} : run'[t] = run[t]
    BY <1>3, <2>2, Rewrites DEF IInv, TypeOK, Ended, Terminal
  <2>4. TypeOK'
    BY <2>1, <2>3 DEF IInv, TypeOK, Reopen, budget
  <2>5. Placed(s)' /\ Lasting(s)'
    <3>1. s \in workers => s \in slots /\ (Ended(s) => access # "full")
      BY <1>1 DEF IInv, Sound, Placed, Lasting
    <3> QED  BY <2>1, <2>3, <3>1 DEF Reopen, Placed, Lasting, Holding, Serving, Working
  <2>6. Ordered(s)'
    <3>1. /\ job[s].ins \subseteq DOMAIN inbox[s]
          /\ \A i \in DOMAIN inbox[s] \ job[s].ins :
               ~inbox[s][i].done => \A j \in job[s].ins : j < i
          /\ \A i \in job[s].ins : ~inbox[s][i].done
      BY <1>1 DEF IInv, Sound, Ordered
    <3>2. inbox' = inbox
      BY DEF Reopen
    <3> QED  BY <2>1, <3>1, <3>2 DEF Ordered, Holding, Serving, Working
  <2>7. Sound(s)'
    BY <1>1, <2>1, <2>5, <2>6, StaysSound DEF Canceling
  <2>8. \A t \in Sessions \ {s} : Kept(t)
    BY <2>1, <2>3 DEF IInv, TypeOK, Reopen, Kept
  <2> QED  BY <2>4, <2>7, <2>8, OthersAreSound DEF IInv, Bounded, Reopen
<1> QED  BY <1>2, <1>3 DEF Reopen

\* A lease that was claimed.
LEMMA Claims ==
  ASSUME IInv, NEW s \in Sessions, lease' = [lease EXCEPT ![s] = Mine],
         leased' = leased \cup {s}
  PROVE  /\ lease' \in [Sessions -> [owner : {"none", "me", "old"}, live : BOOLEAN]]
         /\ leased' \subseteq Sessions
         /\ \A t \in Sessions \ {s} : lease'[t] = lease[t] /\ (t \in leased' <=> t \in leased)
BY DEF IInv, TypeOK, Mine

LEMMA StopsIInv == ASSUME IInv, NEW s \in Sessions, Stops(s) PROVE IInv'
<1> DEFINE stops == StopsOf(s, job[s].ins)
<1>1. job[s].pc = "stops" /\ job[s].ins \subseteq DOMAIN inbox[s]
      /\ \A i \in job[s].ins : ~inbox[s][i].done
  BY DEF IInv, Sound, Ordered, Stops, At
<1>2. Left(s, stops) = stops
  BY <1>1 DEF Left, StopsOf
<1>3. s \in workers => s \in slots /\ (Ended(s) => access # "full")
  BY <1>1 DEF IInv, Sound, Placed, Lasting
<1>4. CASE stops = {} /\ Goto(s, "slot") /\ UNCHANGED <<lease, leased>>
  <2>1. /\ job' \in [Sessions -> Job] /\ job'[s].pc = "slot" /\ job'[s].who = job[s].who
        /\ job'[s].ins = job[s].ins /\ \A t \in Sessions \ {s} : job'[t] = job[t]
    BY <1>4, Moves DEF Pcs
  <2>2. TypeOK'
    BY <1>4, <2>1 DEF IInv, TypeOK, Stops, budget
  <2>3. Placed(s)' /\ Lasting(s)'
    BY <1>3, <2>1 DEF Stops, Placed, Lasting, Holding, Serving, Working, Ended
  <2>4. Ordered(s)'
    <3>1. Left(s, StopsOf(s, job[s].ins))' = {}
      BY <1>2, <1>4, <2>1 DEF Stops, Left, StopsOf, IsStop
    <3> QED  BY <1>1, <2>1, <3>1 DEF IInv, Sound, Stops, Ordered, Holding, Serving, Working
  <2>5. Sound(s)'
    BY <1>1, <2>1, <2>3, <2>4, StaysSound DEF Canceling
  <2>6. \A t \in Sessions \ {s} : Kept(t)
    BY <1>4, <2>1 DEF IInv, TypeOK, Stops, Kept
  <2> QED  BY <2>2, <2>5, <2>6, OthersAreSound DEF IInv, Bounded, Stops
<1>5. CASE Goto(s, "leave") /\ UNCHANGED <<lease, leased>>
  <2>1. job' \in [Sessions -> Job] /\ Bounded' /\ \A t \in Sessions : Sound(t)'
    BY <1>1, <1>5, GivesUp DEF Stops
  <2> QED  BY <1>5, <2>1 DEF IInv, TypeOK, Stops, budget
<1>6. CASE /\ stops # {} /\ Goto(s, "stop")
           /\ lease' = [lease EXCEPT ![s] = Mine] /\ leased' = leased \cup {s}
  <2>1. /\ job' \in [Sessions -> Job] /\ job'[s].pc = "stop" /\ job'[s].who = job[s].who
        /\ job'[s].ins = job[s].ins /\ \A t \in Sessions \ {s} : job'[t] = job[t]
    BY <1>6, Moves DEF Pcs
  <2>2. TypeOK'
    <3>1. /\ leased' \subseteq Sessions
          /\ lease' \in [Sessions -> [owner : {"none", "me", "old"}, live : BOOLEAN]]
      BY <1>6, Claims
    <3> QED  BY <2>1, <3>1 DEF IInv, TypeOK, Stops, budget
  <2>3. Placed(s)' /\ Lasting(s)'
    BY <1>3, <2>1 DEF Stops, Placed, Lasting, Holding, Serving, Working, Ended
  <2>4. Ordered(s)'
    <3>1. Left(s, StopsOf(s, job[s].ins))' # {}
      BY <1>2, <1>6, <2>1 DEF Stops, Left, StopsOf, IsStop
    <3> QED  BY <1>1, <2>1, <3>1 DEF IInv, Sound, Stops, Ordered, Holding, Serving, Working
  <2>5. Sound(s)'
    BY <1>1, <2>1, <2>3, <2>4, StaysSound DEF Canceling
  <2>6. \A t \in Sessions \ {s} : Kept(t)
    BY <1>6, <2>1, Claims DEF IInv, TypeOK, Stops, Kept
  <2> QED  BY <2>2, <2>5, <2>6, OthersAreSound DEF IInv, Bounded, Stops
<1> QED  BY <1>4, <1>5, <1>6 DEF Stops

\* The stop a visit is at.
LEMMA NextStop ==
  ASSUME IInv, NEW s \in Sessions, job[s].pc = "stop"
  PROVE  LET left == Left(s, StopsOf(s, job[s].ins)) IN
         /\ First(left) \in left
         /\ left \subseteq job[s].ins /\ job[s].ins \subseteq DOMAIN inbox[s]
         /\ \A i \in left : IsStop(inbox[s][i])
<1> DEFINE left == Left(s, StopsOf(s, job[s].ins))
<1>1. left # {} /\ job[s].ins \subseteq DOMAIN inbox[s]
  BY DEF IInv, Sound, Ordered
<1>2. left \subseteq job[s].ins /\ \A i \in left : IsStop(inbox[s][i])
  BY DEF Left, StopsOf
<1>3. left \subseteq Nat
  BY <1>1, <1>2, Inboxes
<1>4. First(left) \in left
  <2> HIDE DEF left
  <2> QED  BY <1>1, <1>3, FirstIsFirst
<1> QED  BY <1>1, <1>2, <1>4

\* Once it is acknowledged, the others are left.
LEMMA StopPasses ==
  ASSUME IInv, NEW s \in Sessions, job[s].pc = "stop",
         PassStop(s, First(Left(s, StopsOf(s, job[s].ins)))),
         UNCHANGED <<run, lease, access, workers, slots, leased>>
  PROVE  /\ job' \in [Sessions -> Job] /\ inbox' \in [Sessions -> Seq(Input)]
         /\ \A t \in Sessions : Len(inbox'[t]) <= MaxInputs
         /\ deferrals' \in [Sessions -> 0 .. MaxDeferrals - 1]
         /\ Bounded' /\ \A t \in Sessions : Sound(t)'
<1> DEFINE left == Left(s, StopsOf(s, job[s].ins))
           i == First(left)
<1>1. i \in left /\ left \subseteq job[s].ins /\ job[s].ins \subseteq DOMAIN inbox[s]
  BY NextStop
<1>2. PICK pc \in {"slot", "stop"} : Goto(s, pc) /\ (pc = "slot" <=> left = {i})
  BY DEF PassStop
<1>3. /\ job' \in [Sessions -> Job] /\ job'[s].pc = pc /\ job'[s].who = job[s].who
      /\ job'[s].ins = job[s].ins /\ \A t \in Sessions \ {s} : job'[t] = job[t]
  BY <1>2, Moves DEF Pcs
<1>4. inbox' = Marked(s, {i})
  BY DEF PassStop
<1>5. /\ inbox' \in [Sessions -> Seq(Input)] /\ \A t \in Sessions : Len(inbox'[t]) <= MaxInputs
      /\ \A t \in Sessions \ {s} : inbox'[t] = inbox[t]
      /\ DOMAIN inbox'[s] = DOMAIN inbox[s]
      /\ \A k \in DOMAIN inbox[s] : /\ inbox'[s][k].kind = inbox[s][k].kind
                                    /\ inbox'[s][k].done <=> inbox[s][k].done \/ k = i
  <2> DEFINE ids == {i}
  <2>1. inbox' = Marked(s, ids)
    BY <1>4
  <2>2. \A k : k \in ids <=> k = i
    OBVIOUS
  <2> HIDE DEF i, ids
  <2>3. /\ inbox' \in [Sessions -> Seq(Input)] /\ \A t \in Sessions : Len(inbox'[t]) <= MaxInputs
        /\ \A t \in Sessions \ {s} : inbox'[t] = inbox[t]
        /\ DOMAIN inbox'[s] = DOMAIN inbox[s]
        /\ \A k \in DOMAIN inbox[s] : /\ inbox'[s][k].kind = inbox[s][k].kind
                                      /\ inbox'[s][k].done <=> inbox[s][k].done \/ k \in ids
    BY <2>1, Marks
  <2> QED  BY <2>2, <2>3
<1>6. deferrals' \in [Sessions -> 0 .. MaxDeferrals - 1]
  BY AuthorityAssumption DEF IInv, TypeOK, PassStop
<1>7. Placed(s)' /\ Lasting(s)'
  <2>1. s \in workers => s \in slots /\ (Ended(s) => access # "full")
    BY DEF IInv, Sound, Placed, Lasting
  <2> QED  BY <1>2, <1>3, <2>1 DEF Placed, Lasting, Holding, Serving, Working, Ended
<1>8. Ordered(s)'
  <2>1. Left(s, StopsOf(s, job[s].ins))' = left \ {i}
    <3> HIDE DEF i
    <3> QED  BY <1>1, <1>3, <1>5 DEF Left, StopsOf, IsStop
  <2>2. pc = "slot" => Left(s, StopsOf(s, job[s].ins))' = {}
    BY <1>2, <2>1
  <2>3. pc = "stop" => Left(s, StopsOf(s, job[s].ins))' # {}
    BY <1>1, <1>2, <2>1
  <2>4. \A k \in DOMAIN inbox'[s] \ job[s].ins : ~inbox'[s][k].done => \A j \in job[s].ins : j < k
    BY <1>5 DEF IInv, Sound, Ordered
  <2> QED  BY <1>1, <1>2, <1>3, <1>5, <2>2, <2>3, <2>4 DEF Ordered, Holding, Serving, Working
<1>9. Sound(s)'
  BY <1>2, <1>3, <1>7, <1>8, StaysSound DEF Canceling
<1>10. \A t \in Sessions \ {s} : Kept(t)
  BY <1>3, <1>5 DEF Kept
<1> QED  BY <1>3, <1>5, <1>6, <1>9, <1>10, OthersAreSound DEF IInv, Bounded

LEMMA StopIInv == ASSUME IInv, NEW s \in Sessions, Stop(s) PROVE IInv'
<1> DEFINE i == First(Left(s, StopsOf(s, job[s].ins)))
<1>1. job[s].pc = "stop"
  BY DEF Stop, At
<1>2. i \in DOMAIN inbox[s] /\ IsStop(inbox[s][i])
  BY <1>1, NextStop
<1> HIDE DEF i
<1>3. CASE /\ run' = IF inbox[s][i].kind = "notice" THEN [run EXCEPT ![s] = Stopped(@)] ELSE run
           /\ StartCancel(s, Ended(s), {i}) /\ UNCHANGED <<inbox, deferrals>>
  <2>1. run[s] \in Run /\ Stopped(run[s]) \in Run
        /\ (Stopped(run[s]).state \in Terminal => Ended(s))
    <3>1. run[s] \in Run
      BY DEF IInv, TypeOK
    <3>2. Stopped(run[s]).state \in Terminal => Ended(s)
      BY <3>1 DEF Stopped, Run, Terminal, Ended
    <3> QED  BY <3>1, <3>2, Runs
  <2>2. /\ run' \in [Sessions -> Run] /\ (Ended(s)' => Ended(s))
        /\ \A t \in Sessions \ {s} : run'[t] = run[t]
    BY <1>3, <2>1, Rewrites DEF IInv, TypeOK, Ended
  <2>3. {i} \in SUBSET DOMAIN inbox[s] /\ Ended(s) \in BOOLEAN
    BY <1>2 DEF Ended
  <2>4. /\ job' \in [Sessions -> Job] /\ Sound(s)'
        /\ \A t \in Sessions \ {s} : job'[t] = job[t]
    BY <1>1, <1>2, <1>3, <2>2, <2>3, CancelIsSound DEF Stop
  <2>5. TypeOK'
    BY <1>3, <2>2, <2>4 DEF IInv, TypeOK, Stop, budget
  <2>6. \A t \in Sessions \ {s} : Kept(t)
    BY <1>3, <2>2, <2>4 DEF IInv, TypeOK, Stop, Kept
  <2> QED  BY <2>4, <2>5, <2>6, OthersAreSound DEF IInv, Bounded, Stop
<1>4. CASE PassStop(s, i) /\ UNCHANGED run
  BY <1>1, <1>4, StopPasses DEF i, Stop, IInv, TypeOK, budget
<1>5. CASE /\ DeferralCount(s) < MaxDeferrals
           /\ deferrals' = [deferrals EXCEPT ![s] = DeferralCount(s)]
           /\ Goto(s, "leave") /\ UNCHANGED <<inbox, run>>
  <2>1. job' \in [Sessions -> Job] /\ Bounded' /\ \A t \in Sessions : Sound(t)'
    BY <1>1, <1>5, GivesUp DEF Stop
  <2>2. deferrals' \in [Sessions -> 0 .. MaxDeferrals - 1]
    BY <1>5, AuthorityAssumption DEF IInv, TypeOK, DeferralCount
  <2> QED  BY <1>5, <2>1, <2>2 DEF IInv, TypeOK, Stop, budget
<1> QED  BY <1>3, <1>4, <1>5 DEF i, Stop

LEMMA SlotIInv == ASSUME IInv, NEW s \in Sessions, Slot(s) PROVE IInv'
<1>1. job[s].pc = "slot"
  BY DEF Slot, At
<1>2. CASE Goto(s, "leave") /\ UNCHANGED slots
  <2>1. job' \in [Sessions -> Job] /\ Bounded' /\ \A t \in Sessions : Sound(t)'
    BY <1>1, <1>2, GivesUp DEF Slot, durable
  <2> QED  BY <1>2, <2>1 DEF IInv, TypeOK, Slot, durable, budget
<1>3. CASE /\ SlotFree(s) /\ Goto(s, "lease")
           /\ slots' = IF s \in workers THEN slots ELSE slots \cup {s}
  <2>1. /\ job' \in [Sessions -> Job] /\ job'[s].pc = "lease" /\ job'[s].who = job[s].who
        /\ job'[s].ins = job[s].ins /\ \A t \in Sessions \ {s} : job'[t] = job[t]
    BY <1>3, Moves DEF Pcs
  <2>2. s \in workers => s \in slots /\ (Ended(s) => access # "full")
    BY <1>1 DEF IInv, Sound, Placed, Lasting
  <2>3. slots' = slots \cup {s}
    BY <1>3, <2>2
  <2>4. Bounded'
    <3>1. IsFiniteSet(slots) /\ Cardinality(slots) \in Nat /\ MaxWorkers \in Nat
      BY FS_CardinalityType, AuthorityAssumption DEF IInv, Bounded
    <3>2. s \in slots \/ Cardinality(slots) < MaxWorkers
      BY <1>3, <2>2 DEF SlotFree
    <3> QED  BY <2>3, <3>1, <3>2, FS_AddElement DEF IInv, Bounded
  <2>5. TypeOK'
    BY <2>1, <2>3 DEF IInv, TypeOK, Slot, durable, budget
  <2>6. Placed(s)' /\ Lasting(s)'
    BY <2>1, <2>2, <2>3 DEF Slot, durable, Placed, Lasting, Holding, Serving, Working, Ended
  <2>7. Ordered(s)'
    BY <1>1, <2>1, StaysOrdered DEF Slot, durable, Holding, Serving, Working
  <2>8. Sound(s)'
    BY <1>1, <2>1, <2>6, <2>7, StaysSound DEF Canceling
  <2>9. \A t \in Sessions \ {s} : Kept(t)
    BY <2>1, <2>3 DEF IInv, TypeOK, Slot, durable, Kept
  <2> QED  BY <2>4, <2>5, <2>8, <2>9, OthersAreSound DEF IInv
<1> QED  BY <1>2, <1>3 DEF Slot

LEMMA LeaseIInv == ASSUME IInv, NEW s \in Sessions, Lease(s) PROVE IInv'
<1>1. job[s].pc = "lease" /\ s \in slots
  BY DEF Lease, At, IInv, Sound, Placed, Holding
<1>2. CASE Goto(s, "leave") /\ UNCHANGED <<lease, leased>>
  <2>1. job' \in [Sessions -> Job] /\ Bounded' /\ \A t \in Sessions : Sound(t)'
    BY <1>1, <1>2, GivesUp DEF Lease
  <2> QED  BY <1>2, <2>1 DEF IInv, TypeOK, Lease, budget
<1>3. CASE /\ IF s \in workers THEN Fenced(s) ELSE Claimable(s)
           /\ lease' = [lease EXCEPT ![s] = Mine] /\ leased' = leased \cup {s}
           /\ Goto(s, "check")
  <2>1. /\ job' \in [Sessions -> Job] /\ job'[s].pc = "check" /\ job'[s].who = job[s].who
        /\ job'[s].ins = job[s].ins /\ \A t \in Sessions \ {s} : job'[t] = job[t]
    BY <1>3, Moves DEF Pcs
  <2>2. access = "full" => ~Ended(s)
    BY <1>1, <1>3 DEF IInv, Sound, Lasting, Claimable
  <2>3. TypeOK'
    <3>1. /\ leased' \subseteq Sessions
          /\ lease' \in [Sessions -> [owner : {"none", "me", "old"}, live : BOOLEAN]]
      BY <1>3, Claims
    <3> QED  BY <2>1, <3>1 DEF IInv, TypeOK, Lease, budget
  <2>4. Placed(s)' /\ Lasting(s)'
    BY <1>1, <2>1, <2>2 DEF Lease, Placed, Lasting, Holding, Serving, Working, Ended
  <2>5. Ordered(s)'
    BY <1>1, <2>1, StaysOrdered DEF Lease, Holding, Serving, Working
  <2>6. Sound(s)'
    BY <1>1, <2>1, <2>4, <2>5, StaysSound DEF Canceling
  <2>7. \A t \in Sessions \ {s} : Kept(t)
    BY <1>3, <2>1, Claims DEF IInv, TypeOK, Lease, Kept
  <2> QED  BY <2>3, <2>6, <2>7, OthersAreSound DEF IInv, Bounded, Lease
<1> QED  BY <1>2, <1>3 DEF Lease

LEMMA CheckIInv == ASSUME IInv, NEW s \in Sessions, Check(s) PROVE IInv'
<1>1. job[s].pc = "check" /\ s \in slots /\ (access = "full" => ~Ended(s))
  BY DEF Check, At, IInv, Sound, Placed, Lasting, Holding
<1>2. CASE StartCancel(s, Ended(s), {})
  <2>1. /\ job' \in [Sessions -> Job] /\ Sound(s)'
        /\ \A t \in Sessions \ {s} : job'[t] = job[t]
    <3>1. {} \in SUBSET DOMAIN inbox[s] /\ Ended(s) \in BOOLEAN /\ (Ended(s)' <=> Ended(s))
      BY DEF Check, durable, Ended
    <3> QED  BY <1>1, <1>2, <3>1, CancelIsSound DEF Check, durable
  <2>2. TypeOK'
    BY <2>1 DEF IInv, TypeOK, Check, durable, budget
  <2>3. \A t \in Sessions \ {s} : Kept(t)
    BY <2>1 DEF IInv, TypeOK, Check, durable, Kept
  <2> QED  BY <2>1, <2>2, <2>3, OthersAreSound DEF IInv, Bounded, Check
<1>3. ASSUME NEW resume \in BOOLEAN, resume => s \notin workers,
             job' = [job EXCEPT ![s] = [@ EXCEPT !.pc = "access", !.resume = resume]]
      PROVE  IInv'
  <2> DEFINE j == [job[s] EXCEPT !.pc = "access", !.resume = resume]
  <2>1. job[s] \in Job
    BY DEF IInv, TypeOK
  <2>2. j \in Job /\ j.pc = "access" /\ j.resume = resume /\ j.ins = job[s].ins /\ j.who = job[s].who
    BY <2>1 DEF Job, Pcs
  <2>3. /\ job' \in [Sessions -> Job] /\ job'[s] = j
        /\ \A t \in Sessions \ {s} : job'[t] = job[t]
    BY <1>3, <2>2 DEF IInv, TypeOK
  <2> HIDE DEF j
  <2>4. TypeOK'
    BY <2>3 DEF IInv, TypeOK, Check, durable, budget
  <2>5. Placed(s)' /\ Lasting(s)'
    BY <1>1, <1>3, <2>2, <2>3
       DEF Check, durable, Placed, Lasting, Holding, Serving, Working, Ended
  <2>6. Ordered(s)'
    BY <1>1, <2>2, <2>3, StaysOrdered DEF Check, durable, Holding, Serving, Working
  <2>7. Sound(s)'
    BY <1>1, <2>2, <2>3, <2>5, <2>6, StaysSound DEF Canceling
  <2>8. \A t \in Sessions \ {s} : Kept(t)
    BY <2>3 DEF IInv, TypeOK, Check, durable, Kept
  <2> QED  BY <2>4, <2>7, <2>8, OthersAreSound DEF IInv, Bounded, Check
<1>4. DEFINE resume == /\ \/ run[s].state \in {"orphaned", "starting", "running"}
                          \/ run[s].state = "waiting" /\ run[s].workspace
                       /\ s \notin workers
<1>5. resume \in BOOLEAN /\ (resume => s \notin workers)
  OBVIOUS
<1>6. CASE job' = [job EXCEPT ![s] = [@ EXCEPT !.pc = "access", !.resume = resume]]
  <2> HIDE DEF resume
  <2> QED  BY <1>3, <1>5, <1>6
<1> QED  BY <1>2, <1>6 DEF Check

\* A visit that ends the run of a session that lost its access.
LEMMA AccessIInv == ASSUME IInv, NEW s \in Sessions, Access(s) PROVE IInv'
<1> DEFINE outcome == IF access = "revoked" THEN "failed" ELSE "canceled"
<1>1. job[s].pc = "access" /\ s \in slots /\ (access = "full" => ~Ended(s))
      /\ (job[s].resume => s \notin workers)
  BY DEF Access, At, IInv, Sound, Placed, Lasting, Holding
<1>2. CASE /\ access # "full" /\ run' = [run EXCEPT ![s].state = outcome]
           /\ deferrals' = [deferrals EXCEPT ![s] = 0] /\ Goto(s, "leave")
  <2>1. /\ job' \in [Sessions -> Job] /\ job'[s].pc = "leave" /\ job'[s].who = job[s].who
        /\ \A t \in Sessions \ {s} : job'[t] = job[t]
    BY <1>2, Moves DEF Pcs
  <2>2. run[s] \in Run /\ outcome \in States
    BY DEF IInv, TypeOK, States
  <2>3. run' \in [Sessions -> Run] /\ \A t \in Sessions \ {s} : run'[t] = run[t]
    <3> DEFINE r == [run[s] EXCEPT !.state = outcome]
    <3>1. r \in Run
      BY <2>2, Runs
    <3>2. run' = [run EXCEPT ![s] = r]
      BY <1>2
    <3> HIDE DEF r
    <3> QED  BY <3>1, <3>2, Rewrites
  <2>4. deferrals' \in [Sessions -> 0 .. MaxDeferrals - 1]
    BY <1>2, AuthorityAssumption DEF IInv, TypeOK
  <2>5. TypeOK'
    BY <2>1, <2>3, <2>4 DEF IInv, TypeOK, Access, budget
  <2>6. job[s].who # "none"
    BY <1>1 DEF IInv, Sound, Resting
  <2>7. Sound(s)'
    BY <1>1, <1>2, <2>1, <2>6, LightIsSound DEF Access
  <2>8. \A t \in Sessions \ {s} : Kept(t)
    BY <2>1, <2>3 DEF IInv, TypeOK, Access, Kept
  <2> QED  BY <2>5, <2>7, <2>8, OthersAreSound DEF IInv, Bounded, Access
<1>3. ASSUME NEW pc \in {"fail", "leave"}, Goto(s, pc), UNCHANGED <<run, deferrals>>
      PROVE  IInv'
  <2>1. job' \in [Sessions -> Job] /\ Bounded' /\ \A t \in Sessions : Sound(t)'
    BY <1>1, <1>3, GivesUp DEF Access
  <2> QED  BY <1>3, <2>1 DEF IInv, TypeOK, Access, budget
<1>4. ASSUME NEW pc \in {"next", "resume"}, Goto(s, pc), access = "full", ~Exhausted(s),
             pc = "resume" => job[s].resume /\ job[s].ins = {}, UNCHANGED <<run, deferrals>>
      PROVE  IInv'
  <2>1. /\ job' \in [Sessions -> Job] /\ job'[s].pc = pc /\ job'[s].who = job[s].who
        /\ job'[s].ins = job[s].ins /\ \A t \in Sessions \ {s} : job'[t] = job[t]
    BY <1>4, Moves DEF Pcs
  <2>2. s \in workers \/ run[s].attempt < MaxAttempts
    BY <1>4, AuthorityAssumption DEF Exhausted, IInv, TypeOK, Run
  <2>3. TypeOK'
    BY <1>4, <2>1 DEF IInv, TypeOK, Access, budget
  <2>4. Placed(s)' /\ Lasting(s)'
    BY <1>1, <1>4, <2>1, <2>2
       DEF Access, Placed, Lasting, Holding, Serving, Working, Ended
  <2>5. Ordered(s)'
    BY <1>1, <1>4, <2>1, StaysOrdered DEF Access, Holding, Serving, Working
  <2>6. Sound(s)'
    BY <1>1, <2>1, <2>4, <2>5, StaysSound DEF Canceling
  <2>7. \A t \in Sessions \ {s} : Kept(t)
    BY <1>4, <2>1 DEF IInv, TypeOK, Access, Kept
  <2> QED  BY <2>3, <2>6, <2>7, OthersAreSound DEF IInv, Bounded, Access
<1> QED  BY <1>2, <1>3, <1>4 DEF Access

-----------------------------------------------------------------------------
(* Starting a worker, and giving it the inputs                             *)

\* A visit that goes on with a run that has not ended.
\* A worker that is given an input.
LEMMA Gives ==
  ASSUME IInv, NEW s \in Sessions, job[s].pc \in Serving, Given(s), inbox' = inbox,
         Left(s, ActionableOf(s, job[s].ins)) # {}
  PROVE  /\ job' \in [Sessions -> Job] /\ job'[s].pc = "mark" /\ job'[s].who = job[s].who
         /\ job'[s].ins = job[s].ins /\ \A t \in Sessions \ {s} : job'[t] = job[t]
         /\ Handed(s)'
<1> DEFINE left == Left(s, ActionableOf(s, job[s].ins))
           j == [job[s] EXCEPT !.pc = "mark", !.given = Current(s)]
<1>1. job[s] \in Job /\ job[s].ins \subseteq DOMAIN inbox[s]
  BY DEF IInv, TypeOK, Sound, Ordered, Holding, Serving, Working
<1>2. Current(s) \in 0 .. MaxInputs
  <2>1. left \subseteq job[s].ins /\ left \subseteq Nat
    BY <1>1, Inboxes DEF Left, ActionableOf
  <2>2. First(left) \in left
    <3> HIDE DEF left
    <3> QED  BY <2>1, FirstIsFirst DEF left
  <2>3. First(left) \in 1 .. MaxInputs
    BY <1>1, <2>1, <2>2, Inboxes
  <2> QED  BY <2>3 DEF Current
<1>3. PICK n \in 0 .. MaxInputs : n = Current(s)
  BY <1>2
<1>4. j \in Job /\ j.pc = "mark" /\ j.who = job[s].who /\ j.ins = job[s].ins /\ j.given = n
  BY <1>1, <1>3 DEF Job, Pcs
<1>5. job' = [job EXCEPT ![s] = j]
  BY DEF Given
<1> HIDE DEF j
<1>6. /\ job' \in [Sessions -> Job] /\ job'[s] = j
      /\ \A t \in Sessions \ {s} : job'[t] = job[t]
  BY <1>4, <1>5 DEF IInv, TypeOK
<1>7. Current(s)' = Current(s)
  BY <1>4, <1>6 DEF Current, Left, ActionableOf, IsStop
<1> QED  BY <1>3, <1>4, <1>6, <1>7 DEF Handed

\* A visit that goes on with its slot.
LEMMA Proceeds ==
  ASSUME IInv, NEW s \in Sessions, NEW pc \in Holding \ {"lease", "check", "access", "resume"},
         job' \in [Sessions -> Job], job'[s].pc = pc, job'[s].who = job[s].who,
         job'[s].ins = job[s].ins, \A t \in Sessions \ {s} : job'[t] = job[t],
         job[s].pc \in Holding, s \in slots, slots' = slots, inbox' = inbox, access' = access,
         lease' = lease, leased' = leased, workers' \in {workers, workers \cup {s}},
         pc \in Working => s \in workers', pc = "route" => s \notin workers',
         run' \in [Sessions -> Run], \A t \in Sessions \ {s} : run'[t] = run[t],
         run'[s].state \notin Terminal,
         pc \in {"next", "route"} => s \in workers' \/ run'[s].attempt < MaxAttempts,
         pc \in Serving => \/ job[s].pc \in Serving \/ job[s].ins = {}
                           \/ Left(s, ActionableOf(s, job[s].ins)) # {},
         pc \in {"deliver", "mark"} => Left(s, ActionableOf(s, job[s].ins)) # {},
         pc = "mark" => Handed(s)'
  PROVE  Bounded' /\ \A t \in Sessions : Sound(t)'
<1>1. Placed(s)'
  BY DEF Placed, Holding, Working
<1>2. Lasting(s)'
  BY DEF Lasting, Ended
<1>3. Ordered(s)'
  BY StaysOrdered
<1>4. Sound(s)'
  BY <1>1, <1>2, <1>3, StaysSound DEF Holding, Canceling
<1>5. \A t \in Sessions \ {s} : Kept(t)
  BY DEF Kept
<1> QED  BY <1>4, <1>5, OthersAreSound DEF IInv, Bounded

LEMMA GoesOn ==
  ASSUME IInv, NEW s \in Sessions,
         NEW pc \in Holding \ {"lease", "check", "access", "resume", "mark"}, Goto(s, pc),
         job[s].pc \in Holding, s \in slots, slots' = slots, inbox' = inbox, access' = access,
         lease' = lease, leased' = leased, workers' \in {workers, workers \cup {s}},
         pc \in Working => s \in workers', pc = "route" => s \notin workers',
         run' \in [Sessions -> Run], \A t \in Sessions \ {s} : run'[t] = run[t],
         run'[s].state \notin Terminal,
         pc \in {"next", "route"} => s \in workers' \/ run'[s].attempt < MaxAttempts,
         pc \in Serving => \/ job[s].pc \in Serving \/ job[s].ins = {}
                           \/ Left(s, ActionableOf(s, job[s].ins)) # {},
         pc = "deliver" => Left(s, ActionableOf(s, job[s].ins)) # {}
  PROVE  job' \in [Sessions -> Job] /\ Bounded' /\ \A t \in Sessions : Sound(t)'
<1>1. pc \in Pcs
  BY DEF Holding, Pcs
<1>2. /\ job' \in [Sessions -> Job] /\ job'[s].pc = pc /\ job'[s].who = job[s].who
      /\ job'[s].ins = job[s].ins /\ \A t \in Sessions \ {s} : job'[t] = job[t]
  BY <1>1, Moves
<1>3. pc # "mark" /\ pc \in Holding \ {"lease", "check", "access", "resume"}
  OBVIOUS
<1> QED  BY <1>2, <1>3, Proceeds

\* A visit that goes on to acknowledge an input.
LEMMA GoesToMark ==
  ASSUME IInv, NEW s \in Sessions, job[s].pc \in Working, s \in workers,
         Left(s, ActionableOf(s, job[s].ins)) # {},
         \/ Given(s)
         \/ Goto(s, "mark") /\ inbox[s][Current(s)].kind = "created",
         UNCHANGED <<slots, inbox, access, lease, leased, workers>>,
         run' \in [Sessions -> Run], \A t \in Sessions \ {s} : run'[t] = run[t],
         run'[s].state \notin Terminal
  PROVE  job' \in [Sessions -> Job] /\ Bounded' /\ \A t \in Sessions : Sound(t)'
<1>1. s \in slots /\ job[s].pc \in Holding /\ job[s].pc \in Serving
  BY DEF IInv, Sound, Placed, Holding, Working, Serving
<1>2. /\ job' \in [Sessions -> Job] /\ job'[s].pc = "mark" /\ job'[s].who = job[s].who
      /\ job'[s].ins = job[s].ins /\ \A t \in Sessions \ {s} : job'[t] = job[t]
      /\ Handed(s)'
  <2>1. CASE Given(s)
    BY <1>1, <2>1, Gives
  <2>2. CASE Goto(s, "mark") /\ inbox[s][Current(s)].kind = "created"
    <3>1. /\ job' \in [Sessions -> Job] /\ job'[s].pc = "mark" /\ job'[s].who = job[s].who
          /\ job'[s].ins = job[s].ins /\ \A t \in Sessions \ {s} : job'[t] = job[t]
      BY <2>2, Moves DEF Pcs
    <3>2. Current(s)' = Current(s)
      BY <3>1 DEF Current, Left, ActionableOf, IsStop
    <3> QED  BY <2>2, <3>1, <3>2 DEF Handed
  <2> QED  BY <2>1, <2>2
<1>3. "mark" \in Holding \ {"lease", "check", "access", "resume"}
  BY DEF Holding
<1> QED  BY <1>1, <1>2, <1>3, Proceeds DEF Working

\* The faults of a step that fails.
LEMMA Breaks ==
  ASSUME IInv, NEW s \in Sessions, Broken(s)
  PROVE  faults' \in 0 .. MaxFaults
BY AuthorityAssumption DEF IInv, TypeOK, Broken

\* What update writes to a run that goes on.
LEMMA Updates ==
  ASSUME IInv, NEW s \in Sessions, NEW x \in States \ Terminal, MayUpdate(s, x),
         NEW retry \in {0, run[s].retry},
         run' = [run EXCEPT ![s] = [run[s] EXCEPT !.state = x, !.retry = retry]]
  PROVE  /\ ~Ended(s) /\ run' \in [Sessions -> Run] /\ run'[s].state = x
         /\ run'[s].attempt = run[s].attempt
         /\ \A t \in Sessions \ {s} : run'[t] = run[t]
<1> DEFINE r == [run[s] EXCEPT !.state = x, !.retry = retry]
<1>1. run[s] \in Run /\ 0 \in 0 .. MaxInputs
  BY AuthorityAssumption DEF IInv, TypeOK
<1>2. r \in Run /\ r.state = x /\ r.attempt = run[s].attempt
  BY <1>1 DEF Run
<1>3. ~Ended(s)
  BY DEF MayUpdate, Ended
<1> HIDE DEF r
<1>4. run' = [run EXCEPT ![s] = r]
  BY DEF r
<1> QED  BY <1>2, <1>3, <1>4, Rewrites

LEMMA UpdatesState ==
  ASSUME IInv, NEW s \in Sessions, NEW x \in States \ Terminal, MayUpdate(s, x),
         run' = [run EXCEPT ![s].state = x]
  PROVE  /\ ~Ended(s) /\ run' \in [Sessions -> Run] /\ run'[s].state = x
         /\ run'[s].attempt = run[s].attempt
         /\ \A t \in Sessions \ {s} : run'[t] = run[t]
<1>1. run[s] \in Run
  BY DEF IInv, TypeOK
<1>2. [run[s] EXCEPT !.state = x] = [run[s] EXCEPT !.state = x, !.retry = run[s].retry]
  BY <1>1 DEF Run
<1>3. run' = [run EXCEPT ![s] = [run[s] EXCEPT !.state = x, !.retry = run[s].retry]]
  BY <1>2
<1> QED  BY <1>3, Updates

LEMMA ResumeIInv == ASSUME IInv, NEW s \in Sessions, Resume(s) PROVE IInv'
<1>1. /\ job[s].pc = "resume" /\ s \in slots /\ s \notin workers
      /\ run[s].attempt < MaxAttempts /\ ~Ended(s)
  BY DEF Resume, At, IInv, Sound, Placed, Lasting, Holding
<1>2. run[s] \in Run /\ Starting(run[s]) \in Run /\ Starting(run[s]).state = "starting"
  <2>1. run[s] \in Run
    BY DEF IInv, TypeOK
  <2> QED  BY <1>1, <2>1, Runs DEF Starting, Run
<1>3. CASE /\ run' = [run EXCEPT ![s] = Starting(@)]
           /\ Goto(s, IF run[s].workspace THEN "start" ELSE "fail") /\ UNCHANGED faults
  <2>1. run' \in [Sessions -> Run] /\ run'[s].state = "starting"
        /\ \A t \in Sessions \ {s} : run'[t] = run[t]
    BY <1>2, <1>3, Rewrites
  <2>2. job' \in [Sessions -> Job] /\ Bounded' /\ \A t \in Sessions : Sound(t)'
    <3>1. CASE Goto(s, "start")
      <4>1. job[s].ins = {}
        BY <1>1 DEF IInv, Sound, Ordered
      <4> QED  BY <1>1, <2>1, <3>1, <4>1, GoesOn DEF Resume, Holding, Working, Terminal
    <3>2. CASE Goto(s, "fail")
      <4>1. ~ Ended(s)'
        BY <2>1 DEF Ended, Terminal
      <4> QED  BY <1>1, <2>1, <3>2, <4>1, LeavesOff DEF Resume
    <3> QED  BY <1>3, <3>1, <3>2
  <2> QED  BY <1>3, <2>1, <2>2 DEF IInv, TypeOK, Resume
<1>4. CASE Broken(s) /\ Goto(s, "fail") /\ UNCHANGED run
  <2>1. job' \in [Sessions -> Job] /\ Bounded' /\ \A t \in Sessions : Sound(t)'
    BY <1>1, <1>4, GivesUp DEF Resume
  <2> QED  BY <1>4, <2>1, Breaks DEF IInv, TypeOK, Resume
<1> QED  BY <1>3, <1>4 DEF Resume

LEMMA NextInputIInv == ASSUME IInv, NEW s \in Sessions, NextInput(s) PROVE IInv'
<1> DEFINE left == Left(s, ActionableOf(s, job[s].ins))
<1>1. /\ job[s].pc = "next" /\ s \in slots /\ ~Ended(s)
      /\ s \in workers \/ run[s].attempt < MaxAttempts
      /\ job[s].ins \subseteq DOMAIN inbox[s]
  BY DEF NextInput, At, IInv, Sound, Placed, Lasting, Ordered, Holding
<1>2. left \subseteq job[s].ins
  BY DEF Left, ActionableOf
<1>3. CASE Goto(s, "leave")
  <2>1. job' \in [Sessions -> Job] /\ Bounded' /\ \A t \in Sessions : Sound(t)'
    BY <1>1, <1>3, GivesUp DEF NextInput, durable
  <2> QED  BY <1>3, <2>1 DEF IInv, TypeOK, NextInput, durable, budget
<1>4. CASE left # {} /\ run[s].desired = "canceled" /\ StartCancel(s, Ended(s), {First(left)})
  <2>1. First(left) \in DOMAIN inbox[s]
    <3>1. left \subseteq Nat
      BY <1>1, <1>2, Inboxes
    <3> HIDE DEF left
    <3> QED  BY <1>1, <1>2, <1>4, <3>1, FirstIsFirst
  <2>2. {First(left)} \in SUBSET DOMAIN inbox[s] /\ Ended(s) \in BOOLEAN /\ (Ended(s)' <=> Ended(s))
    BY <2>1 DEF NextInput, durable, Ended
  <2>3. run'[s].desired = "canceled" /\ run'[s].state \notin {"succeeded", "failed"}
    BY <1>1, <1>4 DEF NextInput, durable, Ended, Terminal
  <2>4. /\ job' \in [Sessions -> Job] /\ Sound(s)'
        /\ \A t \in Sessions \ {s} : job'[t] = job[t]
    <3> HIDE DEF left
    <3> QED  BY <1>1, <1>4, <2>2, <2>3, CancelIsSound DEF NextInput, durable
  <2>5. TypeOK'
    BY <2>4 DEF IInv, TypeOK, NextInput, durable, budget
  <2>6. \A t \in Sessions \ {s} : Kept(t)
    BY <2>4 DEF IInv, TypeOK, NextInput, durable, Kept
  <2> QED  BY <2>4, <2>5, <2>6, OthersAreSound DEF IInv, Bounded, NextInput
<1>5. CASE left # {} /\ Goto(s, IF s \in workers THEN "deliver" ELSE "route")
  <2>1. job' \in [Sessions -> Job] /\ Bounded' /\ \A t \in Sessions : Sound(t)'
    <3>1. run' \in [Sessions -> Run] /\ run'[s].state \notin Terminal /\ run' = run
      BY <1>1 DEF IInv, TypeOK, NextInput, durable, Ended
    <3>2. CASE s \in workers
      BY <1>1, <1>5, <3>1, <3>2, GoesOn DEF NextInput, durable, Holding, Working
    <3>3. CASE s \notin workers
      BY <1>1, <1>5, <3>1, <3>3, GoesOn DEF NextInput, durable, Holding, Working
    <3> QED  BY <3>2, <3>3
  <2> QED  BY <2>1 DEF IInv, TypeOK, NextInput, durable, budget
<1> QED  BY <1>3, <1>4, <1>5 DEF NextInput

LEMMA RouteIInv == ASSUME IInv, NEW s \in Sessions, Route(s) PROVE IInv'
<1>1. /\ job[s].pc = "route" /\ s \in slots /\ s \notin workers
      /\ run[s].attempt < MaxAttempts /\ ~Ended(s) /\ run[s] \in Run
  BY DEF Route, At, IInv, TypeOK, Sound, Placed, Lasting, Holding, Serving
<1>2. CASE run' = [run EXCEPT ![s] = Starting(@)] /\ Goto(s, "start") /\ UNCHANGED faults
  <2>1. Starting(run[s]) \in Run /\ Starting(run[s]).state = "starting"
    BY <1>1, Runs DEF Starting, Run
  <2>2. run' \in [Sessions -> Run] /\ run'[s].state = "starting"
        /\ \A t \in Sessions \ {s} : run'[t] = run[t]
    BY <1>2, <2>1, Rewrites
  <2>3. job' \in [Sessions -> Job] /\ Bounded' /\ \A t \in Sessions : Sound(t)'
    BY <1>1, <1>2, <2>2, GoesOn DEF Route, Holding, Serving, Working, Terminal
  <2> QED  BY <1>2, <2>2, <2>3 DEF IInv, TypeOK, Route
<1>3. CASE run' = [run EXCEPT ![s] = Attempted(@)] /\ Goto(s, "prepare") /\ UNCHANGED faults
  <2>1. Attempted(run[s]) \in Run /\ Attempted(run[s]).state = run[s].state
    <3>1. run[s].attempt + 1 \in 0 .. MaxAttempts /\ {0, MaxInputs} \subseteq 0 .. MaxInputs
      BY <1>1, AuthorityAssumption DEF Run
    <3> QED  BY <1>1, <3>1 DEF Run, Attempted
  <2>2. run' \in [Sessions -> Run] /\ run'[s].state \notin Terminal
        /\ \A t \in Sessions \ {s} : run'[t] = run[t]
    BY <1>1, <1>3, <2>1, Rewrites DEF Ended
  <2>3. job' \in [Sessions -> Job] /\ Bounded' /\ \A t \in Sessions : Sound(t)'
    BY <1>1, <1>3, <2>2, GoesOn DEF Route, Holding, Serving, Working
  <2> QED  BY <1>3, <2>2, <2>3 DEF IInv, TypeOK, Route
<1>4. CASE /\ MayUpdate(s, "waiting") /\ run' = [run EXCEPT ![s].state = "waiting"]
           /\ Goto(s, "leave") /\ UNCHANGED faults
  <2>1. run' \in [Sessions -> Run] /\ ~ Ended(s)' /\ \A t \in Sessions \ {s} : run'[t] = run[t]
    BY <1>4, UpdatesState DEF States, Terminal, Ended
  <2>2. job' \in [Sessions -> Job] /\ Bounded' /\ \A t \in Sessions : Sound(t)'
    BY <1>1, <1>4, <2>1, LeavesOff DEF Route
  <2> QED  BY <1>4, <2>1, <2>2 DEF IInv, TypeOK, Route
<1>5. CASE Broken(s) /\ Goto(s, "fail") /\ UNCHANGED run
  <2>1. job' \in [Sessions -> Job] /\ Bounded' /\ \A t \in Sessions : Sound(t)'
    BY <1>1, <1>5, GivesUp DEF Route
  <2> QED  BY <1>5, <2>1, Breaks DEF IInv, TypeOK, Route
<1> QED  BY <1>2, <1>3, <1>4, <1>5 DEF Route

LEMMA PrepareIInv == ASSUME IInv, NEW s \in Sessions, Prepare(s) PROVE IInv'
<1>1. job[s].pc = "prepare" /\ s \in slots /\ run[s] \in Run
  BY DEF Prepare, At, IInv, TypeOK, Sound, Placed, Holding
<1>2. CASE /\ MayUpdate(s, "starting") /\ Goto(s, "start") /\ UNCHANGED faults
           /\ run' = [run EXCEPT ![s] = [@ EXCEPT !.state = "starting", !.workspace = TRUE]]
  <2> DEFINE r == [run[s] EXCEPT !.state = "starting", !.workspace = TRUE]
  <2>1. r \in Run /\ r.state = "starting"
    BY <1>1 DEF Run, States
  <2>2. run' = [run EXCEPT ![s] = r]
    BY <1>2
  <2> HIDE DEF r
  <2>3. run' \in [Sessions -> Run] /\ run'[s].state = "starting"
        /\ \A t \in Sessions \ {s} : run'[t] = run[t]
    BY <2>1, <2>2, Rewrites
  <2>4. job' \in [Sessions -> Job] /\ Bounded' /\ \A t \in Sessions : Sound(t)'
    BY <1>1, <1>2, <2>3, GoesOn DEF Prepare, Holding, Serving, Working, Terminal
  <2> QED  BY <1>2, <2>3, <2>4 DEF IInv, TypeOK, Prepare
<1>3. CASE Broken(s) /\ Goto(s, "fail") /\ UNCHANGED run
  <2>1. job' \in [Sessions -> Job] /\ Bounded' /\ \A t \in Sessions : Sound(t)'
    BY <1>1, <1>3, GivesUp DEF Prepare
  <2> QED  BY <1>3, <2>1, Breaks DEF IInv, TypeOK, Prepare
<1> QED  BY <1>2, <1>3 DEF Prepare

LEMMA StartIInv == ASSUME IInv, NEW s \in Sessions, Start(s) PROVE IInv'
<1>1. job[s].pc = "start" /\ s \in slots /\ ~Ended(s)
  BY DEF Start, At, IInv, Sound, Placed, Lasting, Holding, Serving
<1>2. CASE workers' = workers \cup {s} /\ Goto(s, "ready") /\ UNCHANGED faults
  <2>1. run' = run /\ run \in [Sessions -> Run] /\ run'[s].state \notin Terminal
    BY <1>1 DEF IInv, TypeOK, Start, durable, Ended
  <2>2. job' \in [Sessions -> Job] /\ Bounded' /\ \A t \in Sessions : Sound(t)'
    BY <1>1, <1>2, <2>1, GoesOn DEF Start, durable, Holding, Serving, Working
  <2> QED  BY <1>2, <2>2 DEF IInv, TypeOK, Start, durable
<1>3. CASE Broken(s) /\ Goto(s, "fail") /\ UNCHANGED workers
  <2>1. job' \in [Sessions -> Job] /\ Bounded' /\ \A t \in Sessions : Sound(t)'
    BY <1>1, <1>3, GivesUp DEF Start, durable
  <2> QED  BY <1>3, <2>1, Breaks DEF IInv, TypeOK, Start, durable
<1> QED  BY <1>2, <1>3 DEF Start

LEMMA ReadyIInv == ASSUME IInv, NEW s \in Sessions, Ready(s) PROVE IInv'
<1>1. job[s].pc = "ready" /\ s \in slots /\ s \in workers
  BY DEF Ready, At, IInv, Sound, Placed, Holding, Working
<1>2. CASE /\ MayUpdate(s, "running") /\ run' = [run EXCEPT ![s].state = "running"]
           /\ Goto(s, "prompt") /\ UNCHANGED faults
  <2>1. run' \in [Sessions -> Run] /\ run'[s].state = "running"
        /\ \A t \in Sessions \ {s} : run'[t] = run[t]
    BY <1>2, UpdatesState DEF States, Terminal
  <2>2. job' \in [Sessions -> Job] /\ Bounded' /\ \A t \in Sessions : Sound(t)'
    BY <1>1, <1>2, <2>1, GoesOn DEF Ready, Holding, Serving, Working, Terminal
  <2> QED  BY <1>2, <2>1, <2>2 DEF IInv, TypeOK, Ready
<1>3. CASE Broken(s) /\ Goto(s, "fail") /\ UNCHANGED run
  <2>1. job' \in [Sessions -> Job] /\ Bounded' /\ \A t \in Sessions : Sound(t)'
    BY <1>1, <1>3, GivesUp DEF Ready
  <2> QED  BY <1>3, <2>1, Breaks DEF IInv, TypeOK, Ready
<1> QED  BY <1>2, <1>3 DEF Ready

LEMMA PromptIInv == ASSUME IInv, NEW s \in Sessions, Prompt(s) PROVE IInv'
<1>1. job[s].pc = "prompt" /\ s \in slots /\ s \in workers /\ ~Ended(s)
  BY DEF Prompt, At, IInv, Sound, Placed, Lasting, Holding, Working, Serving
<1>2. CASE Broken(s) /\ Goto(s, "fail") /\ UNCHANGED run
  <2>1. job' \in [Sessions -> Job] /\ Bounded' /\ \A t \in Sessions : Sound(t)'
    BY <1>1, <1>2, GivesUp DEF Prompt
  <2> QED  BY <1>2, <2>1, Breaks DEF IInv, TypeOK, Prompt
<1>3. ASSUME run' \in [Sessions -> Run], run'[s].state \notin Terminal,
             \A t \in Sessions \ {s} : run'[t] = run[t],
             Prompted(s), UNCHANGED faults
      PROVE  IInv'
  <2>1. job' \in [Sessions -> Job] /\ Bounded' /\ \A t \in Sessions : Sound(t)'
    <3>1. CASE Goto(s, "leave")
      BY <1>1, <1>3, <3>1, LeavesOff DEF Prompt, Ended
    <3>2. CASE job[s].ins # {} /\ Given(s)
      <4>1. Left(s, ActionableOf(s, job[s].ins)) # {}
        BY <1>1, <3>2 DEF IInv, Sound, Ordered, Serving, Working
      <4> QED  BY <1>1, <1>3, <3>2, <4>1, GoesToMark DEF Prompt, Working
    <3> QED  BY <1>3, <3>1, <3>2 DEF Prompted
  <2> QED  BY <1>3, <2>1 DEF IInv, TypeOK, Prompt
<1>4. CASE Prompted(s) /\ UNCHANGED <<run, faults>>
  <2>1. run' \in [Sessions -> Run] /\ run'[s].state \notin Terminal
    BY <1>1, <1>4 DEF IInv, TypeOK, Ended
  <2> QED  BY <1>3, <1>4, <2>1
<1>5. CASE /\ MayUpdate(s, "waiting") /\ Prompted(s) /\ UNCHANGED faults
           /\ run' = [run EXCEPT ![s] = [@ EXCEPT !.state = "waiting", !.retry = 0]]
  <2>1. run' \in [Sessions -> Run] /\ run'[s].state = "waiting"
        /\ \A t \in Sessions \ {s} : run'[t] = run[t]
    BY <1>5, Updates DEF States, Terminal
  <2> QED  BY <1>3, <1>5, <2>1 DEF Terminal
<1> QED  BY <1>2, <1>4, <1>5 DEF Prompt

\* What is passed over for a live worker is the creation of the session.
LEMMA DeliverIInv == ASSUME IInv, NEW s \in Sessions, Deliver(s) PROVE IInv'
<1>1. /\ job[s].pc = "deliver" /\ s \in slots /\ s \in workers /\ ~Ended(s)
      /\ job[s].ins \subseteq DOMAIN inbox[s]
      /\ Left(s, ActionableOf(s, job[s].ins)) # {}
  BY DEF Deliver, At, IInv, Sound, Placed, Lasting, Ordered, Holding, Working, Serving
<1>2. CASE Broken(s) /\ ui' \in {ui, ui \ {s}} /\ Goto(s, "fail") /\ UNCHANGED run
  <2>1. job' \in [Sessions -> Job] /\ Bounded' /\ \A t \in Sessions : Sound(t)'
    BY <1>1, <1>2, GivesUp DEF Deliver
  <2> QED  BY <1>2, <2>1, Breaks DEF IInv, TypeOK, Deliver
<1>3. ASSUME run' \in [Sessions -> Run], run'[s].state \notin Terminal,
             \A t \in Sessions \ {s} : run'[t] = run[t],
             \/ Given(s)
             \/ Goto(s, "mark") /\ inbox[s][Current(s)].kind = "created",
             ui' \in {ui, ui \ {s}}, UNCHANGED faults
      PROVE  IInv'
  <2>1. job' \in [Sessions -> Job] /\ Bounded' /\ \A t \in Sessions : Sound(t)'
    BY <1>1, <1>3, GoesToMark DEF Deliver, Working
  <2> QED  BY <1>3, <2>1 DEF IInv, TypeOK, Deliver
<1>4. CASE /\ inbox[s][Current(s)].kind # "prompted"
           /\ Goto(s, "mark") /\ UNCHANGED <<run, ui, faults>>
  <2>1. run' \in [Sessions -> Run] /\ run'[s].state \notin Terminal
    BY <1>1, <1>4 DEF IInv, TypeOK, Ended
  <2>2. Current(s) \in ActionableOf(s, job[s].ins) /\ Current(s) \in DOMAIN inbox[s]
    <3> DEFINE left == Left(s, ActionableOf(s, job[s].ins))
    <3>1. left \subseteq ActionableOf(s, job[s].ins) /\ left \subseteq DOMAIN inbox[s] /\ left \subseteq Nat
      BY <1>1, Inboxes DEF Left, ActionableOf
    <3>2. First(left) \in left
      <4> HIDE DEF left
      <4> QED  BY <1>1, <3>1, FirstIsFirst DEF left
    <3> QED  BY <3>1, <3>2 DEF Current
  <2>3. inbox[s][Current(s)].kind = "created"
    BY <1>4, <2>2, Inboxes DEF ActionableOf, IsStop, Input, Kinds
  <2> QED  BY <1>3, <1>4, <2>1, <2>3
<1>5. CASE /\ MayUpdate(s, "running") /\ run' = [run EXCEPT ![s].state = "running"]
           /\ ui' = ui \ {s} /\ Given(s) /\ UNCHANGED faults
  <2>1. run' \in [Sessions -> Run] /\ run'[s].state = "running"
        /\ \A t \in Sessions \ {s} : run'[t] = run[t]
    BY <1>5, UpdatesState DEF States, Terminal
  <2> QED  BY <1>3, <1>5, <2>1 DEF Terminal
<1> QED  BY <1>2, <1>4, <1>5 DEF Deliver

LEMMA MarkIInv == ASSUME IInv, NEW s \in Sessions, Mark(s) PROVE IInv'
<1> DEFINE ids == {Current(s)}
<1>1. job[s].pc = "mark" /\ s \in slots /\ s \in workers /\ ~Ended(s)
  BY DEF Mark, At, IInv, Sound, Placed, Lasting, Holding, Working, Serving
<1>2. /\ job' \in [Sessions -> Job] /\ job'[s].pc = "next" /\ job'[s].who = job[s].who
      /\ job'[s].ins = job[s].ins /\ \A t \in Sessions \ {s} : job'[t] = job[t]
  <2> DEFINE j == [job[s] EXCEPT !.pc = "next", !.given = 0]
  <2>1. job[s] \in Job /\ 0 \in 0 .. MaxInputs
    BY AuthorityAssumption DEF IInv, TypeOK
  <2>2. j \in Job /\ j.pc = "next" /\ j.who = job[s].who /\ j.ins = job[s].ins
    BY <2>1 DEF Job, Pcs
  <2>3. job' = [job EXCEPT ![s] = j]
    BY DEF Mark
  <2> HIDE DEF j
  <2> QED  BY <2>2, <2>3 DEF IInv, TypeOK
<1>3. inbox' = Marked(s, ids)
  BY DEF Mark
<1> HIDE DEF ids
<1>4. /\ inbox' \in [Sessions -> Seq(Input)] /\ \A t \in Sessions : Len(inbox'[t]) <= MaxInputs
      /\ DOMAIN inbox'[s] = DOMAIN inbox[s]
      /\ \A i \in DOMAIN inbox[s] :
              /\ inbox'[s][i].kind = inbox[s][i].kind
              /\ inbox[s][i].done => inbox'[s][i].done
      /\ \A t \in Sessions \ {s} : inbox'[t] = inbox[t]
  BY <1>3, Marks
<1>5. TypeOK'
  BY <1>2, <1>4 DEF IInv, TypeOK, Mark, budget
<1>6. Placed(s)' /\ Lasting(s)'
  BY <1>1, <1>2 DEF Mark, Placed, Lasting, Holding, Serving, Working, Ended
<1>7. Ordered(s)'
  <2>1. job[s].ins \subseteq DOMAIN inbox[s] /\ Left(s, StopsOf(s, job[s].ins)) = {}
    BY <1>1 DEF IInv, Sound, Ordered, Holding
  <2>2. Left(s, StopsOf(s, job[s].ins))' = {}
    BY <1>2, <1>4, <2>1 DEF Left, StopsOf, IsStop
  <2>3. \A i \in DOMAIN inbox'[s] \ job[s].ins :
              ~inbox'[s][i].done => \A j \in job[s].ins : j < i
    BY <1>1, <1>4 DEF IInv, Sound, Ordered, Holding
  <2> QED  BY <1>2, <1>4, <2>1, <2>2, <2>3 DEF Ordered, Holding, Serving, Working
<1>8. Sound(s)'
  BY <1>1, <1>2, <1>6, <1>7, StaysSound DEF Canceling
<1>9. \A t \in Sessions \ {s} : Kept(t)
  BY <1>2, <1>4 DEF IInv, TypeOK, Mark, Kept
<1> QED  BY <1>5, <1>8, <1>9, OthersAreSound DEF IInv, Bounded, Mark

-----------------------------------------------------------------------------
(* cancel and handleFailure                                                *)

\* A cancellation that goes on under the same inputs to acknowledge.
LEMMA CancelGoesOn ==
  ASSUME IInv, NEW s \in Sessions, job[s].pc \in Canceling, NEW pc \in {"canceled", "acks"},
         Goto(s, pc), inbox' = inbox, slots' = slots, access' = access,
         workers' \in {workers, workers \ {s}}, pc = "canceled" => s \notin workers',
         Ended(s)' => Ended(s) \/ s \notin workers',
         run'[s].desired = run[s].desired,
         run'[s].state \in {"succeeded", "failed"} => run'[s].state = run[s].state
  PROVE  job' \in [Sessions -> Job] /\ Sound(s)' /\ \A t \in Sessions \ {s} : job'[t] = job[t]
<1>1. pc \in Pcs
  BY DEF Pcs
<1>2. /\ job' \in [Sessions -> Job] /\ job'[s].pc = pc /\ job'[s].who = job[s].who
      /\ job'[s].acks = job[s].acks /\ \A t \in Sessions \ {s} : job'[t] = job[t]
  BY <1>1, Moves
<1>3. job[s].who # "none" /\ (s \in workers => s \in slots /\ (Ended(s) => access # "full"))
  BY DEF IInv, Sound, Resting, Placed, Lasting, Canceling
<1>4. Placed(s)' /\ Resting(s)' /\ Lasting(s)'
  BY <1>2, <1>3 DEF Placed, Resting, Lasting, Holding, Serving, Working
<1>5. Ordered(s)'
  BY <1>2 DEF Ordered, Holding, Serving, Working
<1>6. Honest(s)' /\ Handed(s)'
  BY <1>2 DEF IInv, Sound, Honest, Handed, Canceling, IsStop
<1> QED  BY <1>2, <1>4, <1>5, <1>6 DEF Sound

LEMMA CancelIInv == ASSUME IInv, NEW s \in Sessions, Cancel(s) PROVE IInv'
<1>1. job[s].pc = "cancel" /\ job[s].pc \in Canceling
  BY DEF Cancel, At, Canceling
<1>2. (Ended(s)' <=> Ended(s)) /\ run' = run
  BY DEF Cancel, Ended
<1>3. CASE /\ lease' = (IF job[s].ended THEN lease ELSE [lease EXCEPT ![s] = Mine])
           /\ leased' = (IF job[s].ended THEN leased ELSE leased \cup {s})
           /\ workers' = workers \ {s} /\ ui' = ui \ {s} /\ Goto(s, "canceled")
  <2>1. job' \in [Sessions -> Job] /\ Sound(s)' /\ \A t \in Sessions \ {s} : job'[t] = job[t]
    BY <1>1, <1>2, <1>3, CancelGoesOn DEF Cancel
  <2>2. /\ lease' \in [Sessions -> [owner : {"none", "me", "old"}, live : BOOLEAN]]
        /\ leased' \subseteq Sessions
        /\ \A t \in Sessions \ {s} : lease'[t] = lease[t] /\ (t \in leased' <=> t \in leased)
    <3>1. CASE job[s].ended
      BY <1>3, <3>1 DEF IInv, TypeOK
    <3>2. CASE ~job[s].ended
      BY <1>3, <3>2, Claims
    <3> QED  BY <3>1, <3>2
  <2>3. TypeOK'
    BY <1>3, <2>1, <2>2 DEF IInv, TypeOK, Cancel, budget
  <2>4. \A t \in Sessions \ {s} : Kept(t)
    BY <1>3, <2>1, <2>2 DEF Cancel, Kept
  <2> QED  BY <2>1, <2>3, <2>4, OthersAreSound DEF IInv, Bounded, Cancel
<1>4. CASE Goto(s, "acks") /\ UNCHANGED <<lease, leased, workers, ui>>
  <2>1. job' \in [Sessions -> Job] /\ Sound(s)' /\ \A t \in Sessions \ {s} : job'[t] = job[t]
    BY <1>1, <1>2, <1>4, CancelGoesOn DEF Cancel
  <2>2. TypeOK'
    BY <1>4, <2>1 DEF IInv, TypeOK, Cancel, budget
  <2>3. \A t \in Sessions \ {s} : Kept(t)
    BY <1>4, <2>1 DEF Cancel, Kept
  <2> QED  BY <2>1, <2>2, <2>3, OthersAreSound DEF IInv, Bounded, Cancel
<1> QED  BY <1>3, <1>4 DEF Cancel

LEMMA CanceledIInv == ASSUME IInv, NEW s \in Sessions, Canceled(s) PROVE IInv'
<1>1. job[s].pc = "canceled" /\ job[s].pc \in Canceling /\ s \notin workers
  BY DEF Canceled, At, Canceling, IInv, Sound, Placed
<1>2. CASE Goto(s, "acks") /\ UNCHANGED <<run, faults>>
  <2>1. job' \in [Sessions -> Job] /\ Sound(s)' /\ \A t \in Sessions \ {s} : job'[t] = job[t]
    BY <1>1, <1>2, CancelGoesOn DEF Canceled
  <2>2. TypeOK'
    BY <1>2, <2>1 DEF IInv, TypeOK, Canceled
  <2>3. \A t \in Sessions \ {s} : Kept(t)
    BY <1>2, <2>1 DEF Canceled, Kept
  <2> QED  BY <2>1, <2>2, <2>3, OthersAreSound DEF IInv, Bounded, Canceled
<1>3. CASE run' = [run EXCEPT ![s].state = "canceled"] /\ Goto(s, "acks") /\ UNCHANGED faults
  <2> DEFINE r == [run[s] EXCEPT !.state = "canceled"]
  <2>1. r \in Run /\ r.state = "canceled" /\ r.desired = run[s].desired
    BY DEF IInv, TypeOK, Run, States
  <2>2. run' = [run EXCEPT ![s] = r]
    BY <1>3
  <2> HIDE DEF r
  <2>3. run' \in [Sessions -> Run] /\ run'[s] = r /\ \A t \in Sessions \ {s} : run'[t] = run[t]
    BY <2>1, <2>2, Rewrites
  <2>4. job' \in [Sessions -> Job] /\ Sound(s)' /\ \A t \in Sessions \ {s} : job'[t] = job[t]
    BY <1>1, <1>3, <2>1, <2>3, CancelGoesOn DEF Canceled
  <2>5. TypeOK'
    BY <1>3, <2>3, <2>4 DEF IInv, TypeOK, Canceled
  <2>6. \A t \in Sessions \ {s} : Kept(t)
    BY <2>3, <2>4 DEF Canceled, Kept
  <2> QED  BY <2>4, <2>5, <2>6, OthersAreSound DEF IInv, Bounded, Canceled
<1>4. CASE Broken(s) /\ Goto(s, IF job[s].failing THEN "leave" ELSE "fail") /\ UNCHANGED run
  <2>1. job' \in [Sessions -> Job] /\ Bounded' /\ \A t \in Sessions : Sound(t)'
    <3>1. PICK pc \in {"leave", "fail"} : Goto(s, pc)
      BY <1>4
    <3> QED  BY <1>1, <1>4, <3>1, GivesUp DEF Canceled
  <2> QED  BY <1>4, <2>1, Breaks DEF IInv, TypeOK, Canceled
<1> QED  BY <1>2, <1>3, <1>4 DEF Canceled

LEMMA AcksIInv == ASSUME IInv, NEW s \in Sessions, Acks(s) PROVE IInv'
<1>1. job[s].pc = "acks"
  BY DEF Acks, At
<1>2. /\ job' \in [Sessions -> Job] /\ job'[s].pc = "leave" /\ job'[s].who = job[s].who
      /\ \A t \in Sessions \ {s} : job'[t] = job[t]
  BY Moves DEF Acks, Pcs
<1>3. /\ inbox' \in [Sessions -> Seq(Input)] /\ \A t \in Sessions : Len(inbox'[t]) <= MaxInputs
      /\ \A t \in Sessions \ {s} : inbox'[t] = inbox[t]
  <2>1. inbox' = Marked(s, job[s].acks)
    BY DEF Acks
  <2> QED  BY <2>1, Marks
<1>4. deferrals' \in [Sessions -> 0 .. MaxDeferrals - 1]
  BY AuthorityAssumption DEF IInv, TypeOK, Acks
<1>5. /\ slots' \subseteq Sessions /\ leased' \subseteq Sessions
      /\ lease' \in [Sessions -> [owner : {"none", "me", "old"}, live : BOOLEAN]]
      /\ Bounded' /\ (s \in workers' <=> s \in slots')
      /\ \A t \in Sessions \ {s} :
              /\ t \in slots' <=> t \in slots
              /\ t \in leased' <=> t \in leased
              /\ t \in workers' <=> t \in workers
              /\ lease'[t] = lease[t]
  BY Releases DEF Acks
<1>6. TypeOK'
  BY <1>2, <1>3, <1>4, <1>5 DEF IInv, TypeOK, Acks, budget
<1>7. job[s].who # "none" /\ (s \in workers /\ Ended(s) => access # "full")
  BY <1>1 DEF IInv, Sound, Resting, Lasting
<1>8. Sound(s)'
  BY <1>2, <1>5, <1>7, LightIsSound DEF Acks, Ended
<1>9. \A t \in Sessions \ {s} : Kept(t)
  BY <1>2, <1>3, <1>5 DEF Acks, Kept
<1> QED  BY <1>5, <1>6, <1>8, <1>9, OthersAreSound DEF IInv

LEMMA FailIInv == ASSUME IInv, NEW s \in Sessions, Fail(s) PROVE IInv'
<1> DEFINE j == [job[s] EXCEPT !.pc = "failed", !.failing = TRUE]
<1>1. job[s] \in Job /\ job[s].pc = "fail" /\ job[s].who # "none"
  BY DEF Fail, At, IInv, TypeOK, Sound, Resting
<1>2. j \in Job /\ j.pc = "failed" /\ j.who = job[s].who
  BY <1>1 DEF Job, Pcs
<1>3. /\ job' \in [Sessions -> Job] /\ job'[s] = j /\ \A t \in Sessions \ {s} : job'[t] = job[t]
  BY <1>2 DEF Fail, IInv, TypeOK
<1> HIDE DEF j
<1>4. TypeOK'
  BY <1>3 DEF IInv, TypeOK, Fail, durable, budget
<1>5. s \notin workers'
  BY DEF Fail
<1>6. Placed(s)' /\ Resting(s)' /\ Lasting(s)' /\ Ordered(s)' /\ Honest(s)' /\ Handed(s)'
  BY <1>1, <1>2, <1>3, <1>5 DEF Placed, Resting, Lasting, Ordered, Honest, Handed, Holding, Serving,
     Working, Canceling
<1>7. \A t \in Sessions \ {s} : Kept(t)
  BY <1>3 DEF Fail, durable, Kept
<1> QED  BY <1>4, <1>6, <1>7, OthersAreSound DEF IInv, Bounded, Sound, Fail

LEMMA Charges ==
  ASSUME IInv, NEW s \in Sessions
  PROVE  Charged(s) \in Run /\ Charged(s).state = run[s].state
<1>1. run[s] \in Run
  BY DEF IInv, TypeOK
<1>2. run[s].attempt < MaxAttempts => run[s].attempt + 1 \in 0 .. MaxAttempts
  BY <1>1, AuthorityAssumption DEF Run
<1> QED  BY <1>1, <1>2 DEF Charged, Run

LEMMA FailedIInv == ASSUME IInv, NEW s \in Sessions, Failed(s) PROVE IInv'
<1> DEFINE r == Charged(s)
<1>1. job[s].pc = "failed" /\ s \notin workers
  BY DEF Failed, At, IInv, Sound, Placed
<1>2. r \in Run /\ r.state = run[s].state
  BY Charges
<1> HIDE DEF r
<1>3. CASE Goto(s, "leave") /\ UNCHANGED <<run, deferrals>>
  <2>1. job' \in [Sessions -> Job] /\ Bounded' /\ \A t \in Sessions : Sound(t)'
    BY <1>1, <1>3, GivesUp DEF Failed
  <2> QED  BY <1>3, <2>1 DEF IInv, TypeOK, Failed, budget
<1>4. CASE run' = [run EXCEPT ![s] = r] /\ StartCancel(s, FALSE, {}) /\ UNCHANGED deferrals
  <2>1. /\ run' \in [Sessions -> Run] /\ run'[s].state = run[s].state
        /\ \A t \in Sessions \ {s} : run'[t] = run[t]
    BY <1>2, <1>4, Rewrites
  <2>2. {} \in SUBSET DOMAIN inbox[s] /\ (Ended(s)' => Ended(s))
    BY <2>1 DEF Ended
  <2>3. job' \in [Sessions -> Job] /\ Sound(s)' /\ \A t \in Sessions \ {s} : job'[t] = job[t]
    BY <1>1, <1>4, <2>2, CancelIsSound DEF Failed
  <2>4. TypeOK'
    BY <1>4, <2>1, <2>3 DEF IInv, TypeOK, Failed, budget
  <2>5. \A t \in Sessions \ {s} : Kept(t)
    BY <2>1, <2>3 DEF Failed, Kept
  <2> QED  BY <2>3, <2>4, <2>5, OthersAreSound DEF IInv, Bounded, Failed
<1>5. ASSUME NEW x \in {"failed", "orphaned"}, NEW retry \in 0 .. MaxInputs, Goto(s, "leave"),
             run' = [run EXCEPT ![s] = [r EXCEPT !.state = x, !.retry = retry]],
             deferrals' \in {deferrals, [deferrals EXCEPT ![s] = 0]}
      PROVE  IInv'
  <2> DEFINE q == [r EXCEPT !.state = x, !.retry = retry]
  <2>1. q \in Run
    BY <1>2 DEF Run, States
  <2>2. run' = [run EXCEPT ![s] = q]
    BY <1>5
  <2> HIDE DEF q
  <2>3. run' \in [Sessions -> Run] /\ \A t \in Sessions \ {s} : run'[t] = run[t]
    BY <2>1, <2>2, Rewrites
  <2>4. /\ job' \in [Sessions -> Job] /\ job'[s].pc = "leave" /\ job'[s].who = job[s].who
        /\ \A t \in Sessions \ {s} : job'[t] = job[t]
    BY <1>5, Moves DEF Pcs
  <2>5. deferrals' \in [Sessions -> 0 .. MaxDeferrals - 1]
    <3>1. deferrals \in [Sessions -> 0 .. MaxDeferrals - 1] /\ 0 \in 0 .. MaxDeferrals - 1
      BY AuthorityAssumption DEF IInv, TypeOK
    <3> QED  BY <1>5, <3>1
  <2>6. TypeOK'
    BY <2>3, <2>4, <2>5 DEF IInv, TypeOK, Failed, budget
  <2>7. job[s].who # "none"
    BY <1>1 DEF IInv, Sound, Resting
  <2>8. Sound(s)'
    BY <1>1, <2>4, <2>7, LightIsSound DEF Failed
  <2>9. \A t \in Sessions \ {s} : Kept(t)
    BY <2>3, <2>4 DEF Failed, Kept
  <2> QED  BY <2>6, <2>8, <2>9, OthersAreSound DEF IInv, Bounded, Failed
<1>6. CASE /\ run' = [run EXCEPT ![s] = [r EXCEPT !.state = "failed", !.retry = 0]]
           /\ deferrals' = [deferrals EXCEPT ![s] = 0] /\ Goto(s, "leave")
  <2>1. 0 \in 0 .. MaxInputs
    BY AuthorityAssumption
  <2> QED  BY <1>5, <1>6, <2>1
<1>7. CASE /\ run' = [run EXCEPT ![s] = [r EXCEPT !.state = "orphaned", !.retry = Len(inbox[s])]]
           /\ Goto(s, "leave") /\ UNCHANGED deferrals
  <2>1. Len(inbox[s]) \in 0 .. MaxInputs
    BY AuthorityAssumption DEF IInv, TypeOK
  <2> QED  BY <1>5, <1>7, <2>1
<1> QED  BY <1>3, <1>4, <1>6, <1>7 DEF r, Failed

-----------------------------------------------------------------------------
(* The events                                                              *)

LEMMA HandleEndIInv == ASSUME IInv, NEW s \in Sessions, HandleEnd(s) PROVE IInv'
<1>1. job[s].pc = "end" /\ job[s].who # "none" /\ (s \in workers => s \in slots)
  BY DEF HandleEnd, At, IInv, Sound, Resting, Placed
<1>2. CASE /\ run' = [run EXCEPT ![s] = [@ EXCEPT !.state = "succeeded", !.retry = 0]]
           /\ Goto(s, "finish")
  <2> DEFINE r == [run[s] EXCEPT !.state = "succeeded", !.retry = 0]
  <2>1. r \in Run
    <3>1. 0 \in 0 .. MaxInputs /\ run[s] \in Run
      BY AuthorityAssumption DEF IInv, TypeOK
    <3> QED  BY <3>1 DEF Run, States
  <2>2. run' = [run EXCEPT ![s] = r]
    BY <1>2
  <2> HIDE DEF r
  <2>3. run' \in [Sessions -> Run] /\ \A t \in Sessions \ {s} : run'[t] = run[t]
    BY <2>1, <2>2, Rewrites
  <2>4. /\ job' \in [Sessions -> Job] /\ job'[s].pc = "finish" /\ job'[s].who = job[s].who
        /\ \A t \in Sessions \ {s} : job'[t] = job[t]
    BY <1>2, Moves DEF Pcs
  <2>5. TypeOK'
    BY <2>3, <2>4 DEF IInv, TypeOK, HandleEnd, budget
  <2>6. Sound(s)'
    BY <1>1, <2>4, LightIsSound DEF HandleEnd
  <2>7. \A t \in Sessions \ {s} : Kept(t)
    BY <2>3, <2>4 DEF HandleEnd, Kept
  <2> QED  BY <2>5, <2>6, <2>7, OthersAreSound DEF IInv, Bounded, HandleEnd
<1>3. CASE Goto(s, "fail") /\ UNCHANGED run
  <2>1. job' \in [Sessions -> Job] /\ Bounded' /\ \A t \in Sessions : Sound(t)'
    BY <1>1, <1>3, GivesUp DEF HandleEnd
  <2> QED  BY <1>3, <2>1 DEF IInv, TypeOK, HandleEnd, budget
<1> QED  BY <1>2, <1>3 DEF HandleEnd

LEMMA FinishIInv == ASSUME IInv, NEW s \in Sessions, Finish(s) PROVE IInv'
<1>1. job[s].who # "none"
  BY DEF Finish, At, IInv, Sound, Resting
<1>2. /\ job' \in [Sessions -> Job] /\ job'[s].pc = "leave" /\ job'[s].who = job[s].who
      /\ \A t \in Sessions \ {s} : job'[t] = job[t]
  BY Moves DEF Finish, Pcs
<1>3. deferrals' \in [Sessions -> 0 .. MaxDeferrals - 1]
  BY AuthorityAssumption DEF IInv, TypeOK, Finish
<1>4. TypeOK'
  BY <1>2, <1>3 DEF IInv, TypeOK, Finish, durable, budget
<1>5. Sound(s)'
  BY <1>1, <1>2, LightIsSound DEF Finish
<1>6. \A t \in Sessions \ {s} : Kept(t)
  BY <1>2 DEF Finish, durable, Kept
<1> QED  BY <1>4, <1>5, <1>6, OthersAreSound DEF IInv, Bounded, Finish

LEMMA HandleWaitIInv == ASSUME IInv, NEW s \in Sessions, HandleWait(s) PROVE IInv'
<1>1. job[s].pc \in {"ask", "local"}
  BY DEF HandleWait, At
<1>2. ui' \subseteq Sessions
  BY DEF HandleWait, IInv, TypeOK
<1>3. CASE /\ MayUpdate(s, "waiting") /\ Goto(s, "leave")
           /\ run' = [run EXCEPT ![s] = [@ EXCEPT !.state = "waiting",
                             !.retry = IF job[s].pc = "ask" THEN run[s].retry ELSE 0]]
  <2> DEFINE retry == IF job[s].pc = "ask" THEN run[s].retry ELSE 0
  <2>1. /\ retry \in {0, run[s].retry} /\ "waiting" \in States \ Terminal
        /\ run' = [run EXCEPT ![s] = [run[s] EXCEPT !.state = "waiting", !.retry = retry]]
    BY <1>3 DEF States, Terminal
  <2> HIDE DEF retry
  <2>2. run' \in [Sessions -> Run] /\ run'[s].state = "waiting"
        /\ \A t \in Sessions \ {s} : run'[t] = run[t]
    BY <1>3, <2>1, Updates
  <2>3. job' \in [Sessions -> Job] /\ Bounded' /\ \A t \in Sessions : Sound(t)'
    <3>1. ~ Ended(s)'
      BY <2>2 DEF Ended, Terminal
    <3> QED  BY <1>1, <1>3, <2>2, <3>1, LeavesOff DEF HandleWait
  <2> QED  BY <1>2, <2>2, <2>3 DEF IInv, TypeOK, HandleWait, budget
<1>4. CASE Goto(s, "fail") /\ UNCHANGED run
  <2>1. job' \in [Sessions -> Job] /\ Bounded' /\ \A t \in Sessions : Sound(t)'
    BY <1>1, <1>4, GivesUp DEF HandleWait
  <2> QED  BY <1>2, <1>4, <2>1 DEF IInv, TypeOK, HandleWait, budget
<1> QED  BY <1>3, <1>4 DEF HandleWait

LEMMA HandleErrorIInv == ASSUME IInv, NEW s \in Sessions, HandleError(s) PROVE IInv'
<1>1. job' \in [Sessions -> Job] /\ Bounded' /\ \A t \in Sessions : Sound(t)'
  BY GivesUp DEF HandleError, At, durable
<1> QED  BY <1>1 DEF IInv, TypeOK, HandleError, durable, budget

-----------------------------------------------------------------------------
(* The invariant                                                           *)

LEMMA Initially == Init => IInv
<1> SUFFICES ASSUME Init PROVE IInv
  OBVIOUS
<1>1. 0 \in 0 .. MaxAttempts /\ 0 \in 0 .. MaxInputs /\ 0 \in 0 .. MaxDeferrals - 1
  BY AuthorityAssumption
<1>2. NoJob \in Job /\ NoJob.pc = "none" /\ NoJob.who = "none" /\ NoRun \in Run /\ NoRun.state = "absent"
  BY <1>1 DEF Job, NoJob, NoInit, Snapshot, Pcs, NoRun, Run, States
<1>3. TypeOK
  <2>1. job \in [Sessions -> Job] /\ run \in [Sessions -> Run]
    BY <1>2 DEF Init
  <2>2. lease \in [Sessions -> [owner : {"none", "me", "old"}, live : BOOLEAN]]
    BY DEF Init, NoLease
  <2>3. /\ inbox \in [Sessions -> Seq(Input)] /\ \A s \in Sessions : Len(inbox[s]) <= MaxInputs
        /\ gate \in [Sessions -> Seq({"tick", "event", "loss"})]
    BY AuthorityAssumption DEF Init
  <2>4. event \in [Sessions -> Events \cup {"none"}] /\ deferrals \in [Sessions -> 0 .. MaxDeferrals - 1]
    BY <1>1 DEF Init
  <2>5. /\ faults \in 0 .. MaxFaults /\ stalls \in 0 .. MaxStalls
        /\ crashes \in 0 .. MaxCrashes /\ denials \in 0 .. MaxDenials
    BY AuthorityAssumption DEF Init
  <2> QED  BY <2>1, <2>2, <2>3, <2>4, <2>5 DEF Init, TypeOK
<1>4. Bounded
  BY FS_EmptySet, AuthorityAssumption DEF Init, Bounded
<1>5. ASSUME NEW s \in Sessions PROVE Sound(s)
  BY <1>2 DEF Init, NoLease, Sound, Placed, Resting, Lasting, Ordered, Honest, Handed, Holding, Serving,
     Working, Canceling
<1> QED  BY <1>3, <1>4, <1>5 DEF IInv

LEMMA StepIInv == ASSUME IInv, NEW s \in Sessions, Step(s) PROVE IInv'
<1>1. CASE Read(s) \/ Inputs(s) \/ Reopen(s) \/ Stops(s) \/ Stop(s) \/ Slot(s) \/ Lease(s)
  BY <1>1, ReadIInv, InputsIInv, ReopenIInv, StopsIInv, StopIInv, SlotIInv, LeaseIInv
<1>2. CASE Check(s) \/ Access(s) \/ Resume(s) \/ NextInput(s) \/ Route(s)
  BY <1>2, CheckIInv, AccessIInv, ResumeIInv, NextInputIInv, RouteIInv
<1>3. CASE Prepare(s) \/ Start(s) \/ Ready(s) \/ Prompt(s) \/ Deliver(s) \/ Mark(s)
  BY <1>3, PrepareIInv, StartIInv, ReadyIInv, PromptIInv, DeliverIInv, MarkIInv
<1>4. CASE Cancel(s) \/ Canceled(s) \/ Acks(s) \/ Fail(s) \/ Failed(s)
  BY <1>4, CancelIInv, CanceledIInv, AcksIInv, FailIInv, FailedIInv
<1>5. CASE HandleEnd(s) \/ Finish(s) \/ HandleWait(s) \/ HandleError(s) \/ Leave(s)
  BY <1>5, HandleEndIInv, FinishIInv, HandleWaitIInv, HandleErrorIInv, LeaveIInv
<1> QED  BY <1>1, <1>2, <1>3, <1>4, <1>5 DEF Step

LEMMA NextIInv == IInv /\ [Next]_vars => IInv'
<1> SUFFICES ASSUME IInv, [Next]_vars PROVE IInv'
  OBVIOUS
<1>1. CASE Sweep \/ Deny \/ Crash \/ Boot
  BY <1>1, SweepIInv, DenyIInv, CrashIInv, BootIInv
<1>2. ASSUME NEW s \in Sessions, Session(s) PROVE IInv'
  <2>1. CASE Visit(s) \/ Step(s) \/ Emit(s) \/ HandleEvent(s)
    BY <2>1, VisitIInv, StepIInv, EmitIInv, HandleEventIInv
  <2>2. CASE LeaseExpires(s) \/ RenewFails(s) \/ CleanUp(s) \/ RetryDue(s)
    BY <2>2, LeaseExpiresIInv, RenewFailsIInv, CleanUpIInv, RetryDueIInv
  <2>3. CASE Enqueue(s) \/ CatchUp(s)
    BY <2>3, EnqueueIInv, CatchUpIInv
  <2> QED  BY <1>2, <2>1, <2>2, <2>3 DEF Session
<1>3. CASE UNCHANGED vars
  <2>1. TypeOK' /\ slots' = slots
    BY <1>3 DEF vars, durable, budget, IInv, TypeOK
  <2>2. \A t \in Sessions : Kept(t)
    BY <1>3 DEF vars, Kept
  <2> QED  BY <2>1, <2>2, QuietIsSound
<1> QED  BY <1>1, <1>2, <1>3 DEF Next

\* The inductive invariant holds throughout.
THEOREM Invariance == Spec => []IInv
<1> QED  BY Initially, NextIInv, PTL DEF Spec

\* Whatever the sessions, the failures and the crashes, the state has its types:
\* among the rest no run is given more than maxAttempts attempts.
THEOREM TypeCorrect == Spec => []TypeOK
<1>1. IInv => TypeOK
  BY DEF IInv
<1> QED  BY <1>1, Invariance, PTL

\* processSession, cancel, handleFailure and the consumer of events never run more
\* workers than config.maxConcurrentWorkers, each on a slot of its own.
THEOREM WorkersAreBounded == Spec => []SlotsBounded
<1>1. IInv => SlotsBounded
  BY DEF IInv, TypeOK, Bounded, SlotsBounded, Sound, Placed
<1> QED  BY <1>1, Invariance, PTL

\* No path through a visit, a cancellation or a failure leaks a slot or a lease.
THEOREM LeavesNothingBehind == Spec => []NothingLeaked
<1>1. IInv => NothingLeaked
  BY DEF IInv, NothingLeaked, Quiet, Sound, Placed, Resting
<1> QED  BY <1>1, Invariance, PTL

\* While a worker is given an input, every earlier stop has been dealt with.
THEOREM StopsComeFirst == Spec => []StopDominates
<1>1. ASSUME IInv, NEW s \in Sessions,
             job[s].pc \in {"start", "ready", "prompt", "deliver", "mark"}, job[s].ins # {},
             NEW i \in 1 .. Current(s) - 1, IsStop(inbox[s][i])
      PROVE  inbox[s][i].done
  <2> DEFINE left == Left(s, ActionableOf(s, job[s].ins))
  <2>1. /\ left # {} /\ job[s].ins \subseteq DOMAIN inbox[s]
        /\ Left(s, StopsOf(s, job[s].ins)) = {}
        /\ \A k \in DOMAIN inbox[s] \ job[s].ins :
              ~inbox[s][k].done => \A j \in job[s].ins : j < k
    BY <1>1 DEF IInv, Sound, Ordered, Holding, Serving, Working
  <2>2. left \subseteq job[s].ins
    BY DEF Left, ActionableOf
  <2>3. Current(s) \in left
    <3>1. left \subseteq Nat
      BY <1>1, <2>1, <2>2, Inboxes
    <3>2. Current(s) = First(left)
      BY DEF Current
    <3> HIDE DEF left
    <3> QED  BY <2>1, <3>1, <3>2, FirstIsFirst
  <2>4. Current(s) \in job[s].ins /\ Current(s) \in DOMAIN inbox[s]
    BY <2>1, <2>2, <2>3
  <2>5. i \in DOMAIN inbox[s] /\ i < Current(s) /\ i \in Nat /\ Current(s) \in Nat
    BY <1>1, <2>4, Inboxes
  <2>6. CASE i \in job[s].ins
    BY <1>1, <2>1, <2>6 DEF Left, StopsOf
  <2>7. CASE i \notin job[s].ins
    BY <2>1, <2>4, <2>5, <2>7
  <2> QED  BY <2>6, <2>7
<1>2. IInv => StopDominates
  BY <1>1 DEF StopDominates
<1> QED  BY <1>2, Invariance, PTL

-----------------------------------------------------------------------------
(* What a step may never do                                                *)

\* A visit takes only a lease that it may claim, and gives back only its own.
LEMMA StepRespects ==
  ASSUME IInv, NEW t \in Sessions, Step(t), NEW s \in Sessions,
         lease[s] = [owner |-> "old", live |-> TRUE]
  PROVE  lease'[s].owner = "old"
<1>1. lease[s].owner = "old" /\ lease[s].live = TRUE /\ ~Claimable(s) /\ ~Fenced(s)
  BY DEF Claimable, Fenced
<1>2. CASE lease' = lease
  BY <1>1, <1>2
<1>3. CASE (Claimable(t) \/ Fenced(t)) /\ lease' = [lease EXCEPT ![t] = Mine]
  BY <1>1, <1>3 DEF IInv, TypeOK
<1>4. CASE Released(t)
  BY <1>1, <1>4 DEF Released, IInv, TypeOK
<1>5. CASE Read(t) \/ Inputs(t) \/ Reopen(t) \/ Stop(t) \/ Slot(t) \/ Check(t) \/ Access(t) \/ Resume(t)
  BY <1>2, <1>5 DEF Read, Inputs, Reopen, Stop, Slot, Check, Access, Resume, durable
<1>6. CASE NextInput(t) \/ Route(t) \/ Prepare(t) \/ Start(t) \/ Ready(t) \/ Prompt(t) \/ Deliver(t) \/ Mark(t)
  BY <1>2, <1>6 DEF NextInput, Route, Prepare, Start, Ready, Prompt, Deliver, Mark, durable
<1>7. CASE Canceled(t) \/ Fail(t) \/ Failed(t) \/ HandleEnd(t) \/ Finish(t) \/ HandleWait(t) \/ HandleError(t)
  BY <1>2, <1>7 DEF Canceled, Fail, Failed, HandleEnd, Finish, HandleWait, HandleError, durable
<1>8. CASE Stops(t) \/ Lease(t) \/ Cancel(t)
  BY <1>2, <1>3, <1>8 DEF Stops, Lease, Cancel
<1>9. CASE Acks(t) \/ Leave(t)
  BY <1>4, <1>9 DEF Acks, Leave
<1> QED  BY <1>5, <1>6, <1>7, <1>8, <1>9 DEF Step

\* Neither a visit nor recovery takes the lease of an incarnation that may still be alive.
THEOREM LeasesAreRespected == Spec => LeaseRespected
<1>1. ASSUME IInv, Next, NEW s \in Sessions, lease[s] = [owner |-> "old", live |-> TRUE]
      PROVE  lease'[s].owner = "old"
  <2>1. CASE lease' = lease
    BY <1>1, <2>1
  <2>2. CASE Crash
    BY <1>1, <2>2 DEF Crash
  <2>3. CASE Boot
    BY <1>1, <2>3 DEF Boot
  <2>4. ASSUME NEW t \in Sessions, Session(t) PROVE lease'[s].owner = "old"
    <3>1. CASE Step(t)
      BY <1>1, <3>1, StepRespects
    <3>2. CASE Visit(t) \/ Emit(t) \/ RenewFails(t) \/ RetryDue(t) \/ Enqueue(t) \/ CatchUp(t)
      BY <2>1, <3>2 DEF Visit, Emit, RenewFails, RetryDue, Enqueue, CatchUp, durable
    <3>3. CASE HandleEvent(t) \/ CleanUp(t)
      <4>1. CASE Released(t)
        <5>1. CASE lease' = [lease EXCEPT ![t] = NoLease] /\ lease[t].owner = "me"
          BY <1>1, <5>1 DEF IInv, TypeOK
        <5> QED  BY <2>1, <4>1, <5>1 DEF Released
      <4> QED  BY <2>1, <3>3, <4>1 DEF HandleEvent, CleanUp
    <3>4. CASE LeaseExpires(t)
      BY <1>1, <3>4 DEF LeaseExpires, IInv, TypeOK
    <3> QED  BY <2>4, <3>1, <3>2, <3>3, <3>4 DEF Session
  <2>5. CASE Sweep \/ Deny
    BY <2>1, <2>5 DEF Sweep, Deny, durable
  <2> QED  BY <1>1, <2>2, <2>3, <2>4, <2>5 DEF Next
<1>2. IInv /\ [Next]_vars =>
        [\A s \in Sessions : lease[s] = [owner |-> "old", live |-> TRUE] => lease'[s].owner = "old"]_vars
  BY <1>1
<1> QED  BY <1>2, Invariance, PTL DEF Spec, LeaseRespected

\* A visit, a failure or an event writes no run that has ended, unless to reopen
\* it for an input that waits.
LEMMA StepKeepsOutcome ==
  ASSUME IInv, NEW t \in Sessions, Step(t), NEW s \in Sessions, Ended(s),
         run'[s].state # run[s].state
  PROVE  /\ run'[s].state = "queued"
         /\ \E i \in DOMAIN inbox'[s] : ~IsStop(inbox'[s][i]) /\ ~inbox'[s][i].done
<1>1. run[t] \in Run /\ run \in [Sessions -> Run]
  BY DEF IInv, TypeOK
<1>2. run' # run
  BY <1>1
<1>3. ASSUME NEW x, NEW r, MayUpdate(t, x), r.state = x, run' = [run EXCEPT ![t] = r]
      PROVE  FALSE
  BY <1>1, <1>3 DEF MayUpdate
<1>4. CASE Reopen(t)
  <2>1. /\ run' = [run EXCEPT ![t] = Requeued(@)] /\ inbox' = inbox
        /\ ActionableOf(t, job[t].ins) # {} /\ job[t].ins \subseteq DOMAIN inbox[t]
        /\ \A i \in job[t].ins : ~inbox[t][i].done
    BY <1>2, <1>4 DEF Reopen, At, IInv, Sound, Ordered
  <2>2. t = s
    BY <1>1, <2>1
  <2>3. run'[s].state = "queued"
    BY <1>1, <2>1, <2>2 DEF Requeued, Run
  <2> QED  BY <2>1, <2>2, <2>3 DEF ActionableOf, IsStop
<1>5. CASE Stop(t)
  <2>1. run' = [run EXCEPT ![t] = Stopped(@)]
    BY <1>2, <1>5 DEF Stop
  <2> QED  BY <1>1, <2>1 DEF Stopped, Ended, Terminal, Run
<1>6. CASE Failed(t)
  <2>1. PICK r \in Run : run' = [run EXCEPT ![t] = r] /\ (~Ended(t) \/ r.state = run[t].state)
    <3>1. ~Ended(t) /\ Charged(t) \in Run
      BY <1>2, <1>6, Charges DEF Failed
    <3>2. run'[s] = run[s]
      BY <1>1, <1>6, <3>1 DEF Failed
    <3> QED  BY <3>2
  <2> QED  BY <1>1, <2>1
<1>7. ASSUME NEW x, MayUpdate(t, x), run' = [run EXCEPT ![t].state = x]
      PROVE  FALSE
  <2> DEFINE r == [run[t] EXCEPT !.state = x]
  <2>1. r.state = x /\ run' = [run EXCEPT ![t] = r]
    BY <1>1, <1>7 DEF Run
  <2> HIDE DEF r
  <2> QED  BY <1>3, <1>7, <2>1
<1>8. ASSUME NEW x, NEW retry, MayUpdate(t, x),
             run' = [run EXCEPT ![t] = [run[t] EXCEPT !.state = x, !.retry = retry]]
      PROVE  FALSE
  <2> DEFINE r == [run[t] EXCEPT !.state = x, !.retry = retry]
  <2>1. r.state = x /\ run' = [run EXCEPT ![t] = r]
    BY <1>1, <1>8 DEF Run
  <2> HIDE DEF r
  <2> QED  BY <1>3, <1>8, <2>1
<1>9. ~ (Access(t) \/ Ready(t) \/ Deliver(t) \/ Canceled(t))
  BY <1>2, <1>7 DEF Access, Ready, Deliver, Canceled
<1>10. ~ (Prompt(t) \/ HandleEnd(t) \/ HandleWait(t))
  BY <1>2, <1>8 DEF Prompt, HandleEnd, HandleWait
<1>11. ~ Resume(t)
  <2>1. Starting(run[t]).state = "starting"
    BY <1>1 DEF Starting, Run
  <2> QED  BY <1>2, <1>3, <2>1 DEF Resume
<1>12. ~ Route(t)
  <2>1. Starting(run[t]).state = "starting" /\ Attempted(run[t]).state = run[t].state
    BY <1>1 DEF Starting, Attempted, Run
  <2>2. run' # [run EXCEPT ![t] = Attempted(@)]
    BY <1>1, <2>1
  <2> QED  BY <1>2, <1>3, <1>7, <2>1, <2>2 DEF Route
<1>15. ~ Prepare(t)
  <2> DEFINE r == [run[t] EXCEPT !.state = "starting", !.workspace = TRUE]
  <2>1. r.state = "starting"
    BY <1>1 DEF Run
  <2>2. run' = [run EXCEPT ![t] = r] => ~MayUpdate(t, "starting")
    <3> HIDE DEF r
    <3> QED  BY <1>3, <2>1
  <2> QED  BY <1>2, <2>2 DEF Prepare
<1>13. ~ (Read(t) \/ Inputs(t) \/ Stops(t) \/ Slot(t) \/ Lease(t) \/ Check(t) \/ NextInput(t) \/ Start(t) \/ Mark(t))
  BY <1>2 DEF Read, Inputs, Stops, Slot, Lease, Check, NextInput, Start, Mark, durable
<1>14. ~ (Cancel(t) \/ Acks(t) \/ Fail(t) \/ Finish(t) \/ HandleError(t) \/ Leave(t))
  BY <1>2 DEF Cancel, Acks, Fail, Finish, HandleError, Leave, durable
<1> QED  BY <1>4, <1>5, <1>6, <1>9, <1>13, <1>14, <1>10, <1>11, <1>12, <1>15 DEF Step

\* What a user sends revives a run that succeeded or failed, and waits to be worked on.
LEMMA EnqueuedKeepsOutcome ==
  ASSUME IInv, NEW t \in Sessions, NEW kind \in Kinds, Enqueued(t, kind), NEW s \in Sessions,
         Ended(s), run'[s].state # run[s].state
  PROVE  /\ run'[s].state = "queued"
         /\ \E i \in DOMAIN inbox'[s] : ~IsStop(inbox'[s][i]) /\ ~inbox'[s][i].done
<1>1. run \in [Sessions -> Run] /\ run[s] \in Run /\ inbox[s] \in Seq(Input)
  BY DEF IInv, TypeOK
<1>2. t = s
  BY <1>1 DEF Enqueued
<1>3. run[s].state # "absent"
  BY DEF Ended, Terminal
<1>4. run'[s] = CASE kind = "stop" -> Stopped(run[s])
                  [] kind = "notice" -> run[s]
                  [] OTHER -> IF run[s].state \in {"succeeded", "failed"}
                                THEN Requeued(run[s]) ELSE run[s]
  BY <1>1, <1>2, <1>3 DEF Enqueued
<1>5. kind \notin {"stop", "notice"} /\ run'[s] = Requeued(run[s])
  BY <1>1, <1>4 DEF Stopped, Ended, Terminal, Run
<1>6. run'[s].state = "queued"
  BY <1>1, <1>5 DEF Requeued, Run
<1> DEFINE n == Len(inbox[s]) + 1
<1>7. n \in DOMAIN inbox'[s] /\ inbox'[s][n] = [kind |-> kind, done |-> FALSE]
  BY <1>1, <1>2 DEF Enqueued, IInv, TypeOK
<1> QED  BY <1>5, <1>6, <1>7 DEF IsStop

\* An outcome is final for late events, retries, cleanups and recovery.
THEOREM OutcomesAreFinal == Spec => OutcomeIsFinal
<1>1. ASSUME IInv, Next, NEW s \in Sessions, Ended(s), run'[s].state # run[s].state
      PROVE  /\ run'[s].state = "queued"
             /\ \E i \in DOMAIN inbox'[s] : ~IsStop(inbox'[s][i]) /\ ~inbox'[s][i].done
  <2>1. run \in [Sessions -> Run] /\ run[s] \in Run /\ run' # run
    BY <1>1 DEF IInv, TypeOK
  <2>2. ~ (Sweep \/ Crash)
    BY <2>1 DEF Sweep, Crash, durable
  <2>3. ~ Deny
    BY <1>1, <2>1 DEF Deny, Ended
  <2>4. ~ Boot
    BY <1>1, <2>1 DEF Boot, Ended
  <2>5. ASSUME NEW t \in Sessions, Session(t)
        PROVE  Step(t) \/ \E kind \in Kinds : Enqueued(t, kind)
    <3>1. ~ (Visit(t) \/ Emit(t) \/ RenewFails(t) \/ HandleEvent(t) \/ CleanUp(t) \/ LeaseExpires(t))
      BY <2>1 DEF Visit, Emit, RenewFails, HandleEvent, CleanUp, LeaseExpires, durable
    <3>2. ~ RetryDue(t)
      BY <1>1, <2>1 DEF RetryDue, Run
    <3>3. Enqueue(t) \/ CatchUp(t) => \E kind \in Kinds : Enqueued(t, kind)
      BY DEF Enqueue, CatchUp, Kinds
    <3> QED  BY <2>5, <3>1, <3>2, <3>3 DEF Session
  <2> QED  BY <1>1, <2>2, <2>3, <2>4, <2>5, StepKeepsOutcome, EnqueuedKeepsOutcome DEF Next
<1>2. IInv /\ [Next]_vars =>
        [\A s \in Sessions :
           Ended(s) /\ run'[s].state # run[s].state =>
             /\ run'[s].state = "queued"
             /\ \E i \in DOMAIN inbox'[s] : ~IsStop(inbox'[s][i]) /\ ~inbox'[s][i].done]_vars
  BY <1>1
<1> QED  BY <1>2, Invariance, PTL DEF Spec, OutcomeIsFinal

\* An input of the user is acknowledged only after this very input was handed to
\* the worker, which still lives, or for a run the user has stopped; the input of
\* the session's creation also when it finds a worker.
THEOREM PromptsReachWorkers == Spec => PromptReachesWorker
<1>1. ASSUME IInv, Next, NEW s \in Sessions, NEW i \in DOMAIN inbox[s],
             ~IsStop(inbox[s][i]), ~inbox[s][i].done, inbox'[s][i].done
      PROVE  \/ s \in workers /\ job[s].given = i
             \/ s \in workers /\ inbox[s][i].kind = "created"
             \/ run[s].desired = "canceled"
  <2>1. inbox' # inbox
    BY <1>1
  <2>2. ~ (Sweep \/ Deny \/ Crash \/ Boot)
    BY <2>1 DEF Sweep, Deny, Crash, Boot, durable
  <2>3. ASSUME NEW t \in Sessions, Session(t)
        PROVE  Stop(t) \/ Mark(t) \/ Acks(t) \/ \E kind \in Kinds : Enqueued(t, kind)
    <3>1. ~ (Visit(t) \/ Emit(t) \/ RenewFails(t) \/ HandleEvent(t) \/ CleanUp(t)
               \/ LeaseExpires(t) \/ RetryDue(t))
      BY <2>1 DEF Visit, Emit, RenewFails, HandleEvent, CleanUp, LeaseExpires, RetryDue, durable
    <3>2. Enqueue(t) \/ CatchUp(t) => \E kind \in Kinds : Enqueued(t, kind)
      BY DEF Enqueue, CatchUp, Kinds
    <3>3. ~ (Read(t) \/ Inputs(t) \/ Reopen(t) \/ Stops(t) \/ Slot(t) \/ Lease(t) \/ Check(t) \/ Access(t) \/ Resume(t))
      BY <2>1 DEF Read, Inputs, Reopen, Stops, Slot, Lease, Check, Access, Resume, durable
    <3>4. ~ (NextInput(t) \/ Route(t) \/ Prepare(t) \/ Start(t) \/ Ready(t) \/ Prompt(t) \/ Deliver(t))
      BY <2>1 DEF NextInput, Route, Prepare, Start, Ready, Prompt, Deliver, durable
    <3>5. ~ (Cancel(t) \/ Canceled(t) \/ Fail(t) \/ Failed(t) \/ Leave(t))
      BY <2>1 DEF Cancel, Canceled, Fail, Failed, Leave, durable
    <3>6. ~ (HandleEnd(t) \/ Finish(t) \/ HandleWait(t) \/ HandleError(t))
      BY <2>1 DEF HandleEnd, Finish, HandleWait, HandleError, durable
    <3> QED  BY <2>3, <3>1, <3>2, <3>3, <3>4, <3>5, <3>6 DEF Session, Step
  <2>4. ASSUME NEW t \in Sessions, NEW ids, inbox' = Marked(t, ids) PROVE t = s /\ i \in ids
    BY <1>1, <2>4, Marks
  <2>5. ASSUME NEW t \in Sessions, NEW kind \in Kinds, Enqueued(t, kind) PROVE FALSE
    <3>1. inbox[s] \in Seq(Input)
      BY <1>1 DEF IInv, TypeOK
    <3>2. inbox'[s][i] = inbox[s][i]
      BY <1>1, <2>5, <3>1 DEF Enqueued, IInv, TypeOK
    <3> QED  BY <1>1, <3>2
  <2>6. ASSUME NEW t \in Sessions, Mark(t)
        PROVE  s \in workers /\ (job[s].given = i \/ inbox[s][i].kind = "created")
    <3>1. t \in workers /\ (job[t].given = Current(t) \/ inbox[t][Current(t)].kind = "created")
      BY <1>1, <2>6 DEF Mark, At, IInv, Sound, Placed, Working, Handed
    <3>2. t = s /\ i \in {Current(t)}
      BY <2>4, <2>6 DEF Mark
    <3> QED  BY <3>1, <3>2
  <2>7. ASSUME NEW t \in Sessions, Acks(t) PROVE run[s].desired = "canceled"
    <3>1. t = s /\ i \in job[s].acks
      BY <2>4, <2>7 DEF Acks
    <3> QED  BY <1>1, <2>7, <3>1 DEF Acks, At, IInv, Sound, Honest, Canceling
  <2>8. ASSUME NEW t \in Sessions, Stop(t) PROVE FALSE
    <3> DEFINE k == First(Left(t, StopsOf(t, job[t].ins)))
    <3>1. IsStop(inbox[t][k])
      BY <1>1, <2>8, NextStop DEF Stop, At
    <3>2. inbox' = Marked(t, {k})
      BY <2>1, <2>8 DEF Stop, PassStop
    <3>3. t = s /\ i = k
      <4> HIDE DEF k
      <4> QED  BY <2>4, <3>2
    <3> QED  BY <1>1, <3>1, <3>3
  <2> QED  BY <1>1, <2>2, <2>3, <2>5, <2>6, <2>7, <2>8 DEF Next
<1>2. IInv /\ [Next]_vars =>
        [\A s \in Sessions : \A i \in DOMAIN inbox[s] :
           /\ ~IsStop(inbox[s][i])
           /\ ~inbox[s][i].done /\ inbox'[s][i].done
           => \/ s \in workers /\ job[s].given = i
              \/ s \in workers /\ inbox[s][i].kind = "created"
              \/ run[s].desired = "canceled"]_vars
  BY <1>1
<1> QED  BY <1>2, Invariance, PTL DEF Spec, PromptReachesWorker

=============================================================================
