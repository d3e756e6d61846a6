---------------------------- MODULE OutboxProofs ----------------------------
(***************************************************************************)
(* Proofs about Outbox, for any keys, contents and callers and any bounds: *)
(* it implements ActivityFeed, and repeats a post only for a cause.        *)
(***************************************************************************)
EXTENDS Outbox, TLAPS

\* The fibers that have claimed their key, rightly or by now wrongly.
Holding == {"check", "send", "again", "complete", "fail"}

\* A key has contents from the moment it is accepted, and keys are dispatched
\* only after that.
Known ==
    /\ \A k \in Keys : row[k].status = "absent" <=> row[k].payload = None
    /\ \A k \in todo : row[k].payload # None
    /\ \A f \in Fibers :
         /\ job[f].pc # "idle" => job[f].key \in Keys
         /\ job[f].pc = "enqueue" => f \in Callers /\ job[f].payload \in Payloads
         /\ job[f].pc \in Holding \cup {"claim"} => row[job[f].key].payload # None

\* A fiber dispatches the contents that were accepted, and completes a key that
\* was posted, or a comment.
Faithful ==
    \A f \in Fibers :
        /\ job[f].pc \in Holding => job[f].payload = row[job[f].key].payload
        /\ job[f].pc = "complete" =>
             sent[job[f].key] # << >> \/ job[f].key \in Comments

\* As long as no lease has expired under a fiber, a claimed key has one holder,
\* whose claim is live.
Exclusive ==
    stalls = 0 =>
        /\ \A f \in Fibers :
             job[f].pc \in Holding =>
                 /\ row[job[f].key].status = "processing"
                 /\ row[job[f].key].owner = "me"
                 /\ row[job[f].key].live
        /\ \A f, g \in Fibers :
             /\ job[f].pc \in Holding /\ job[g].pc \in Holding
             /\ job[f].key = job[g].key
             => f = g

\* The post that needs no cause: the one that completes the key.
Posted(k) ==
    \/ row[k].status = "completed"
    \/ \E f \in Fibers : job[f].pc = "complete" /\ job[f].key = k

Counted ==
    stalls = 0 =>
        \A k \in Keys :
            /\ Len(sent[k]) <= 1 + faults + crashes
            /\ ~Posted(k) => Len(sent[k]) <= faults + crashes

\* The inductive invariant.
IInv == TypeOK /\ Known /\ Faithful /\ Exclusive /\ Counted

-----------------------------------------------------------------------------
\* The initial state satisfies the inductive invariant.
LEMMA InitIInv == Init => IInv
<1> SUFFICES ASSUME Init PROVE IInv
  OBVIOUS
<1>1. /\ NoRow \in Row /\ NoRow.status = "absent" /\ NoRow.payload = None
      /\ Idle \in Job /\ Idle.pc = "idle"
      /\ << >> \in Seq(Payloads) /\ Len(<< >>) = 0
  BY DEF NoRow, Row, Idle, Job
<1>2. TypeOK
  <2>1. /\ 0 \in 0 .. MaxCalls /\ 0 \in 0 .. MaxFaults
        /\ 0 \in 0 .. MaxStalls /\ 0 \in 0 .. MaxCrashes
    BY OutboxAssumption
  <2>2. row \in [Keys -> Row]
    BY <1>1 DEF Init
  <2>3. \A k \in Keys : row[k].status = "processing" <=> row[k].owner # "none"
    BY DEF Init, NoRow
  <2>4. job \in [Fibers -> Job]
    BY <1>1 DEF Init
  <2>5. sent \in [Keys -> Seq(Payloads)]
    BY <1>1 DEF Init
  <2> QED BY <2>1, <2>2, <2>3, <2>4, <2>5 DEF Init, TypeOK
<1>3. Known /\ Faithful /\ Exclusive
  BY <1>1 DEF Init, Known, Faithful, Exclusive, Holding
<1>4. Counted
  <2>1. \A k \in Keys : sent[k] = << >> /\ Len(sent[k]) = 0
    BY <1>1 DEF Init
  <2>2. faults = 0 /\ crashes = 0
    BY DEF Init
  <2>3. 0 <= 1 + 0 + 0 /\ 0 <= 0 + 0
    OBVIOUS
  <2> QED BY <2>1, <2>2, <2>3 DEF Counted
<1> QED BY <1>2, <1>3, <1>4 DEF IInv

\* Replacing one dispatch keeps the dispatches well typed.
LEMMA JobType ==
    ASSUME TypeOK, NEW f \in Fibers, NEW e \in Job
    PROVE  [job EXCEPT ![f] = e] \in [Fibers -> Job]
  BY DEF TypeOK

\* Replacing one row keeps the outbox well typed.
LEMMA RowType ==
    ASSUME TypeOK, NEW k \in Keys, NEW e \in Row
    PROVE  [row EXCEPT ![k] = e] \in [Keys -> Row]
  BY DEF TypeOK

\* A dispatch that returns leaves the others as they are.
LEMMA Leaves ==
    ASSUME TypeOK, NEW f \in Fibers, Done(f) \/ Broken(f)
    PROVE  /\ job' \in [Fibers -> Job]
           /\ job'[f] = Idle /\ Idle.pc = "idle" /\ Idle.key = None
           /\ \A g \in Fibers : g # f => job'[g] = job[g]
           /\ todo' \subseteq todo
<1>1. Idle \in Job
  BY DEF Idle, Job
<1>2. job' = [job EXCEPT ![f] = Idle]
  BY DEF Done, Broken
<1>3. job' \in [Fibers -> Job]
  BY <1>1, <1>2, JobType
<1> QED BY <1>2, <1>3 DEF Done, Broken, Idle, TypeOK

\* A dispatch that goes on keeps its key and its contents.
LEMMA Moves ==
    ASSUME TypeOK, NEW f \in Fibers, NEW pc \in Holding \cup {"claim"}, Goto(f, pc)
    PROVE  /\ job' \in [Fibers -> Job]
           /\ job'[f].pc = pc /\ job'[f].key = job[f].key
           /\ job'[f].payload = job[f].payload
           /\ \A g \in Fibers : g # f => job'[g] = job[g]
<1>1. job[f] \in Job
  BY DEF TypeOK
<1>2. [job[f] EXCEPT !.pc = pc] \in Job
  BY <1>1 DEF Job, Holding
<1>3. job' = [job EXCEPT ![f] = [job[f] EXCEPT !.pc = pc]]
  BY DEF Goto
<1>4. job' \in [Fibers -> Job]
  BY <1>2, <1>3, JobType
<1> QED BY <1>1, <1>3, <1>4 DEF TypeOK, Job

-----------------------------------------------------------------------------
LEMMA CallIInv == ASSUME IInv, NEW c \in Callers, Call(c) PROVE IInv'
<1>i. IInv
  OBVIOUS
<1>f. c \in Fibers /\ None \notin Payloads
  BY OutboxAssumption DEF Fibers
<1>1. PICK k \in Keys, p \in Payloads :
        job' = [job EXCEPT ![c] = [pc |-> "enqueue", key |-> k, payload |-> p]]
  BY DEF Call
<1>2. TypeOK'
  <2>1. [pc |-> "enqueue", key |-> k, payload |-> p] \in Job
    BY DEF Job
  <2>2. job' \in [Fibers -> Job]
    BY <1>i, <1>f, <1>1, <2>1, JobType DEF IInv
  <2> QED BY <1>i, <2>2, OutboxAssumption DEF IInv, TypeOK, Call
<1>3. \A g \in Fibers : g # c => job'[g] = job[g]
  BY <1>i, <1>1 DEF IInv, TypeOK
<1>4. job'[c] = [pc |-> "enqueue", key |-> k, payload |-> p]
  BY <1>i, <1>f, <1>1 DEF IInv, TypeOK
<1>5. Known'
  BY <1>i, <1>3, <1>4 DEF IInv, Known, Call, Holding
<1>6. Faithful' /\ Exclusive'
  BY <1>i, <1>3, <1>4 DEF IInv, Faithful, Exclusive, Call, Holding
<1>7. Counted'
  BY <1>i, <1>3, <1>4 DEF IInv, Counted, Posted, Call, At
<1> QED BY <1>2, <1>5, <1>6, <1>7 DEF IInv

\* A dispatch that returns before it has posted anything disturbs nothing.
LEMMA Returns ==
    ASSUME IInv, NEW f \in Fibers, Done(f), job[f].pc # "complete",
           UNCHANGED <<row, activity, sent, canceled, calls, faults, stalls, crashes>>
    PROVE  IInv'
<1>i. TypeOK /\ Known /\ Faithful /\ Exclusive /\ Counted
  BY DEF IInv
<1>j. /\ job' \in [Fibers -> Job]
      /\ job'[f].pc = "idle"
      /\ \A g \in Fibers : g # f => job'[g] = job[g]
      /\ todo' \subseteq todo
  BY <1>i, Leaves
<1>1. TypeOK'
  BY <1>j, <1>i DEF TypeOK
<1>2. Known' /\ Faithful' /\ Exclusive'
  BY <1>j, <1>i DEF Known, Faithful, Exclusive, Holding
<1>3. \A x \in Keys : Posted(x) => Posted(x)'
  BY <1>j DEF Posted
<1>4. Counted'
  BY <1>3, <1>i DEF Counted
<1> QED BY <1>1, <1>2, <1>4 DEF IInv

\* A failure of the database is a cause for one more post.
LEMMA Breaks ==
    ASSUME IInv, NEW f \in Fibers, Broken(f),
           UNCHANGED <<row, activity, sent, canceled, calls, stalls, crashes>>
    PROVE  IInv'
<1>i. TypeOK /\ Known /\ Faithful /\ Exclusive /\ Counted
  BY DEF IInv
<1>j. /\ job' \in [Fibers -> Job]
      /\ job'[f].pc = "idle"
      /\ \A g \in Fibers : g # f => job'[g] = job[g]
      /\ todo' \subseteq todo
  BY <1>i, Leaves
<1>b. faults < MaxFaults /\ faults' = faults + 1
  BY DEF Broken
<1>1. TypeOK'
  BY <1>j, <1>b, <1>i, OutboxAssumption DEF TypeOK
<1>2. Known' /\ Faithful' /\ Exclusive'
  BY <1>j, <1>i DEF Known, Faithful, Exclusive, Holding
<1>3. \A x \in Keys : Len(sent[x]) \in Nat
  BY <1>i DEF TypeOK
<1>4. Counted'
  BY <1>b, <1>3, <1>i, OutboxAssumption DEF Counted, TypeOK
<1> QED BY <1>1, <1>2, <1>4 DEF IInv

LEMMA EnqueueIInv == ASSUME IInv, NEW c \in Callers, Enqueue(c) PROVE IInv'
<1> DEFINE k == job[c].key
<1>i. TypeOK /\ Known /\ Faithful /\ Exclusive /\ Counted
  BY DEF IInv
<1>f. c \in Fibers /\ None \notin Payloads
  BY OutboxAssumption DEF Fibers
<1>k. k \in Keys /\ job[c].payload \in Payloads /\ row[k] \in Row
  BY <1>i, <1>f DEF Enqueue, At, Known, TypeOK
<1>1. CASE /\ row' = Accepted(k, job[c].payload)
           /\ activity' = [activity EXCEPT ![k] = IF @ = "absent" THEN "pending" ELSE @]
           /\ Goto(c, "claim")
           /\ UNCHANGED <<todo, faults>>
  <2>j. /\ job' \in [Fibers -> Job]
        /\ job'[c].pc = "claim" /\ job'[c].key = k
        /\ \A g \in Fibers : g # c => job'[g] = job[g]
    BY <1>1, <1>i, <1>f, Moves
  <2> DEFINE new == IF row[k].status = "absent"
                      THEN [NoRow EXCEPT !.status = "pending", !.due = TRUE,
                                         !.payload = job[c].payload]
                      ELSE row[k]
  <2>n. /\ new \in Row /\ new.payload # None /\ new.status # "absent"
        /\ new.status = "processing" <=> new.owner # "none"
        /\ row[k].status # "absent" => new = row[k]
        /\ row[k].status = "absent" => new.status = "pending"
    BY <1>i, <1>f, <1>k DEF NoRow, Row, Known, TypeOK
  <2>r. row' = [row EXCEPT ![k] = new]
    BY <1>1 DEF Accepted
  <2> HIDE DEF new
  <2>s. row' \in [Keys -> Row] /\ row'[k] = new
        /\ \A x \in Keys : x # k => row'[x] = row[x]
    BY <2>n, <2>r, <1>i, <1>k, RowType DEF TypeOK
  <2>a. activity' \in [Keys -> {"absent", "pending", "failed", "completed"}]
    BY <1>1, <1>i, <1>k DEF TypeOK
  <2>u. UNCHANGED <<sent, canceled, todo, counts>>
    BY <1>1 DEF Enqueue, counts
  <2>1. TypeOK'
    BY <2>j, <2>n, <2>s, <2>a, <2>u, <1>i DEF TypeOK, counts
  <2>2. Known'
    <3>1. \A x \in Keys : row'[x].status = "absent" <=> row'[x].payload = None
      BY <2>n, <2>s, <1>i, <1>k DEF Known
    <3>2. \A x \in Keys : row[x].payload # None => row'[x].payload # None
      BY <2>n, <2>s
    <3>3. \A x \in todo' : row'[x].payload # None
      BY <3>2, <2>u, <1>i DEF Known, TypeOK
    <3>4. \A g \in Fibers :
            /\ job'[g].pc # "idle" => job'[g].key \in Keys
            /\ job'[g].pc = "enqueue" => g \in Callers /\ job'[g].payload \in Payloads
            /\ job'[g].pc \in Holding \cup {"claim"} => row'[job'[g].key].payload # None
      <4> SUFFICES ASSUME NEW g \in Fibers
                   PROVE  /\ job'[g].pc # "idle" => job'[g].key \in Keys
                          /\ job'[g].pc = "enqueue" =>
                               g \in Callers /\ job'[g].payload \in Payloads
                          /\ job'[g].pc \in Holding \cup {"claim"} =>
                               row'[job'[g].key].payload # None
        OBVIOUS
      <4>1. CASE g = c
        BY <4>1, <2>j, <2>s, <2>n, <1>k
      <4>2. CASE g # c
        BY <4>2, <2>j, <3>2, <1>i DEF Known, Holding
      <4> QED BY <4>1, <4>2
    <3> QED BY <3>1, <3>3, <3>4 DEF Known
  <2>3. \A g \in Fibers :
          job'[g].pc \in Holding =>
            g # c /\ job'[g] = job[g] /\ row'[job[g].key] = row[job[g].key]
    BY <2>j, <2>n, <2>s, <1>i DEF Known, Holding
  <2>4. Faithful' /\ Exclusive'
    BY <2>3, <2>u, <1>i DEF Faithful, Exclusive, Holding, counts
  <2>5. \A x \in Keys : Posted(x) => Posted(x)'
    BY <2>j, <2>n, <2>s, <1>k DEF Posted, Enqueue, At
  <2>6. Counted'
    BY <2>5, <2>u, <1>i DEF Counted, counts
  <2> QED BY <2>1, <2>2, <2>4, <2>6 DEF IInv
<1>2. CASE Done(c) /\ UNCHANGED <<row, activity, faults>>
  BY <1>2, <1>f, Returns DEF Enqueue, At
<1>3. CASE Broken(c) /\ UNCHANGED <<row, activity>>
  BY <1>3, <1>f, Breaks DEF Enqueue
<1> QED BY <1>1, <1>2, <1>3 DEF Enqueue

LEMMA FlushIInv == ASSUME IInv, Flush PROVE IInv'
<1>i. TypeOK /\ Known /\ Faithful /\ Exclusive /\ Counted
  BY DEF IInv
<1>u. UNCHANGED <<row, activity, sent, canceled, job, calls, faults, stalls, crashes>>
  BY DEF Flush, counts
<1>t. todo' = {k \in Keys : Claimable(k)}
  BY DEF Flush
<1>1. TypeOK'
  BY <1>u, <1>t, <1>i DEF TypeOK
<1>2. \A k \in todo' : row'[k].payload # None
  BY <1>u, <1>t, <1>i DEF Known, Claimable
<1>3. Known'
  BY <1>2, <1>u, <1>i DEF Known
<1>4. Faithful' /\ Exclusive'
  BY <1>u, <1>i DEF Faithful, Exclusive
<1>5. Counted'
  BY <1>u, <1>i DEF Counted, Posted
<1> QED BY <1>1, <1>3, <1>4, <1>5 DEF IInv

LEMMA FlushNextIInv == ASSUME IInv, FlushNext PROVE IInv'
<1>i. TypeOK /\ Known /\ Faithful /\ Exclusive /\ Counted
  BY DEF IInv
<1>f. Flusher \in Fibers
  BY DEF Fibers
<1>u. UNCHANGED <<row, activity, sent, canceled, calls, faults, stalls, crashes>>
  BY DEF FlushNext, counts
<1>1. PICK k \in todo :
        /\ todo' = todo \ {k}
        /\ job' = [job EXCEPT ![Flusher] = [Idle EXCEPT !.pc = "claim", !.key = k]]
  BY DEF FlushNext
<1>2. k \in Keys /\ row[k].payload # None
  BY <1>1, <1>i DEF TypeOK, Known
<1>3. [Idle EXCEPT !.pc = "claim", !.key = k] \in Job
  BY <1>2 DEF Idle, Job
<1>4. /\ job' \in [Fibers -> Job]
      /\ job'[Flusher].pc = "claim" /\ job'[Flusher].key = k
      /\ \A g \in Fibers : g # Flusher => job'[g] = job[g]
  <2>1. job' \in [Fibers -> Job]
    BY <1>1, <1>3, <1>f, <1>i, JobType
  <2>2. job'[Flusher] = [pc |-> "claim", key |-> k, payload |-> None]
    BY <1>1, <1>f, <1>i DEF TypeOK, Idle
  <2>3. \A g \in Fibers : g # Flusher => job'[g] = job[g]
    BY <1>1, <1>i DEF TypeOK
  <2> QED BY <2>1, <2>2, <2>3
<1>5. TypeOK'
  BY <1>4, <1>u, <1>1, <1>i DEF TypeOK
<1>6. Known'
  BY <1>4, <1>u, <1>1, <1>2, <1>i DEF Known, Holding
<1>7. Faithful' /\ Exclusive'
  BY <1>4, <1>u, <1>i DEF Faithful, Exclusive, Holding
<1>8. \A x \in Keys : Posted(x) => Posted(x)'
  BY <1>4, <1>u DEF Posted, FlushNext, At
<1>9. Counted'
  BY <1>8, <1>u, <1>i DEF Counted
<1> QED BY <1>5, <1>6, <1>7, <1>9 DEF IInv

-----------------------------------------------------------------------------
LEMMA ClaimIInv == ASSUME IInv, NEW f \in Fibers, Claim(f) PROVE IInv'
<1> DEFINE k == job[f].key
<1>i. TypeOK /\ Known /\ Faithful /\ Exclusive /\ Counted
  BY DEF IInv
<1>k. k \in Keys /\ row[k] \in Row /\ row[k].payload # None
  BY <1>i DEF Claim, At, Known, TypeOK
<1> DEFINE new == [row[k] EXCEPT !.status = "processing", !.owner = "me", !.live = TRUE]
           mine == [pc |-> "check", key |-> k, payload |-> row[k].payload]
<1>1. CASE /\ Claimable(k) /\ row' = [row EXCEPT ![k] = new]
           /\ job' = [job EXCEPT ![f] = mine] /\ UNCHANGED <<todo, faults>>
  <2>u. UNCHANGED <<activity, sent, canceled, todo, calls, faults, stalls, crashes>>
    BY <1>1 DEF Claim
  <2>n. /\ new \in Row /\ new.status = "processing" /\ new.owner = "me" /\ new.live
        /\ new.payload = row[k].payload /\ mine \in Job
    BY <1>k DEF Row, Job
  <2>s. row' \in [Keys -> Row] /\ row'[k] = new
        /\ \A x \in Keys : x # k => row'[x] = row[x]
    BY <2>n, <1>1, <1>i, <1>k, RowType DEF TypeOK
  <2>j. /\ job' \in [Fibers -> Job] /\ job'[f] = mine
        /\ \A g \in Fibers : g # f => job'[g] = job[g]
    BY <2>n, <1>1, <1>i, JobType DEF TypeOK
  <2>m. mine.pc = "check" /\ mine.key = k /\ mine.payload = row[k].payload
    OBVIOUS
  <2>p. \A x \in Keys : row'[x].payload = row[x].payload
    BY <2>n, <2>s
  <2> HIDE DEF new, mine
  <2>1. TypeOK'
    BY <2>u, <2>n, <2>s, <2>j, <1>i DEF TypeOK
  <2>2. Known'
    <3>1. \A x \in Keys : row'[x].status = "absent" <=> row'[x].payload = None
      BY <2>n, <2>s, <1>i, <1>k DEF Known
    <3>2. \A x \in todo' : row'[x].payload # None
      BY <2>p, <2>u, <1>i DEF Known, TypeOK
    <3>3. \A g \in Fibers :
            /\ job'[g].pc # "idle" => job'[g].key \in Keys
            /\ job'[g].pc = "enqueue" => g \in Callers /\ job'[g].payload \in Payloads
            /\ job'[g].pc \in Holding \cup {"claim"} => row'[job'[g].key].payload # None
      BY <2>j, <2>m, <2>p, <1>k, <1>i DEF Known, Holding
    <3> QED BY <3>1, <3>2, <3>3 DEF Known
  <2>3. Faithful'
    BY <2>j, <2>m, <2>p, <2>u, <1>k, <1>i DEF Faithful, Known, Holding
  <2>4. stalls = 0 => \A g \in Fibers : job[g].pc \in Holding => job[g].key # k
    BY <1>1, <1>i DEF Exclusive, Claimable
  <2>5. Exclusive'
    BY <2>4, <2>j, <2>m, <2>n, <2>s, <2>u, <1>k, <1>i DEF Exclusive, Known, Holding
  <2>6. \A x \in Keys : Posted(x) => Posted(x)'
    BY <1>1, <2>j, <2>m, <2>s DEF Posted, Claim, At, Claimable
  <2>7. Counted'
    BY <2>6, <2>u, <1>i DEF Counted
  <2> QED BY <2>1, <2>2, <2>3, <2>5, <2>7 DEF IInv
<1>2. CASE Done(f) /\ UNCHANGED <<row, faults>>
  BY <1>2, Returns DEF Claim, At
<1>3. CASE Broken(f) /\ UNCHANGED row
  BY <1>3, Breaks DEF Claim
<1> QED BY <1>1, <1>2, <1>3 DEF Claim

LEMMA CheckIInv == ASSUME IInv, NEW f \in Fibers, Check(f) PROVE IInv'
<1> DEFINE pc == IF job[f].key \in Comments /\ canceled THEN "complete" ELSE "send"
<1>i. TypeOK /\ Known /\ Faithful /\ Exclusive /\ Counted
  BY DEF IInv
<1>u. UNCHANGED <<row, activity, sent, canceled, calls, stalls, crashes>>
  BY DEF Check
<1>p. job[f].pc = "check" /\ pc \in Holding
  BY DEF Check, At, Holding
<1>c. pc = "complete" => job[f].key \in Comments
  OBVIOUS
<1>1. CASE Goto(f, pc) /\ UNCHANGED <<todo, faults>>
  <2>j. /\ job' \in [Fibers -> Job]
        /\ job'[f].pc = pc /\ job'[f].key = job[f].key
        /\ job'[f].payload = job[f].payload
        /\ \A g \in Fibers : g # f => job'[g] = job[g]
    BY <1>1, <1>i, Moves DEF Holding
  <2> HIDE DEF pc
  <2>1. TypeOK'
    BY <1>1, <1>u, <2>j, <1>i DEF TypeOK
  <2>2. Known'
    BY <1>1, <1>u, <2>j, <1>p, <1>i DEF Known, Holding
  <2>3. Faithful'
    BY <1>u, <2>j, <1>p, <1>c, <1>i DEF Faithful, Holding
  <2>4. Exclusive'
    BY <1>u, <2>j, <1>p, <1>i DEF Exclusive, Holding
  <2>5. \A x \in Keys : Posted(x) => Posted(x)'
    BY <1>u, <2>j, <1>p DEF Posted
  <2>6. Counted'
    BY <1>1, <2>5, <1>u, <1>i DEF Counted
  <2> QED BY <2>1, <2>2, <2>3, <2>4, <2>6 DEF IInv
<1>2. CASE Broken(f)
  BY <1>2, <1>u, Breaks
<1> QED BY <1>1, <1>2 DEF Check

LEMMA SendIInv == ASSUME IInv, NEW f \in Fibers, Send(f) PROVE IInv'
<1> DEFINE k == job[f].key
           posts == [sent EXCEPT ![k] = Append(@, job[f].payload)]
<1>i. TypeOK /\ Known /\ Faithful /\ Exclusive /\ Counted
  BY DEF IInv
<1>p. job[f].pc \in {"send", "again"}
  BY DEF Send, At
<1>k. k \in Keys /\ job[f].payload \in Payloads
  BY <1>p, <1>i DEF Known, Faithful, TypeOK, Row, Holding
<1>u. UNCHANGED <<row, activity, canceled, todo, calls, stalls, crashes>>
  BY DEF Send
<1>s. /\ posts \in [Keys -> Seq(Payloads)]
      /\ posts[k] # << >> /\ Len(posts[k]) = Len(sent[k]) + 1
      /\ \A x \in Keys : x # k => posts[x] = sent[x]
      /\ \A x \in Keys : Len(sent[x]) \in Nat /\ (sent[x] # << >> => posts[x] # << >>)
  <2>1. sent \in [Keys -> Seq(Payloads)]
    BY <1>i DEF TypeOK
  <2>2. posts[k] = Append(sent[k], job[f].payload)
    BY <2>1, <1>k
  <2>3. /\ Append(sent[k], job[f].payload) \in Seq(Payloads)
        /\ Append(sent[k], job[f].payload) # << >>
        /\ Len(Append(sent[k], job[f].payload)) = Len(sent[k]) + 1
    BY <2>1, <1>k
  <2>4. \A x \in Keys : Len(sent[x]) \in Nat
    BY <2>1
  <2> QED BY <2>1, <2>2, <2>3, <2>4, <1>k
<1>x. stalls = 0 => ~Posted(k)
  <2> SUFFICES ASSUME stalls = 0 PROVE ~Posted(k)
    OBVIOUS
  <2>1. row[k].status = "processing"
    BY <1>p, <1>i DEF Exclusive, Holding
  <2>2. \A g \in Fibers : job[g].pc = "complete" /\ job[g].key = k => g = f
    BY <1>p, <1>i DEF Exclusive, Holding
  <2> QED BY <2>1, <2>2, <1>p DEF Posted
<1> HIDE DEF posts
<1>1. ASSUME NEW pc \in {"again", "complete", "fail"}, Goto(f, pc), sent' \in {sent, posts},
             faults' \in 0 .. MaxFaults, pc = "complete" => sent' = posts
      PROVE  TypeOK' /\ Known' /\ Faithful' /\ Exclusive'
  <2>j. /\ job' \in [Fibers -> Job]
        /\ job'[f].pc = pc /\ job'[f].key = job[f].key
        /\ job'[f].payload = job[f].payload
        /\ \A g \in Fibers : g # f => job'[g] = job[g]
    BY <1>1, <1>i, Moves DEF Holding
  <2>1. TypeOK'
    BY <1>1, <1>s, <1>u, <2>j, <1>i DEF TypeOK
  <2>2. Known'
    BY <1>1, <1>u, <1>p, <2>j, <1>i DEF Known, Holding
  <2>3. \A x \in Keys : sent[x] # << >> => sent'[x] # << >>
    BY <1>1, <1>s
  <2>4. Faithful'
    BY <1>1, <1>s, <1>u, <1>p, <1>k, <2>3, <2>j, <1>i DEF Faithful, Known, Holding
  <2>5. Exclusive'
    BY <1>1, <1>u, <1>p, <2>j, <1>i DEF Exclusive, Holding
  <2> QED BY <2>1, <2>2, <2>4, <2>5
<1>2. CASE sent' = posts /\ Goto(f, "complete") /\ UNCHANGED faults
  <2>1. faults' \in 0 .. MaxFaults
    BY <1>2, <1>i DEF TypeOK
  <2>2. TypeOK' /\ Known' /\ Faithful' /\ Exclusive'
    BY <1>1, <1>2, <2>1
  <2>j. /\ job'[f].pc = "complete" /\ job'[f].key = k
        /\ \A g \in Fibers : g # f => job'[g] = job[g]
    BY <1>2, <1>i, Moves DEF Holding
  <2>3. \A x \in Keys : x = k \/ Posted(x) => Posted(x)'
    BY <2>j, <1>u, <1>p DEF Posted
  <2>4. Counted'
    <3> SUFFICES ASSUME stalls = 0, NEW x \in Keys
                 PROVE  /\ Len(sent'[x]) <= 1 + faults + crashes
                        /\ ~Posted(x)' => Len(sent'[x]) <= faults + crashes
      BY <1>2, <1>u DEF Counted
    <3>1. CASE x = k
      <4>1. Len(sent[k]) <= faults + crashes /\ Len(sent[k]) \in Nat
        BY <1>x, <1>k, <1>s, <1>i DEF Counted
      <4>2. Len(sent'[k]) = Len(sent[k]) + 1 /\ faults \in Nat /\ crashes \in Nat
        BY <1>2, <1>s, <1>i, OutboxAssumption DEF TypeOK
      <4>3. Posted(x)'
        BY <3>1, <2>3
      <4> QED BY <3>1, <4>1, <4>2, <4>3
    <3>2. CASE x # k
      BY <3>2, <2>3, <1>2, <1>s, <1>i DEF Counted
    <3> QED BY <3>1, <3>2
  <2> QED BY <2>2, <2>4 DEF IInv
<1>3. CASE /\ faults < MaxFaults /\ faults' = faults + 1
           /\ sent' \in {sent, posts} /\ (Goto(f, "fail") \/ Goto(f, "again"))
  <2>1. faults' \in 0 .. MaxFaults
    BY <1>3, <1>i, OutboxAssumption DEF TypeOK
  <2>2. TypeOK' /\ Known' /\ Faithful' /\ Exclusive'
    BY <1>1, <1>3, <2>1
  <2>j. /\ job'[f].pc \in {"again", "fail"} /\ job'[f].key = k
        /\ \A g \in Fibers : g # f => job'[g] = job[g]
    BY <1>3, <1>i, Moves DEF Holding
  <2>3. \A x \in Keys : Posted(x) => Posted(x)'
    BY <2>j, <1>u, <1>p DEF Posted
  <2>n. faults \in Nat /\ crashes \in Nat
    BY <1>i, OutboxAssumption DEF TypeOK
  <2>4. Counted'
    <3> SUFFICES ASSUME stalls = 0, NEW x \in Keys
                 PROVE  /\ Len(sent'[x]) <= 1 + (faults + 1) + crashes
                        /\ ~Posted(x)' => Len(sent'[x]) <= (faults + 1) + crashes
      BY <1>3, <1>u DEF Counted
    <3>1. CASE x = k
      <4>1. Len(sent[k]) <= faults + crashes /\ Len(sent[k]) \in Nat
        BY <1>x, <1>k, <1>s, <1>i DEF Counted
      <4>2. Len(sent'[k]) <= Len(sent[k]) + 1 /\ Len(sent'[k]) \in Nat
        BY <1>3, <1>s, <4>1
      <4> QED BY <3>1, <4>1, <4>2, <2>n
    <3>2. CASE x # k
      <4>1. sent'[x] = sent[x] /\ Len(sent[x]) \in Nat
        BY <3>2, <1>3, <1>s
      <4>2. /\ Len(sent[x]) <= 1 + faults + crashes
            /\ ~Posted(x) => Len(sent[x]) <= faults + crashes
        BY <1>i DEF Counted
      <4> QED BY <4>1, <4>2, <2>3, <2>n
    <3> QED BY <3>1, <3>2
  <2> QED BY <2>2, <2>4 DEF IInv
<1> QED BY <1>2, <1>3 DEF Send, posts

LEMMA CompleteIInv == ASSUME IInv, NEW f \in Fibers, Complete(f) PROVE IInv'
<1> DEFINE k == job[f].key
           new == [row[k] EXCEPT !.status = "completed", !.owner = "none", !.live = FALSE]
<1>i. TypeOK /\ Known /\ Faithful /\ Exclusive /\ Counted
  BY DEF IInv
<1>p. job[f].pc = "complete"
  BY DEF Complete, At
<1>k. k \in Keys /\ row[k] \in Row /\ row[k].payload # None
  BY <1>p, <1>i DEF Known, TypeOK, Holding
<1>u. UNCHANGED <<sent, canceled, calls, stalls, crashes>>
  BY DEF Complete
<1>1. CASE /\ row[k].owner = "me" /\ row[k].status = "processing"
           /\ row' = [row EXCEPT ![k] = new]
           /\ activity' = [activity EXCEPT ![k] = "completed"]
           /\ (Done(f) /\ UNCHANGED faults) \/ Broken(f)
  <2>n. /\ new \in Row /\ new.status = "completed" /\ new.owner = "none"
        /\ new.payload = row[k].payload
    BY <1>k DEF Row
  <2>s. row' \in [Keys -> Row] /\ row'[k] = new
        /\ \A x \in Keys : x # k => row'[x] = row[x]
    BY <2>n, <1>1, <1>i, <1>k, RowType DEF TypeOK
  <2>j. /\ job' \in [Fibers -> Job]
        /\ job'[f].pc = "idle"
        /\ \A g \in Fibers : g # f => job'[g] = job[g]
        /\ todo' \subseteq todo
    BY <1>1, <1>i, Leaves
  <2>a. activity' \in [Keys -> {"absent", "pending", "failed", "completed"}]
    BY <1>1, <1>i, <1>k DEF TypeOK
  <2>f. faults' \in 0 .. MaxFaults /\ (faults' = faults \/ faults' = faults + 1)
    BY <1>1, <1>i, OutboxAssumption DEF TypeOK, Broken
  <2>p. \A x \in Keys : row'[x].payload = row[x].payload
    BY <2>n, <2>s
  <2> HIDE DEF new
  <2>1. TypeOK'
    BY <1>u, <2>n, <2>s, <2>j, <2>a, <2>f, <1>i DEF TypeOK
  <2>2. Known'
    <3>1. \A x \in Keys : row'[x].status = "absent" <=> row'[x].payload = None
      BY <2>n, <2>s, <1>i, <1>k DEF Known
    <3>2. \A x \in todo' : row'[x].payload # None
      BY <2>p, <2>j, <1>i DEF Known, TypeOK
    <3>3. \A g \in Fibers :
            /\ job'[g].pc # "idle" => job'[g].key \in Keys
            /\ job'[g].pc = "enqueue" => g \in Callers /\ job'[g].payload \in Payloads
            /\ job'[g].pc \in Holding \cup {"claim"} => row'[job'[g].key].payload # None
      BY <2>j, <2>p, <1>i DEF Known, Holding
    <3> QED BY <3>1, <3>2, <3>3 DEF Known
  <2>3. Faithful'
    BY <2>j, <2>p, <1>u, <1>i DEF Faithful, Known, Holding
  <2>4. stalls = 0 => \A g \in Fibers : g # f /\ job[g].pc \in Holding => job[g].key # k
    BY <1>p, <1>i DEF Exclusive, Holding
  <2>5. Exclusive'
    BY <2>4, <2>j, <2>s, <1>u, <1>k, <1>i DEF Exclusive, Known, Holding
  <2>6. \A x \in Keys : Posted(x) => Posted(x)'
    BY <2>j, <2>s, <2>n, <1>k DEF Posted
  <2>7. Counted'
    <3>1. \A x \in Keys : Len(sent[x]) \in Nat
      BY <1>i DEF TypeOK
    <3>2. faults \in Nat /\ crashes \in Nat
      BY <1>i, OutboxAssumption DEF TypeOK
    <3> QED BY <3>1, <3>2, <2>6, <2>f, <1>u, <1>i DEF Counted
  <2> QED BY <2>1, <2>2, <2>3, <2>5, <2>7 DEF IInv
<1>2. CASE /\ ~(row[k].owner = "me" /\ row[k].status = "processing")
           /\ Goto(f, "fail")
           /\ UNCHANGED <<row, activity, todo, faults>>
  <2>1. stalls # 0
    BY <1>2, <1>p, <1>i DEF Exclusive, Holding
  <2>j. /\ job' \in [Fibers -> Job]
        /\ job'[f].pc = "fail" /\ job'[f].key = job[f].key
        /\ job'[f].payload = job[f].payload
        /\ \A g \in Fibers : g # f => job'[g] = job[g]
    BY <1>2, <1>i, Moves DEF Holding
  <2>2. TypeOK'
    BY <1>2, <1>u, <2>j, <1>i DEF TypeOK
  <2>3. Known' /\ Faithful'
    BY <1>2, <1>u, <1>p, <2>j, <1>i DEF Known, Faithful, Holding
  <2>4. Exclusive' /\ Counted'
    BY <2>1, <1>u DEF Exclusive, Counted
  <2> QED BY <2>2, <2>3, <2>4 DEF IInv
<1>3. CASE Broken(f) /\ UNCHANGED <<row, activity>>
  BY <1>3, <1>u, Breaks
<1> QED BY <1>1, <1>2, <1>3 DEF Complete

LEMMA FailIInv == ASSUME IInv, NEW f \in Fibers, Fail(f) PROVE IInv'
<1> DEFINE k == job[f].key
           new == IF row[k].owner = "me"
                    THEN [row[k] EXCEPT !.status = "failed", !.owner = "none",
                                        !.live = FALSE, !.due = FALSE]
                    ELSE row[k]
<1>i. TypeOK /\ Known /\ Faithful /\ Exclusive /\ Counted
  BY DEF IInv
<1>p. job[f].pc = "fail"
  BY DEF Fail, At
<1>k. k \in Keys /\ row[k] \in Row /\ row[k].payload # None
  BY <1>p, <1>i DEF Known, TypeOK, Holding
<1>u. UNCHANGED <<sent, canceled, calls, stalls, crashes>>
  BY DEF Fail
<1>1. CASE /\ row' = Failing(k) /\ activity' = [activity EXCEPT ![k] = "failed"]
           /\ Done(f) /\ UNCHANGED faults
  <2>n. /\ new \in Row /\ new.payload = row[k].payload
        /\ new.status = "processing" <=> new.owner # "none"
        /\ new.status = "absent" <=> new.payload = None
        /\ row[k].status = "completed" => new.status = "completed"
    BY <1>k, <1>i DEF Row, TypeOK, Known
  <2>s. row' \in [Keys -> Row] /\ row'[k] = new
        /\ \A x \in Keys : x # k => row'[x] = row[x]
    BY <2>n, <1>1, <1>i, <1>k, RowType DEF TypeOK, Failing
  <2>j. /\ job' \in [Fibers -> Job]
        /\ job'[f].pc = "idle"
        /\ \A g \in Fibers : g # f => job'[g] = job[g]
        /\ todo' \subseteq todo
    BY <1>1, <1>i, Leaves
  <2>a. activity' \in [Keys -> {"absent", "pending", "failed", "completed"}]
    BY <1>1, <1>i, <1>k DEF TypeOK
  <2> HIDE DEF new
  <2>p. \A x \in Keys : row'[x].payload = row[x].payload
    BY <2>n, <2>s
  <2>1. TypeOK'
    BY <1>1, <1>u, <2>n, <2>s, <2>j, <2>a, <1>i DEF TypeOK
  <2>2. Known'
    <3>1. \A x \in Keys : row'[x].status = "absent" <=> row'[x].payload = None
      BY <2>n, <2>s, <1>i, <1>k DEF Known
    <3>2. \A x \in todo' : row'[x].payload # None
      BY <2>p, <2>j, <1>i DEF Known, TypeOK
    <3>3. \A g \in Fibers :
            /\ job'[g].pc # "idle" => job'[g].key \in Keys
            /\ job'[g].pc = "enqueue" => g \in Callers /\ job'[g].payload \in Payloads
            /\ job'[g].pc \in Holding \cup {"claim"} => row'[job'[g].key].payload # None
      BY <2>j, <2>p, <1>i DEF Known, Holding
    <3> QED BY <3>1, <3>2, <3>3 DEF Known
  <2>3. Faithful'
    BY <2>j, <2>p, <1>u, <1>i DEF Faithful, Known, Holding
  <2>4. stalls = 0 => \A g \in Fibers : g # f /\ job[g].pc \in Holding => job[g].key # k
    BY <1>p, <1>i DEF Exclusive, Holding
  <2>5. Exclusive'
    BY <2>4, <2>j, <2>s, <1>u, <1>k, <1>i DEF Exclusive, Known, Holding
  <2>6. \A x \in Keys : Posted(x) => Posted(x)'
    BY <2>j, <2>s, <2>n, <1>p, <1>k DEF Posted
  <2>7. Counted'
    BY <2>6, <1>1, <1>u, <1>i DEF Counted
  <2> QED BY <2>1, <2>2, <2>3, <2>5, <2>7 DEF IInv
<1>2. CASE Broken(f) /\ UNCHANGED <<row, activity>>
  BY <1>2, <1>u, Breaks
<1> QED BY <1>1, <1>2 DEF Fail

-----------------------------------------------------------------------------
LEMMA RetryDueIInv == ASSUME IInv, NEW k \in Keys, RetryDue(k) PROVE IInv'
<1> DEFINE new == [row[k] EXCEPT !.due = TRUE]
<1>i. TypeOK /\ Known /\ Faithful /\ Exclusive /\ Counted
  BY DEF IInv
<1>u. UNCHANGED <<activity, sent, canceled, job, todo, calls, faults, stalls, crashes>>
  BY DEF RetryDue, counts
<1>n. /\ new \in Row /\ new.status = row[k].status /\ new.owner = row[k].owner
      /\ new.live = row[k].live /\ new.payload = row[k].payload
  BY <1>i DEF Row, TypeOK
<1>s. row' \in [Keys -> Row] /\ row'[k] = new
      /\ \A x \in Keys : x # k => row'[x] = row[x]
  BY <1>n, <1>i, RowType DEF TypeOK, RetryDue
<1> HIDE DEF new
<1>r. \A x \in Keys :
        /\ row'[x].status = row[x].status /\ row'[x].owner = row[x].owner
        /\ row'[x].live = row[x].live /\ row'[x].payload = row[x].payload
  BY <1>n, <1>s
<1>1. TypeOK'
  BY <1>u, <1>s, <1>r, <1>i DEF TypeOK
<1>2. Known'
  BY <1>u, <1>r, <1>i DEF Known, TypeOK, Holding
<1>3. Faithful' /\ Exclusive'
  BY <1>u, <1>r, <1>i DEF Faithful, Exclusive, Known, Holding
<1>4. \A x \in Keys : Posted(x) => Posted(x)'
  BY <1>u, <1>r DEF Posted
<1>5. Counted'
  BY <1>4, <1>u, <1>i DEF Counted
<1> QED BY <1>1, <1>2, <1>3, <1>5 DEF IInv

LEMMA LeaseExpiresIInv == ASSUME IInv, NEW k \in Keys, LeaseExpires(k) PROVE IInv'
<1> DEFINE new == [row[k] EXCEPT !.live = FALSE]
<1>i. TypeOK /\ Known /\ Faithful /\ Exclusive /\ Counted
  BY DEF IInv
<1>u. UNCHANGED <<activity, sent, canceled, job, todo, calls, faults, crashes>>
  BY DEF LeaseExpires
<1>n. /\ new \in Row /\ new.status = row[k].status /\ new.owner = row[k].owner
      /\ new.payload = row[k].payload
  BY <1>i DEF Row, TypeOK
<1>s. row' \in [Keys -> Row] /\ row'[k] = new
      /\ \A x \in Keys : x # k => row'[x] = row[x]
  BY <1>n, <1>i, RowType DEF TypeOK, LeaseExpires
<1> HIDE DEF new
<1>r. \A x \in Keys :
        /\ row'[x].status = row[x].status /\ row'[x].owner = row[x].owner
        /\ row'[x].payload = row[x].payload
  BY <1>n, <1>s
<1>h. /\ stalls' \in 0 .. MaxStalls
      /\ stalls' = 0 => stalls = 0 /\ ~Held(k)
  BY <1>i, OutboxAssumption DEF TypeOK, LeaseExpires
<1>1. TypeOK'
  BY <1>u, <1>s, <1>r, <1>h, <1>i DEF TypeOK
<1>2. Known'
  BY <1>u, <1>r, <1>i DEF Known, TypeOK, Holding
<1>3. Faithful'
  BY <1>u, <1>r, <1>i DEF Faithful, Known, Holding
<1>4. Exclusive'
  <2>1. stalls' = 0 => \A f \in Fibers : job[f].pc \in Holding => job[f].key # k
    BY <1>h DEF Held, Holding
  <2> QED BY <2>1, <1>h, <1>s, <1>u, <1>i DEF Exclusive, Known, Holding
<1>5. \A x \in Keys : Posted(x) => Posted(x)'
  BY <1>u, <1>r DEF Posted
<1>6. Counted'
  BY <1>5, <1>h, <1>u, <1>i DEF Counted
<1> QED BY <1>1, <1>2, <1>3, <1>4, <1>6 DEF IInv

LEMMA CancelIInv == ASSUME IInv, CancelOrResume PROVE IInv'
<1>i. TypeOK /\ Known /\ Faithful /\ Exclusive /\ Counted
  BY DEF IInv
<1>u. UNCHANGED <<row, activity, sent, job, todo, calls, faults, stalls, crashes>>
  BY DEF CancelOrResume, counts
<1>1. TypeOK'
  BY <1>u, <1>i DEF TypeOK, CancelOrResume
<1>2. Known' /\ Faithful' /\ Exclusive' /\ Counted'
  BY <1>u, <1>i DEF Known, Faithful, Exclusive, Counted, Posted
<1> QED BY <1>1, <1>2 DEF IInv

LEMMA CrashIInv == ASSUME IInv, Crash PROVE IInv'
<1>i. TypeOK /\ Known /\ Faithful /\ Exclusive /\ Counted
  BY DEF IInv
<1>u. UNCHANGED <<activity, sent, canceled, calls, faults, stalls>>
  BY DEF Crash
<1>j. /\ job' \in [Fibers -> Job] /\ todo' = {}
      /\ \A f \in Fibers : job'[f].pc = "idle"
  BY DEF Crash, Idle, Job
<1>c. crashes' \in 0 .. MaxCrashes /\ crashes' = crashes + 1
  BY <1>i, OutboxAssumption DEF TypeOK, Crash
<1>r. \A k \in Keys :
        /\ row'[k] \in Row
        /\ row'[k].status = row[k].status /\ row'[k].payload = row[k].payload
        /\ row'[k].owner = "none" <=> row[k].owner = "none"
  <2> SUFFICES ASSUME NEW k \in Keys
               PROVE  /\ row'[k] \in Row
                      /\ row'[k].status = row[k].status /\ row'[k].payload = row[k].payload
                      /\ row'[k].owner = "none" <=> row[k].owner = "none"
    OBVIOUS
  <2>1. row[k] \in Row
    BY <1>i DEF TypeOK
  <2>2. CASE row[k].owner = "me"
    <3>1. row'[k] = [row[k] EXCEPT !.owner = "old"]
      BY <2>2 DEF Crash
    <3> QED BY <3>1, <2>1, <2>2 DEF Row
  <2>3. CASE row[k].owner # "me"
    <3>1. row'[k] = row[k]
      BY <2>3 DEF Crash
    <3> QED BY <3>1, <2>1
  <2> QED BY <2>2, <2>3
<1>s. row' \in [Keys -> Row]
  BY <1>r DEF Crash
<1>1. TypeOK'
  BY <1>u, <1>j, <1>c, <1>r, <1>s, <1>i DEF TypeOK
<1>2. Known'
  BY <1>j, <1>r, <1>i DEF Known, Holding
<1>3. Faithful' /\ Exclusive'
  BY <1>j DEF Faithful, Exclusive, Holding
<1>4. \A x \in Keys : Len(sent[x]) \in Nat
  BY <1>i DEF TypeOK
<1>5. faults \in Nat /\ crashes \in Nat
  BY <1>i, OutboxAssumption DEF TypeOK
<1>6. Counted'
  BY <1>u, <1>c, <1>4, <1>5, <1>i DEF Counted
<1> QED BY <1>1, <1>2, <1>3, <1>6 DEF IInv

\* Every step keeps the inductive invariant.
LEMMA NextIInv == IInv /\ [Next]_vars => IInv'
<1> SUFFICES ASSUME IInv, [Next]_vars PROVE IInv'
  OBVIOUS
<1>f. Callers \subseteq Fibers
  BY DEF Fibers
<1>1. ASSUME NEW c \in Callers, Call(c) \/ Enqueue(c) PROVE IInv'
  BY <1>1, CallIInv, EnqueueIInv
<1>2. CASE Flush \/ FlushNext
  BY <1>2, FlushIInv, FlushNextIInv
<1>3. ASSUME NEW f \in Fibers, Dispatch(f) PROVE IInv'
  BY <1>3, ClaimIInv, CheckIInv, SendIInv, CompleteIInv, FailIInv DEF Dispatch
<1>4. ASSUME NEW k \in Keys, RetryDue(k) \/ LeaseExpires(k) PROVE IInv'
  BY <1>4, RetryDueIInv, LeaseExpiresIInv
<1>5. CASE CancelOrResume \/ Crash
  BY <1>5, CancelIInv, CrashIInv
<1>6. CASE UNCHANGED vars
  BY <1>6 DEF vars, IInv, TypeOK, Known, Faithful, Exclusive, Counted, Posted
<1> QED BY <1>1, <1>2, <1>3, <1>4, <1>5, <1>6 DEF Next

\* The inductive invariant holds in every reachable state.
THEOREM Invariance == Spec => []IInv
BY InitIInv, NextIInv, PTL DEF Spec

\* The outbox stays well typed; a row is claimed exactly while it has an owner.
THEOREM TypeCorrect == Spec => []TypeOK
<1>1. IInv => TypeOK
  BY DEF IInv
<1> QED BY <1>1, Invariance, PTL

\* While no lease expires under its call, a post is repeated only after a failure
\* or a crash, once for each.
THEOREM RepeatsAreCaused == Spec => []RepeatNeedsCause
<1>1. IInv => RepeatNeedsCause
  BY DEF IInv, Counted, RepeatNeedsCause
<1> QED BY <1>1, Invariance, PTL

-----------------------------------------------------------------------------
(* Refinement                                                               *)

\* A step of the feed, or none.
FeedStep == [Feed!Next]_(Feed!feed)

\* Steps that change neither contents, posts nor the settled keys are stutters.
LEMMA Stutters ==
    ASSUME sent' = sent,
           \A k \in Keys :
             /\ row'[k].payload = row[k].payload
             /\ row'[k].status = "completed" <=> row[k].status = "completed"
    PROVE  UNCHANGED Feed!feed
<1>1. [k \in Keys |-> row[k].payload]' = [k \in Keys |-> row[k].payload]
  OBVIOUS
<1>2. {k \in Keys : row[k].status = "completed"}' = {k \in Keys : row[k].status = "completed"}
  OBVIOUS
<1> QED BY <1>1, <1>2 DEF Feed!feed

\* The actions of the feed are its steps.
LEMMA FeedSteps ==
    ASSUME NEW k \in Keys
    PROVE  /\ Feed!Post(k) => FeedStep
           /\ Feed!Settle(k) => FeedStep
           /\ \A p \in Payloads : Feed!Accept(k, p) => FeedStep
BY DEF FeedStep, Feed!Next

\* Every step of the outbox is a step of the feed or a stutter.
LEMMA StepImplements == IInv /\ [Next]_vars => FeedStep
<1> SUFFICES ASSUME IInv, [Next]_vars PROVE FeedStep
  OBVIOUS
<1>i. TypeOK /\ Known /\ Faithful
  BY DEF IInv
<1>f. Callers \subseteq Fibers
  BY DEF Fibers
<1>s. UNCHANGED Feed!feed => FeedStep
  BY DEF FeedStep
<1>u. UNCHANGED <<row, sent>> => FeedStep
  BY <1>s, Stutters
<1>1. ASSUME NEW c \in Callers, Enqueue(c) PROVE FeedStep
  <2>k. None \notin Payloads
    BY OutboxAssumption
  <2>p. PICK k \in Keys, p \in Payloads : k = job[c].key /\ p = job[c].payload
    BY <1>1, <1>f, <1>i DEF Enqueue, At, Known
  <2>1. UNCHANGED sent
    BY <1>1 DEF Enqueue
  <2>2. CASE row' = Accepted(k, p) /\ row[k].status = "absent"
    <3>1. row'[k].payload = p /\ row'[k].status = "pending"
          /\ \A x \in Keys : x # k => row'[x] = row[x]
      BY <2>2, <2>k, <1>i DEF Accepted, NoRow, TypeOK
    <3>2. row[k].payload = None
      BY <2>2, <2>k, <1>i DEF Known
    <3>3. [x \in Keys |-> row[x].payload]'
            = [[x \in Keys |-> row[x].payload] EXCEPT ![k] = p]
      BY <3>1, <2>k
    <3>4. {x \in Keys : row[x].status = "completed"}'
            = {x \in Keys : row[x].status = "completed"}
      BY <3>1, <2>2
    <3>5. Feed!Accept(k, p)
      BY <3>2, <3>3, <3>4, <2>1, <2>k DEF Feed!Accept
    <3> QED BY <3>5, <2>k, FeedSteps
  <2>3. CASE row' = Accepted(k, p) /\ row[k].status # "absent"
    <3>1. row' = row
      BY <2>3, <1>i DEF Accepted, TypeOK
    <3> QED BY <3>1, <2>1, <1>u
  <2> QED BY <1>1, <2>p, <2>1, <2>2, <2>3, <1>u DEF Enqueue
<1>2. ASSUME NEW f \in Fibers, Claim(f) PROVE FeedStep
  <2> DEFINE k == job[f].key
  <2>k. k \in Keys
    BY <1>2, <1>i DEF Claim, At, Known
  <2>1. UNCHANGED sent
    BY <1>2 DEF Claim
  <2>2. CASE /\ Claimable(k)
             /\ row' = [row EXCEPT ![k] = [@ EXCEPT !.status = "processing",
                                                    !.owner = "me", !.live = TRUE]]
    <3>1. \A x \in Keys :
            /\ row'[x].payload = row[x].payload
            /\ row'[x].status = "completed" <=> row[x].status = "completed"
      BY <2>2, <2>k, <1>i DEF Claimable, TypeOK, Row
    <3> QED BY <3>1, <2>1, <1>s, Stutters
  <2> QED BY <1>2, <2>1, <2>2, <1>u DEF Claim
<1>3. ASSUME NEW f \in Fibers, Send(f) PROVE FeedStep
  <2> DEFINE k == job[f].key
  <2>k. k \in Keys /\ row[k].payload # None /\ job[f].payload = row[k].payload
    BY <1>3, <1>i DEF Send, At, Known, Faithful, Holding
  <2>1. row' = row
    BY <1>3 DEF Send
  <2>2. CASE sent' = [sent EXCEPT ![k] = Append(@, job[f].payload)]
    <3>1. Feed!Post(k)
      BY <2>1, <2>2, <2>k DEF Feed!Post
    <3> QED BY <3>1, <2>k, FeedSteps
  <2> QED BY <1>3, <2>1, <2>2, <1>u DEF Send
<1>4. ASSUME NEW f \in Fibers, Complete(f) PROVE FeedStep
  <2>k. PICK k \in Keys :
          /\ k = job[f].key /\ row[k].payload # None
          /\ sent[k] # << >> \/ k \in Comments
    BY <1>4, <1>i DEF Complete, At, Known, Faithful, Holding
  <2>1. UNCHANGED sent
    BY <1>4 DEF Complete
  <2>2. CASE row' = [row EXCEPT ![k] = [@ EXCEPT !.status = "completed",
                                                 !.owner = "none", !.live = FALSE]]
    <3>1. /\ \A x \in Keys : row'[x].payload = row[x].payload
          /\ row'[k].status = "completed"
          /\ \A x \in Keys : x # k => row'[x] = row[x]
      BY <2>2, <2>k, <1>i DEF TypeOK, Row
    <3>2. [x \in Keys |-> row[x].payload]' = [x \in Keys |-> row[x].payload]
      BY <3>1
    <3>3. {x \in Keys : row[x].status = "completed"}'
            = {x \in Keys : row[x].status = "completed"} \cup {k}
      BY <3>1, <2>k
    <3>4. Feed!Settle(k)
      BY <3>2, <3>3, <2>1, <2>k DEF Feed!Settle
    <3> QED BY <3>4, <2>k, FeedSteps
  <2> QED BY <1>4, <2>k, <2>1, <2>2, <1>u DEF Complete
<1>5. ASSUME NEW f \in Fibers, Fail(f) PROVE FeedStep
  <2> DEFINE k == job[f].key
  <2>k. k \in Keys
    BY <1>5, <1>i DEF Fail, At, Known, Holding
  <2>1. UNCHANGED sent
    BY <1>5 DEF Fail
  <2>2. CASE row' = Failing(k)
    <3>1. \A x \in Keys :
            /\ row'[x].payload = row[x].payload
            /\ row'[x].status = "completed" <=> row[x].status = "completed"
      BY <2>2, <2>k, <1>i DEF Failing, TypeOK, Row
    <3> QED BY <3>1, <2>1, <1>s, Stutters
  <2> QED BY <1>5, <2>1, <2>2, <1>u DEF Fail
<1>6. ASSUME NEW k \in Keys, RetryDue(k) \/ LeaseExpires(k) PROVE FeedStep
  <2>1. UNCHANGED sent
    BY <1>6 DEF RetryDue, LeaseExpires
  <2>r. \A x \in Keys : x # k => row'[x] = row[x]
    BY <1>6, <1>i DEF RetryDue, LeaseExpires, TypeOK
  <2>k. row'[k].payload = row[k].payload /\ row'[k].status = row[k].status
    BY <1>6, <1>i DEF RetryDue, LeaseExpires, TypeOK, Row
  <2>2. \A x \in Keys :
          /\ row'[x].payload = row[x].payload
          /\ row'[x].status = "completed" <=> row[x].status = "completed"
    BY <2>r, <2>k
  <2> QED BY <2>1, <2>2, <1>s, Stutters
<1>7. CASE Crash
  <2>1. UNCHANGED sent
    BY <1>7 DEF Crash
  <2>2. \A x \in Keys :
          /\ row'[x].payload = row[x].payload
          /\ row'[x].status = "completed" <=> row[x].status = "completed"
    BY <1>7, <1>i DEF Crash, TypeOK, Row
  <2> QED BY <2>1, <2>2, <1>s, Stutters
<1>8. ASSUME NEW c \in Callers, Call(c) PROVE FeedStep
  BY <1>8, <1>u DEF Call
<1>9. ASSUME NEW f \in Fibers, Check(f) PROVE FeedStep
  BY <1>9, <1>u DEF Check
<1>10. CASE Flush \/ FlushNext \/ CancelOrResume
  BY <1>10, <1>u DEF Flush, FlushNext, CancelOrResume
<1>11. CASE UNCHANGED vars
  BY <1>11, <1>u DEF vars
<1> QED BY <1>1, <1>2, <1>3, <1>4, <1>5, <1>6, <1>7, <1>8, <1>9, <1>10, <1>11
        DEF Next, Dispatch

\* However dispatches overlap, fail and are retried, the outbox implements the
\* feed it promises.
THEOREM Implements == Spec => ImplementsFeed
<1>1. Init => Feed!Init
  <2> SUFFICES ASSUME Init PROVE Feed!Init
    OBVIOUS
  <2>1. \A k \in Keys : row[k].payload = None /\ row[k].status = "absent"
    BY DEF Init, NoRow
  <2> QED BY <2>1 DEF Init, Feed!Init
<1>2. IInv /\ [Next]_vars => [Feed!Next]_(Feed!feed)
  BY StepImplements DEF FeedStep
<1> QED BY <1>1, <1>2, Invariance, PTL DEF Spec, ImplementsFeed, Feed!Spec

=============================================================================
