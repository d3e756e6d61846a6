------------------------------- MODULE Outbox -------------------------------
(***************************************************************************)
(* The outbox of Linear activities: ProjectionRepo (activity_projection    *)
(* and projection_outbox) with the flows of ActivityProjector that use it, *)
(* enqueueAndDispatch (called by the fibers that work on a session) and    *)
(* flushPending (called by the reconciler's sweep), down to the call of    *)
(* Linear, which is external.                                              *)
(*                                                                         *)
(* A claim is leased for PROJECTION_LEASE_MS.  The call it covers waits in *)
(* the queue of its organization behind calls that may sleep on a rate     *)
(* limit, and flushPending counts the lease from the start of the flush:   *)
(* the lease may expire at any moment.  Its owner is one name per process, *)
(* so that two fibers of a process are not told apart.                     *)
(***************************************************************************)
EXTENDS Naturals, Sequences

CONSTANTS
    Keys,        \* source keys of one run
    Comments,    \* those of issue comments (deviation)
    FirstWins,   \* those enqueued with firstWriteWins (deviation, terminal)
    Payloads,    \* contents, and their hash
    Callers,     \* fibers that call enqueueAndDispatch
    Flusher,     \* the fiber that calls flushPending
    None,
    MaxCalls,    \* bound: calls of enqueueAndDispatch
    MaxFaults,   \* bound: failures of Linear or of the database
    MaxStalls,   \* bound: leases that expire under a fiber
    MaxCrashes   \* bound: crashes

Fibers == Callers \cup {Flusher}

ASSUME OutboxAssumption ==
    /\ Comments \subseteq FirstWins /\ FirstWins \subseteq Keys
    /\ Flusher \notin Callers
    /\ None \notin Payloads \cup Keys
    /\ {MaxCalls, MaxFaults, MaxStalls, MaxCrashes} \subseteq Nat

VARIABLES
    row,       \* projection_outbox: status, owner, lease, next_attempt_at, payload
    activity,  \* activity_projection: status (run_event follows it)
    sent,      \* external: the activities Linear has, by source key
    canceled,  \* the run is canceled
    job,       \* the dispatch each fiber is in
    todo,      \* the keys flushPending has still to dispatch
    calls, faults, stalls, crashes   \* events so far, for the bounds

counts == <<calls, faults, stalls, crashes>>
vars == <<row, activity, sent, canceled, job, todo, calls, faults, stalls, crashes>>

NoRow == [status |-> "absent", owner |-> "none", live |-> FALSE, due |-> FALSE,
          payload |-> None]

Idle == [pc |-> "idle", key |-> None, payload |-> None]

At(f, pc) == job[f].pc = pc

Goto(f, pc) == job' = [job EXCEPT ![f].pc = pc]

\* The dispatch returns.
Done(f) ==
    /\ job' = [job EXCEPT ![f] = Idle]
    /\ UNCHANGED todo

\* A DatabaseError fails the caller; flushPending gives up the rest of its list.
Broken(f) ==
    /\ faults < MaxFaults
    /\ faults' = faults + 1
    /\ job' = [job EXCEPT ![f] = Idle]
    /\ todo' = IF f = Flusher THEN {} ELSE todo

-----------------------------------------------------------------------------
(* Callers                                                                  *)

Call(c) ==
    /\ At(c, "idle")
    /\ calls < MaxCalls
    /\ calls' = calls + 1
    /\ \E k \in Keys, p \in Payloads :
         job' = [job EXCEPT ![c] = [pc |-> "enqueue", key |-> k, payload |-> p]]
    /\ UNCHANGED <<row, activity, sent, canceled, todo, faults, stalls, crashes>>

\* The insertion of both rows; a key that has them keeps them.
Accepted(k, p) ==
    [row EXCEPT ![k] = IF @.status = "absent"
                         THEN [NoRow EXCEPT !.status = "pending", !.due = TRUE,
                                            !.payload = p]
                         ELSE @]

\* enqueue.  Other contents under a known key are ignored if the first write
\* wins, and are an error otherwise; then the caller dispatches the key.
Enqueue(c) ==
    LET k == job[c].key
        reused == /\ row[k].status # "absent" /\ row[k].payload # job[c].payload
                  /\ k \notin FirstWins
    IN
    /\ At(c, "enqueue")
    /\ \/ /\ ~reused
          /\ row' = Accepted(k, job[c].payload)
          /\ activity' = [activity EXCEPT ![k] = IF @ = "absent" THEN "pending" ELSE @]
          /\ Goto(c, "claim")
          /\ UNCHANGED <<todo, faults>>
       \/ /\ reused
          /\ Done(c)
          /\ UNCHANGED <<row, activity, faults>>
       \/ /\ Broken(c)
          /\ UNCHANGED <<row, activity>>
    /\ UNCHANGED <<sent, canceled, calls, stalls, crashes>>

-----------------------------------------------------------------------------
(* flushPending                                                             *)

\* Mutant of Claimable: the claim of a fiber that is gone is never taken over.
ClaimableUnlessProcessing(k) ==
    row[k].due /\ row[k].status \in {"pending", "failed"}

\* Mutant of Claimable: the status is not looked at.
ClaimableAgain(k) ==
    row[k].due /\ row[k].status \in {"pending", "failed", "processing"}

Claimable(k) ==
    /\ row[k].due
    /\ \/ row[k].status \in {"pending", "failed"}
       \/ row[k].status = "processing" /\ ~row[k].live

\* listDueProjectionKeys
Flush ==
    /\ At(Flusher, "idle") /\ todo = {}
    /\ todo' = {k \in Keys : Claimable(k)}
    /\ UNCHANGED <<row, activity, sent, canceled, job, counts>>

FlushNext ==
    /\ At(Flusher, "idle")
    /\ \E k \in todo :
         /\ todo' = todo \ {k}
         /\ job' = [job EXCEPT ![Flusher] = [Idle EXCEPT !.pc = "claim", !.key = k]]
    /\ UNCHANGED <<row, activity, sent, canceled, counts>>

-----------------------------------------------------------------------------
(* dispatch                                                                 *)

\* claimProjection, which also reads the stored contents
Claim(f) ==
    LET k == job[f].key IN
    /\ At(f, "claim")
    /\ \/ /\ Claimable(k)
          /\ row' = [row EXCEPT ![k] = [@ EXCEPT !.status = "processing",
                                                 !.owner = "me", !.live = TRUE]]
          /\ job' = [job EXCEPT ![f] = [pc |-> "check", key |-> k,
                                        payload |-> row[k].payload]]
          /\ UNCHANGED <<todo, faults>>
       \/ /\ ~Claimable(k)
          /\ Done(f)
          /\ UNCHANGED <<row, faults>>
       \/ /\ Broken(f)
          /\ UNCHANGED row
    /\ UNCHANGED <<activity, sent, canceled, calls, stalls, crashes>>

\* A comment of a canceled run is settled without being sent; the run is read
\* for a comment only.
Check(f) ==
    /\ At(f, "check")
    /\ \/ /\ Goto(f, IF job[f].key \in Comments /\ canceled THEN "complete" ELSE "send")
          /\ UNCHANGED <<todo, faults>>
       \/ job[f].key \in Comments /\ Broken(f)
    /\ UNCHANGED <<row, activity, sent, canceled, calls, stalls, crashes>>

\* The call of Linear, which has no idempotency key: it succeeds, it fails, it
\* fails although Linear has the activity; or a rate limit meets the request that
\* reads the activity back, and the gateway posts it once more.
Send(f) ==
    LET posts == [sent EXCEPT ![job[f].key] = Append(@, job[f].payload)] IN
    /\ At(f, "send") \/ At(f, "again")
    /\ \/ /\ sent' = posts
          /\ Goto(f, "complete")
          /\ UNCHANGED faults
       \/ /\ faults < MaxFaults
          /\ faults' = faults + 1
          /\ \/ sent' \in {sent, posts} /\ Goto(f, "fail")
             \/ sent' = posts /\ At(f, "send") /\ Goto(f, "again")
    /\ UNCHANGED <<row, activity, canceled, todo, calls, stalls, crashes>>

\* completeProjection; a lease that is not this process's any more is an error.
Complete(f) ==
    LET k == job[f].key
        owned == row[k].owner = "me" /\ row[k].status = "processing"
    IN
    /\ At(f, "complete")
    /\ \/ /\ owned
          /\ row' = [row EXCEPT ![k] = [@ EXCEPT !.status = "completed",
                                                 !.owner = "none", !.live = FALSE]]
          /\ activity' = [activity EXCEPT ![k] = "completed"]
          /\ \/ Done(f) /\ UNCHANGED faults
             \/ Broken(f)   \* the update of last_activity_at fails
       \/ /\ ~owned
          /\ Goto(f, "fail")
          /\ UNCHANGED <<row, activity, todo, faults>>
       \/ /\ Broken(f)
          /\ UNCHANGED <<row, activity>>
    /\ UNCHANGED <<sent, canceled, calls, stalls, crashes>>

\* Mutant of Failing: the owner is not looked at.
FailingUnfenced(k) ==
    [row EXCEPT ![k] = [@ EXCEPT !.status = "failed", !.owner = "none",
                                 !.live = FALSE, !.due = FALSE]]

\* The row of a failed dispatch, if this process still owns it.
Failing(k) ==
    IF row[k].owner = "me"
      THEN [row EXCEPT ![k] = [@ EXCEPT !.status = "failed", !.owner = "none",
                                        !.live = FALSE, !.due = FALSE]]
      ELSE row

\* failWithBackoff.  The status of the activity is written without a fence.
Fail(f) ==
    LET k == job[f].key IN
    /\ At(f, "fail")
    /\ \/ /\ row' = Failing(k)
          /\ activity' = [activity EXCEPT ![k] = "failed"]
          /\ Done(f)
          /\ UNCHANGED faults
       \/ /\ Broken(f)
          /\ UNCHANGED <<row, activity>>
    /\ UNCHANGED <<sent, canceled, calls, stalls, crashes>>

-----------------------------------------------------------------------------
(* The clock, the run, and the process                                      *)

\* The retry of a failed dispatch falls due.
RetryDue(k) ==
    /\ row[k].status = "failed" /\ ~row[k].due
    /\ row' = [row EXCEPT ![k].due = TRUE]
    /\ UNCHANGED <<activity, sent, canceled, job, todo, counts>>

Held(k) ==
    \E f \in Fibers :
        job[f].key = k /\ job[f].pc \in {"check", "send", "again", "complete", "fail"}

LeaseExpires(k) ==
    /\ row[k].live
    /\ Held(k) => stalls < MaxStalls
    /\ stalls' = IF Held(k) THEN stalls + 1 ELSE stalls
    /\ row' = [row EXCEPT ![k].live = FALSE]
    /\ UNCHANGED <<activity, sent, canceled, job, todo, calls, faults, crashes>>

\* The run is canceled, or resumed by a prompt.
CancelOrResume ==
    /\ canceled' = ~canceled
    /\ UNCHANGED <<row, activity, sent, job, todo, counts>>

\* A crash and a restart, under another owner.
Crash ==
    /\ crashes < MaxCrashes
    /\ crashes' = crashes + 1
    /\ job' = [f \in Fibers |-> Idle]
    /\ todo' = {}
    /\ row' = [k \in Keys |-> IF row[k].owner = "me"
                                THEN [row[k] EXCEPT !.owner = "old"] ELSE row[k]]
    /\ UNCHANGED <<activity, sent, canceled, calls, faults, stalls>>

-----------------------------------------------------------------------------
Init ==
    /\ row = [k \in Keys |-> NoRow]
    /\ activity = [k \in Keys |-> "absent"]
    /\ sent = [k \in Keys |-> << >>]
    /\ canceled = FALSE
    /\ job = [f \in Fibers |-> Idle]
    /\ todo = {}
    /\ calls = 0 /\ faults = 0 /\ stalls = 0 /\ crashes = 0

Dispatch(f) == Claim(f) \/ Check(f) \/ Send(f) \/ Complete(f) \/ Fail(f)

Next ==
    \/ \E c \in Callers : Call(c) \/ Enqueue(c)
    \/ Flush \/ FlushNext
    \/ \E f \in Fibers : Dispatch(f)
    \/ \E k \in Keys : RetryDue(k) \/ LeaseExpires(k)
    \/ CancelOrResume
    \/ Crash

Spec == Init /\ [][Next]_vars

\* The reconciler sweeps again and again, every ready fiber runs and time passes.
Fairness ==
    /\ WF_vars(Flush) /\ WF_vars(FlushNext)
    /\ \A c \in Callers : WF_vars(Enqueue(c))
    /\ \A f \in Fibers : WF_vars(Dispatch(f))
    /\ \A k \in Keys : WF_vars(RetryDue(k)) /\ WF_vars(~Held(k) /\ LeaseExpires(k))

FairSpec == Spec /\ Fairness

-----------------------------------------------------------------------------
(* Properties                                                               *)

Row == [status : {"absent", "pending", "processing", "failed", "completed"},
        owner : {"none", "me", "old"}, live : BOOLEAN, due : BOOLEAN,
        payload : Payloads \cup {None}]

Job == [pc : {"idle", "enqueue", "claim", "check", "send", "again", "complete", "fail"},
        key : Keys \cup {None}, payload : Payloads \cup {None}]

TypeOK ==
    /\ row \in [Keys -> Row]
    /\ \A k \in Keys : row[k].status = "processing" <=> row[k].owner # "none"
    /\ activity \in [Keys -> {"absent", "pending", "failed", "completed"}]
    /\ sent \in [Keys -> Seq(Payloads)]
    /\ canceled \in BOOLEAN
    /\ job \in [Fibers -> Job]
    /\ todo \subseteq Keys
    /\ calls \in 0 .. MaxCalls /\ faults \in 0 .. MaxFaults
    /\ stalls \in 0 .. MaxStalls /\ crashes \in 0 .. MaxCrashes

Feed == INSTANCE ActivityFeed WITH
    Optional <- Comments,
    accepted <- [k \in Keys |-> row[k].payload],
    posted <- sent,
    settled <- {k \in Keys : row[k].status = "completed"}

\* However dispatches of one key overlap, fail and are retried, the outbox is
\* the feed it promises: only the contents accepted first are posted, a key is
\* settled only after a post, and for good.
ImplementsFeed == Feed!Spec

\* As long as no lease expires under its call, an activity is posted again only
\* after a call without a clear answer, a rate limit on reading it back, a failure
\* of the database or a crash, once for each: concurrent callers and flushes by
\* themselves never repeat one.
RepeatNeedsCause ==
    stalls = 0 => \A k \in Keys : Len(sent[k]) <= 1 + faults + crashes

\* What was accepted is settled in the end, across failures of Linear and of
\* the database, lost leases and crashes.
AcceptedSettles ==
    \A k \in Keys :
        row[k].status # "absent" ~> row[k].status = "completed"

=============================================================================
