----------------------- MODULE WorkerIdentityProofs -----------------------
(***************************************************************************)
(* Proofs about WorkerIdentity, for any sessions, range of uids, process   *)
(* ids and bounds: the types, the exclusive use of a uid, and what a step  *)
(* may not do to a worker and to a workspace.                              *)
(*                                                                         *)
(* UidExclusive is not inductive: a fiber uses the uid it was given some   *)
(* steps ago (Preparing), and a sweep works on a choice of rows it made at *)
(* its start and may be undone by a rollback, which must find the          *)
(* processes that are left under the identities it restores (Sweeping).    *)
(***************************************************************************)
EXTENDS WorkerIdentity, FiniteSetTheorems, TLAPS

\* The steps of a fiber before it has a worker, and those after it was given a uid.
Given == {"recover", "target", "clone", "fetch", "publish", "record", "prepare", "spawn"}

Before == Given \cup {"acquire"}

\* Every process runs under the uid its session holds.
Covered(ids) == \A p \in procs : ids[p[2]] = [uid |-> p[1], active |-> TRUE]

\* A uid that is held is of the range, and no two sessions hold the same one.
Allotted(ids) ==
    \A s \in Sessions :
        ids[s].active =>
            /\ ids[s].uid \in Uids
            /\ \A t \in Sessions : ids[t].active /\ s # t => ids[s].uid # ids[t].uid

\* A fiber that prepares a worker does so for an active run, without a worker, under
\* the uid its session holds; while it clones there is no workspace.
Prepared(s) ==
    /\ job[s].pc \in Before => run[s].state = "active"
    /\ job[s].pc \in Before \cup {"release"} => s \notin workers
    /\ job[s].pc \in Given => identity[s] = [uid |-> job[s].uid, active |-> TRUE]
    /\ job[s].pc \in {"clone", "fetch", "publish"} => tree[s].files = "none"

Preparing == \A s \in Sessions : Prepared(s)

\* What a sweep has still to look at has ended and is leased by nobody; what a
\* rollback restores is as sound as what it replaces.
Sweeping ==
    sweep.on =>
        /\ \A s \in sweep.rows : Ended(s) /\ ~Fenced(s)
        /\ sweep.before \in Runs \X Identities
        /\ Covered(sweep.before[2]) /\ Allotted(sweep.before[2])

\* The inductive invariant.
IInv == TypeOK /\ Covered(identity) /\ Allotted(identity) /\ Preparing /\ Sweeping

-----------------------------------------------------------------------------
(* Steps of fibers, of the clock and of the user                            *)

\* A step that does not touch what a fiber relies on leaves it prepared.
LEMMA Undisturbed ==
  ASSUME NEW t \in Sessions, Prepared(t), job'[t] = job[t],
         run'[t].state = run[t].state \/ run[t].state # "active",
         identity'[t] = identity[t] \/ job[t].pc \notin Given,
         t \in workers' => t \in workers,
         tree'[t].files = tree[t].files \/ tree[t].files # "none"
  PROVE Prepared(t)'
BY DEF Prepared, Given, Before

\* Recovery moves no process and no identity; only the fiber's pc and clones change.
LEMMA RecoverIInv == ASSUME IInv, NEW s \in Sessions, Recover(s) PROVE IInv'
<1>1. TypeOK'
  <2>1. job' \in Jobs
    BY DEF IInv, TypeOK, Recover, Goto, Jobs, Pcs
  <2>2. clones' \in Clones
    BY DEF IInv, TypeOK, Recover, Abandoned, Clones, Jobs
  <2>3. troubles' \in 0 .. MaxTroubles
    BY IdentityAssumption DEF IInv, TypeOK, Recover, Trouble
  <2>4. recovered' \in {"no", "failed", "yes"}
    BY DEF IInv, TypeOK, Recover
  <2> QED  BY <2>1, <2>2, <2>3, <2>4 DEF IInv, TypeOK, Recover, rows
<1>2. Covered(identity)' /\ Allotted(identity)'
  BY DEF IInv, Covered, Allotted, Recover, rows
<1>3. Preparing'
  <2> SUFFICES ASSUME NEW t \in Sessions PROVE Prepared(t)'
    BY DEF Preparing
  <2>1. CASE t = s
    BY <2>1 DEF IInv, TypeOK, Preparing, Prepared, Jobs, Given, Before, At, Goto,
       Recover, rows
  <2>2. CASE t # s
    BY <2>2, Undisturbed DEF IInv, TypeOK, Preparing, Jobs, Goto, Recover, rows
  <2> QED  BY <2>1, <2>2
<1>4. Sweeping'
  BY DEF Sweeping, Running, Recover, At
<1> QED  BY <1>1, <1>2, <1>3, <1>4 DEF IInv

\* Reusing a workspace gives it to the uid the fiber was given.
LEMMA TargetIInv == ASSUME IInv, NEW s \in Sessions, Target(s) PROVE IInv'
<1>1. TypeOK'
  <2>1. job' \in Jobs
    BY DEF IInv, TypeOK, Target, Goto, Jobs, Pcs
  <2>2. tree' \in Trees
    BY DEF IInv, TypeOK, Target, Chowned, Trees, Jobs
  <2>3. troubles' \in 0 .. MaxTroubles
    BY IdentityAssumption DEF IInv, TypeOK, Target, Trouble
  <2> QED  BY <2>1, <2>2, <2>3 DEF IInv, TypeOK, Target, rows, memory
<1>2. Covered(identity)' /\ Allotted(identity)'
  BY DEF IInv, Covered, Allotted, Target, rows
<1>3. Preparing'
  <2> SUFFICES ASSUME NEW t \in Sessions PROVE Prepared(t)'
    BY DEF Preparing
  <2>1. CASE t = s
    BY <2>1 DEF IInv, TypeOK, Preparing, Prepared, Jobs, Given, Before, At, Goto,
       Trees, Chowned, Target, rows, memory
  <2>2. CASE t # s
    BY <2>2, Undisturbed DEF IInv, TypeOK, Preparing, Jobs, Goto, Trees, Chowned,
       Target, rows, memory
  <2> QED  BY <2>1, <2>2
<1>4. Sweeping'
  BY DEF Sweeping, Running, Target, At
<1> QED  BY <1>1, <1>2, <1>3, <1>4 DEF IInv

\* A clone starts as root's.
LEMMA CloneIInv == ASSUME IInv, NEW s \in Sessions, Clone(s) PROVE IInv'
<1>1. TypeOK'
  <2>1. job' \in Jobs
    BY DEF IInv, TypeOK, Clone, Goto, Jobs, Pcs
  <2>2. clones' \in Clones
    BY IdentityAssumption DEF IInv, TypeOK, Clone, Clones, Owners, Running, At
  <2> QED  BY <2>1, <2>2 DEF IInv, TypeOK, Clone, rows, memory, budget
<1>2. Covered(identity)' /\ Allotted(identity)'
  BY DEF IInv, Covered, Allotted, Clone, rows
<1>3. Preparing'
  <2> SUFFICES ASSUME NEW t \in Sessions PROVE Prepared(t)'
    BY DEF Preparing
  <2>1. CASE t = s
    BY <2>1 DEF IInv, TypeOK, Preparing, Prepared, Jobs, Given, Before, At, Goto,
       Clone, rows, memory
  <2>2. CASE t # s
    BY <2>2, Undisturbed DEF IInv, TypeOK, Preparing, Jobs, Goto, Clone, rows,
       memory
  <2> QED  BY <2>1, <2>2
<1>4. Sweeping'
  BY DEF Sweeping, Running, Clone, At
<1> QED  BY <1>1, <1>2, <1>3, <1>4 DEF IInv

\* git runs under the uid the fiber was given, which its session still holds.
LEMMA FetchIInv == ASSUME IInv, NEW s \in Sessions, Fetch(s) PROVE IInv'
<1>1. TypeOK'
  <2>1. job' \in Jobs
    BY DEF IInv, TypeOK, Fetch, Goto, Jobs, Pcs
  <2>2. clones' \in Clones
    BY DEF IInv, TypeOK, Fetch, Mine, Clones, Jobs, Running, At
  <2>3. procs' \in SUBSET (Uids \X Sessions)
    BY DEF IInv, TypeOK, Fetch, Preparing, Prepared, Given, Allotted, At, Jobs,
       Identities
  <2> QED  BY <2>1, <2>2, <2>3 DEF IInv, TypeOK, Fetch, rows, memory, budget
<1>2. Covered(identity)' /\ Allotted(identity)'
  <2>1. identity' = identity /\ \A p \in procs' : p \in procs \/ p = <<job[s].uid, s>>
    BY DEF Fetch, rows
  <2>2. identity[s] = [uid |-> job[s].uid, active |-> TRUE]
    BY DEF Fetch, At, IInv, Preparing, Prepared, Given
  <2>3. ASSUME NEW p \in procs' PROVE identity'[p[2]] = [uid |-> p[1], active |-> TRUE]
    <3>1. CASE p \in procs
      BY <2>1, <3>1 DEF IInv, Covered
    <3>2. CASE p = <<job[s].uid, s>>
      BY <2>1, <2>2, <3>2
    <3> QED  BY <2>1, <3>1, <3>2
  <2> QED  BY <2>1, <2>3 DEF IInv, Covered, Allotted
<1>3. Preparing'
  <2> SUFFICES ASSUME NEW t \in Sessions PROVE Prepared(t)'
    BY DEF Preparing
  <2>1. CASE t = s
    BY <2>1 DEF IInv, TypeOK, Preparing, Prepared, Jobs, Given, Before, At, Goto,
       Fetch, rows, memory
  <2>2. CASE t # s
    BY <2>2, Undisturbed DEF IInv, TypeOK, Preparing, Jobs, Goto, Fetch, rows,
       memory
  <2> QED  BY <2>1, <2>2
<1>4. Sweeping'
  BY DEF Sweeping, Running, Fetch, At
<1> QED  BY <1>1, <1>2, <1>3, <1>4 DEF IInv

\* Publication makes a workspace where there was none.
LEMMA PublishIInv == ASSUME IInv, NEW s \in Sessions, Publish(s) PROVE IInv'
<1>1. TypeOK'
  <2>1. job' \in Jobs
    BY DEF IInv, TypeOK, Publish, Goto, Jobs, Pcs
  <2>2. clones' \in Clones
    BY DEF IInv, TypeOK, Publish, Mine, Clones
  <2>3. tree' \in Trees
    BY DEF IInv, TypeOK, Publish, Trees, Jobs
  <2>4. troubles' \in 0 .. MaxTroubles
    BY IdentityAssumption DEF IInv, TypeOK, Publish, Trouble
  <2> QED  BY <2>1, <2>2, <2>3, <2>4 DEF IInv, TypeOK, Publish, rows, memory
<1>2. Covered(identity)' /\ Allotted(identity)'
  BY DEF IInv, Covered, Allotted, Publish, rows
<1>3. Preparing'
  <2> SUFFICES ASSUME NEW t \in Sessions PROVE Prepared(t)'
    BY DEF Preparing
  <2>1. CASE t = s
    BY <2>1 DEF IInv, TypeOK, Preparing, Prepared, Jobs, Given, Before, At, Goto,
       Trees, Publish, rows, memory
  <2>2. CASE t # s
    BY <2>2, Undisturbed DEF IInv, TypeOK, Preparing, Jobs, Goto, Trees, Publish,
       rows, memory
  <2> QED  BY <2>1, <2>2
<1>4. Sweeping'
  BY DEF Sweeping, Running, Publish, At
<1> QED  BY <1>1, <1>2, <1>3, <1>4 DEF IInv

\* Recording the path leaves the run active.
LEMMA RecordIInv == ASSUME IInv, NEW s \in Sessions, Record(s) PROVE IInv'
<1>1. TypeOK'
  <2>1. job' \in Jobs
    BY DEF IInv, TypeOK, Record, Goto, Jobs, Pcs
  <2>2. run' \in Runs
    BY DEF IInv, TypeOK, Record, Runs
  <2> QED  BY <2>1, <2>2 DEF IInv, TypeOK, Record, disk, memory, budget
<1>2. Covered(identity)' /\ Allotted(identity)'
  BY DEF IInv, Covered, Allotted, Record, disk
<1>3. Preparing'
  <2> SUFFICES ASSUME NEW t \in Sessions PROVE Prepared(t)'
    BY DEF Preparing
  <2>1. CASE t = s
    BY <2>1 DEF IInv, TypeOK, Preparing, Prepared, Jobs, Given, Before, At, Goto,
       Runs, Record, disk, memory
  <2>2. CASE t # s
    BY <2>2, Undisturbed DEF IInv, TypeOK, Preparing, Jobs, Goto, Runs, Record,
       disk, memory
  <2> QED  BY <2>1, <2>2
<1>4. Sweeping'
  BY DEF Sweeping, Running, Record, At
<1> QED  BY <1>1, <1>2, <1>3, <1>4 DEF IInv

\* A visit begins without a worker, for an active run.
LEMMA ClaimIInv == ASSUME IInv, NEW s \in Sessions, Claim(s) PROVE IInv'
<1>1. TypeOK'
  <2>1. job' \in Jobs
    BY DEF IInv, TypeOK, Claim, Goto, Jobs, Pcs
  <2>2. run' \in Runs
    BY DEF IInv, TypeOK, Claim, Leased, Runs
  <2>3. lease' \in Leases
    BY DEF IInv, TypeOK, Claim, Leased, Leases
  <2> QED  BY <2>1, <2>2, <2>3 DEF IInv, TypeOK, Claim, Leased, disk, memory, budget
<1>2. Covered(identity)' /\ Allotted(identity)'
  BY DEF IInv, Covered, Allotted, Claim, disk
<1>3. Preparing'
  <2> SUFFICES ASSUME NEW t \in Sessions PROVE Prepared(t)'
    BY DEF Preparing
  <2>1. CASE t = s
    BY <2>1 DEF IInv, TypeOK, Preparing, Prepared, Jobs, Given, Before, At, Goto,
       Runs, Claim, Leased, disk, memory
  <2>2. CASE t # s
    BY <2>2, Undisturbed DEF IInv, TypeOK, Preparing, Jobs, Goto, Runs, Claim,
       Leased, disk, memory
  <2> QED  BY <2>1, <2>2
<1>4. Sweeping'
  BY DEF Sweeping, Running, Claim, At
<1> QED  BY <1>1, <1>2, <1>3, <1>4 DEF IInv

\* Preparation gives the workspace to the uid the session holds.
LEMMA PrepareIInv == ASSUME IInv, NEW s \in Sessions, Prepare(s) PROVE IInv'
<1>1. TypeOK'
  <2>1. job' \in Jobs
    BY DEF IInv, TypeOK, Prepare, Goto, Jobs, Pcs
  <2>2. tree' \in Trees
    BY DEF IInv, TypeOK, Prepare, Chowned, Trees, Jobs
  <2>3. troubles' \in 0 .. MaxTroubles
    BY IdentityAssumption DEF IInv, TypeOK, Prepare, Trouble
  <2> QED  BY <2>1, <2>2, <2>3 DEF IInv, TypeOK, Prepare, rows, memory
<1>2. Covered(identity)' /\ Allotted(identity)'
  BY DEF IInv, Covered, Allotted, Prepare, rows
<1>3. Preparing'
  <2> SUFFICES ASSUME NEW t \in Sessions PROVE Prepared(t)'
    BY DEF Preparing
  <2>1. CASE t = s
    BY <2>1 DEF IInv, TypeOK, Preparing, Prepared, Jobs, Given, Before, At, Goto,
       Trees, Chowned, Prepare, rows, memory
  <2>2. CASE t # s
    BY <2>2, Undisturbed DEF IInv, TypeOK, Preparing, Jobs, Goto, Trees, Chowned,
       Prepare, rows, memory
  <2> QED  BY <2>1, <2>2
<1>4. Sweeping'
  BY DEF Sweeping, Running, Prepare, At
<1> QED  BY <1>1, <1>2, <1>3, <1>4 DEF IInv

\* The worker starts under the uid its session still holds.
LEMMA SpawnIInv == ASSUME IInv, NEW s \in Sessions, Spawn(s) PROVE IInv'
<1>1. TypeOK'
  <2>1. job' \in Jobs
    BY IdentityAssumption DEF IInv, TypeOK, Spawn, Goto, NoJob, Jobs, Pcs, Owners
  <2>2. workers' \in SUBSET Sessions
    BY DEF IInv, TypeOK, Spawn
  <2>3. procs' \in SUBSET (Uids \X Sessions)
    BY DEF IInv, TypeOK, Spawn, Preparing, Prepared, Given, Allotted, At, Jobs,
       Identities
  <2> QED  BY <2>1, <2>2, <2>3 DEF IInv, TypeOK, Spawn, rows, budget
<1>2. Covered(identity)' /\ Allotted(identity)'
  <2>1. identity' = identity /\ \A p \in procs' : p \in procs \/ p = <<job[s].uid, s>>
    BY DEF Spawn, rows
  <2>2. identity[s] = [uid |-> job[s].uid, active |-> TRUE]
    BY DEF Spawn, At, IInv, Preparing, Prepared, Given
  <2>3. ASSUME NEW p \in procs' PROVE identity'[p[2]] = [uid |-> p[1], active |-> TRUE]
    <3>1. CASE p \in procs
      BY <2>1, <3>1 DEF IInv, Covered
    <3>2. CASE p = <<job[s].uid, s>>
      BY <2>1, <2>2, <3>2
    <3> QED  BY <2>1, <3>1, <3>2
  <2> QED  BY <2>1, <2>3 DEF IInv, Covered, Allotted
<1>3. Preparing'
  <2> SUFFICES ASSUME NEW t \in Sessions PROVE Prepared(t)'
    BY DEF Preparing
  <2>1. CASE t = s
    BY <2>1 DEF IInv, TypeOK, Preparing, Prepared, Jobs, Given, Before, At, Goto,
       NoJob, Spawn, rows
  <2>2. CASE t # s
    BY <2>2, Undisturbed DEF IInv, TypeOK, Preparing, Jobs, Goto, NoJob, Spawn, rows
  <2> QED  BY <2>1, <2>2
<1>4. Sweeping'
  BY DEF Sweeping, Running, Spawn, At
<1> QED  BY <1>1, <1>2, <1>3, <1>4 DEF IInv

\* A run that finishes has a worker, so no fiber prepares one.
LEMMA FinishIInv == ASSUME IInv, NEW s \in Sessions, Finish(s) PROVE IInv'
<1>1. TypeOK'
  <2>1. job' \in Jobs
    BY DEF IInv, TypeOK, Finish, Goto, Jobs, Pcs
  <2>2. run' \in Runs
    BY DEF IInv, TypeOK, Finish, Runs
  <2> QED  BY <2>1, <2>2 DEF IInv, TypeOK, Finish, disk, memory, budget
<1>2. Covered(identity)' /\ Allotted(identity)'
  BY DEF IInv, Covered, Allotted, Finish, disk
<1>3. Preparing'
  <2> SUFFICES ASSUME NEW t \in Sessions PROVE Prepared(t)'
    BY DEF Preparing
  <2>1. CASE t = s
    BY <2>1 DEF IInv, TypeOK, Preparing, Prepared, Jobs, Given, Before, At, Goto,
       Runs, Finish, disk, memory
  <2>2. CASE t # s
    BY <2>2, Undisturbed DEF IInv, TypeOK, Preparing, Jobs, Goto, Runs, Finish,
       disk, memory
  <2> QED  BY <2>1, <2>2
<1>4. Sweeping'
  BY DEF Sweeping, Running, Finish, At
<1> QED  BY <1>1, <1>2, <1>3, <1>4 DEF IInv

\* A run that is denied has a worker, so no fiber prepares one.
LEMMA DenyIInv == ASSUME IInv, NEW s \in Sessions, Deny(s) PROVE IInv'
<1>1. TypeOK'
  <2>1. run' \in Runs
    BY DEF IInv, TypeOK, Deny, Runs
  <2> QED  BY <2>1 DEF IInv, TypeOK, Deny, disk, memory, budget
<1>2. Covered(identity)' /\ Allotted(identity)'
  BY DEF IInv, Covered, Allotted, Deny, disk
<1>3. Preparing'
  <2> SUFFICES ASSUME NEW t \in Sessions PROVE Prepared(t)'
    BY DEF Preparing
  <2>1. CASE t = s
    BY <2>1 DEF IInv, TypeOK, Preparing, Prepared, Runs, Deny, disk, memory
  <2>2. CASE t # s
    BY <2>2, Undisturbed DEF IInv, TypeOK, Preparing, Runs, Deny, disk, memory
  <2> QED  BY <2>1, <2>2
<1>4. Sweeping'
  BY DEF Sweeping, Running, Deny, At
<1> QED  BY <1>1, <1>2, <1>3, <1>4 DEF IInv

\* A cancellation begins when no fiber is inside the gate.
LEMMA CancelIInv == ASSUME IInv, NEW s \in Sessions, Cancel(s) PROVE IInv'
<1>1. TypeOK'
  <2>1. job' \in Jobs
    BY DEF IInv, TypeOK, Cancel, Goto, Jobs, Pcs
  <2>2. run' \in Runs
    BY DEF IInv, TypeOK, Cancel, Leased, Runs
  <2>3. lease' \in Leases
    BY DEF IInv, TypeOK, Cancel, Leased, Leases
  <2> QED  BY <2>1, <2>2, <2>3 DEF IInv, TypeOK, Cancel, Leased, disk, memory, budget
<1>2. Covered(identity)' /\ Allotted(identity)'
  BY DEF IInv, Covered, Allotted, Cancel, disk
<1>3. Preparing'
  <2> SUFFICES ASSUME NEW t \in Sessions PROVE Prepared(t)'
    BY DEF Preparing
  <2>1. CASE t = s
    BY <2>1 DEF IInv, TypeOK, Preparing, Prepared, Jobs, Given, Before, At, Goto,
       Runs, Cancel, Leased, disk, memory
  <2>2. CASE t # s
    BY <2>2, Undisturbed DEF IInv, TypeOK, Preparing, Jobs, Goto, Runs, Cancel,
       Leased, disk, memory
  <2> QED  BY <2>1, <2>2
<1>4. Sweeping'
  BY DEF Sweeping, Running, Cancel, At
<1> QED  BY <1>1, <1>2, <1>3, <1>4 DEF IInv

\* A failure begins when no fiber is inside the gate.
LEMMA LoseIInv == ASSUME IInv, NEW s \in Sessions, Lose(s) PROVE IInv'
<1>1. TypeOK'
  <2>1. job' \in Jobs
    BY DEF IInv, TypeOK, Lose, Goto, Jobs, Pcs
  <2>2. troubles' \in 0 .. MaxTroubles
    BY IdentityAssumption DEF IInv, TypeOK, Lose, Trouble
  <2> QED  BY <2>1, <2>2 DEF IInv, TypeOK, Lose, rows, disk, memory
<1>2. Covered(identity)' /\ Allotted(identity)'
  BY DEF IInv, Covered, Allotted, Lose, rows, disk
<1>3. Preparing'
  <2> SUFFICES ASSUME NEW t \in Sessions PROVE Prepared(t)'
    BY DEF Preparing
  <2>1. CASE t = s
    BY <2>1 DEF IInv, TypeOK, Preparing, Prepared, Jobs, Given, Before, At, Goto,
       Lose, rows, disk, memory
  <2>2. CASE t # s
    BY <2>2, Undisturbed DEF IInv, TypeOK, Preparing, Jobs, Goto, Lose, rows, disk,
       memory
  <2> QED  BY <2>1, <2>2
<1>4. Sweeping'
  BY DEF Sweeping, Running, Lose, At
<1> QED  BY <1>1, <1>2, <1>3, <1>4 DEF IInv

\* Stopping a worker leaves fewer processes.
LEMMA StopIInv == ASSUME IInv, NEW s \in Sessions, Stop(s) PROVE IInv'
<1>1. TypeOK'
  <2>1. job' \in Jobs
    BY DEF IInv, TypeOK, Stop, Goto, Jobs, Pcs
  <2>2. run' \in Runs
    BY DEF IInv, TypeOK, Stop, Runs
  <2>3. procs' \in SUBSET (Uids \X Sessions)
    BY DEF IInv, TypeOK, Stop
  <2>4. workers' \in SUBSET Sessions
    BY DEF IInv, TypeOK, Stop
  <2> QED  BY <2>1, <2>2, <2>3, <2>4 DEF IInv, TypeOK, Stop, budget
<1>2. Covered(identity)' /\ Allotted(identity)'
  BY DEF IInv, Covered, Allotted, Stop
<1>3. Preparing'
  <2> SUFFICES ASSUME NEW t \in Sessions PROVE Prepared(t)'
    BY DEF Preparing
  <2>1. CASE t = s
    BY <2>1 DEF IInv, TypeOK, Preparing, Prepared, Jobs, Given, Before, At, Goto,
       Runs, Stop
  <2>2. CASE t # s
    BY <2>2, Undisturbed DEF IInv, TypeOK, Preparing, Jobs, Goto, Runs, Stop
  <2> QED  BY <2>1, <2>2
<1>4. Sweeping'
  BY DEF Sweeping, Running, Stop, At
<1> QED  BY <1>1, <1>2, <1>3, <1>4 DEF IInv

\* A skipped row is one less to look at.
LEMMA SweepSkipsIInv == ASSUME IInv, NEW s \in Sessions, SweepSkips(s) PROVE IInv'
<1>1. TypeOK'
  <2>1. sweep' \in Sweeps
    BY DEF IInv, TypeOK, SweepSkips, Sweeps
  <2> QED  BY <2>1 DEF IInv, TypeOK, SweepSkips, rows, disk, memory, budget
<1>2. Covered(identity)' /\ Allotted(identity)'
  BY DEF IInv, Covered, Allotted, SweepSkips, rows, disk
<1>3. Preparing'
  BY DEF IInv, Preparing, Prepared, SweepSkips, rows, disk, memory
<1>4. Sweeping'
  BY DEF IInv, Sweeping, TypeOK, Sweeps, Covered, Allotted, Ended, Fenced,
     SweepSkips, rows, disk, memory, budget
<1> QED  BY <1>1, <1>2, <1>3, <1>4 DEF IInv

\* A removal that fails leaves fewer processes, and touches an ended run only.
LEMMA SweepFailsIInv == ASSUME IInv, NEW s \in Sessions, SweepFails(s) PROVE IInv'
<1>1. TypeOK'
  <2>1. procs' \in SUBSET (Uids \X Sessions)
    BY DEF IInv, TypeOK, SweepFails, Without
  <2>2. tree' \in Trees
    BY IdentityAssumption DEF IInv, TypeOK, SweepFails, Trees, RemovalUid,
       Identities, Owners
  <2>3. sweep' \in Sweeps
    BY DEF IInv, TypeOK, SweepFails, Sweeps
  <2>4. troubles' \in 0 .. MaxTroubles
    BY IdentityAssumption DEF IInv, TypeOK, SweepFails, Trouble
  <2> QED  BY <2>1, <2>2, <2>3, <2>4 DEF IInv, TypeOK, SweepFails, rows, memory
<1>2. Covered(identity)' /\ Allotted(identity)'
  BY DEF IInv, Covered, Allotted, SweepFails, Without, rows
<1>3. Preparing'
  <2> SUFFICES ASSUME NEW t \in Sessions PROVE Prepared(t)'
    BY DEF Preparing
  <2>1. CASE t = s
    BY <2>1 DEF IInv, TypeOK, Preparing, Prepared, Trees, Sweeping, Ended, Before,
       SweepFails, rows, memory
  <2>2. CASE t # s
    BY <2>2, Undisturbed DEF IInv, TypeOK, Preparing, Trees, SweepFails, rows,
       memory
  <2> QED  BY <2>1, <2>2
<1>4. Sweeping'
  BY DEF IInv, Sweeping, TypeOK, Sweeps, Covered, Allotted, Ended, Fenced, Without,
     SweepFails, rows, memory
<1> QED  BY <1>1, <1>2, <1>3, <1>4 DEF IInv

\* A prompt makes a run active, outside any sweep.
LEMMA EnqueueIInv == ASSUME IInv, NEW s \in Sessions, Enqueue(s) PROVE IInv'
<1>1. TypeOK'
  <2>1. prompts' \in 0 .. MaxPrompts
    BY IdentityAssumption DEF IInv, TypeOK, Enqueue
  <2>2. run' \in Runs
    BY DEF IInv, TypeOK, Enqueue, Runs
  <2> QED  BY <2>1, <2>2 DEF IInv, TypeOK, Enqueue, disk, memory
<1>2. Covered(identity)' /\ Allotted(identity)'
  BY DEF IInv, Covered, Allotted, Enqueue, disk
<1>3. Preparing'
  <2> SUFFICES ASSUME NEW t \in Sessions PROVE Prepared(t)'
    BY DEF Preparing
  <2>1. CASE t = s
    BY <2>1 DEF IInv, TypeOK, Preparing, Prepared, Runs, Before, Given, Enqueue,
       disk, memory
  <2>2. CASE t # s
    BY <2>2, Undisturbed DEF IInv, TypeOK, Preparing, Runs, Enqueue, disk, memory
  <2> QED  BY <2>1, <2>2
<1>4. Sweeping'
  BY DEF Sweeping, Running, Enqueue
<1> QED  BY <1>1, <1>2, <1>3, <1>4 DEF IInv

\* The age of a run is not its state.
LEMMA AgeIInv == ASSUME IInv, NEW s \in Sessions, Age(s) PROVE IInv'
<1>1. TypeOK'
  <2>1. run' \in Runs
    BY DEF IInv, TypeOK, Age, Runs
  <2> QED  BY <2>1 DEF IInv, TypeOK, Age, disk, memory, budget
<1>2. Covered(identity)' /\ Allotted(identity)'
  BY DEF IInv, Covered, Allotted, Age, disk
<1>3. Preparing'
  <2> SUFFICES ASSUME NEW t \in Sessions PROVE Prepared(t)'
    BY DEF Preparing
  <2>1. CASE t = s
    BY <2>1 DEF IInv, TypeOK, Preparing, Prepared, Runs, Age, disk, memory
  <2>2. CASE t # s
    BY <2>2, Undisturbed DEF IInv, TypeOK, Preparing, Runs, Age, disk, memory
  <2> QED  BY <2>1, <2>2
<1>4. Sweeping'
  BY DEF IInv, Sweeping, Age
<1> QED  BY <1>1, <1>2, <1>3, <1>4 DEF IInv

\* A lease never comes to life by expiring.
LEMMA LeaseExpiresIInv == ASSUME IInv, NEW s \in Sessions, LeaseExpires(s) PROVE IInv'
<1>1. TypeOK'
  <2>1. lease' \in Leases
    BY DEF IInv, TypeOK, LeaseExpires, Leases
  <2>2. troubles' \in 0 .. MaxTroubles
    BY IdentityAssumption DEF IInv, TypeOK, LeaseExpires, Trouble
  <2> QED  BY <2>1, <2>2 DEF IInv, TypeOK, LeaseExpires, disk, memory
<1>2. Covered(identity)' /\ Allotted(identity)'
  BY DEF IInv, Covered, Allotted, LeaseExpires, disk
<1>3. Preparing'
  BY DEF IInv, Preparing, Prepared, LeaseExpires, disk, memory
<1>4. Sweeping'
  BY DEF IInv, Sweeping, LeaseExpires
<1> QED  BY <1>1, <1>2, <1>3, <1>4 DEF IInv

-----------------------------------------------------------------------------
(* Retirement of identities                                                 *)

\* What retireWorkerIdentitySync does keeps the types; the processes that are left
\* run under identities that are left.
LEMMA Retirement ==
  ASSUME TypeOK, Covered(identity), Allotted(identity),
         NEW S \in SUBSET Sessions, NEW failed, Retired(S, failed)
  PROVE  /\ tree' \in Trees /\ clones' \in Clones /\ troubles' \in 0 .. MaxTroubles
         /\ procs' \in SUBSET procs
         /\ \A t \in Sessions : tree'[t].files = tree[t].files
         /\ Freed(S \ failed) \in Identities
         /\ Allotted(Freed(S \ failed))
         /\ \A p \in procs' : Freed(S \ failed)[p[2]] = [uid |-> p[1], active |-> TRUE]
<1> USE IdentityAssumption
<1> DEFINE done == S \ failed
<1>1. done \in SUBSET Sessions
  OBVIOUS
<1>2. /\ tree' = SealedTrees(UidsOf(done)) /\ clones' = SealedClones(UidsOf(done))
      /\ troubles' = troubles + Cardinality(failed)
      /\ troubles + Cardinality(failed) <= MaxTroubles
      /\ failed \subseteq S
      /\ \E stopped \in SUBSET failed : procs' = Without(UidsOf(done \cup stopped))
  BY DEF Retired
<1>3. tree' \in Trees /\ \A t \in Sessions : tree'[t].files = tree[t].files
  BY <1>2 DEF TypeOK, Trees, Owners, SealedTrees
<1>4. clones' \in Clones
  BY <1>2 DEF TypeOK, Clones, Owners, SealedClones
<1>5. troubles' \in 0 .. MaxTroubles
  <2>1. IsFiniteSet(failed)
    BY <1>2, FS_Subset
  <2>2. Cardinality(failed) \in Nat
    BY <2>1, FS_CardinalityType
  <2> QED  BY <1>2, <2>2 DEF TypeOK
<1>6. procs' \in SUBSET procs /\ \A p \in procs' : p[1] \notin UidsOf(done)
  BY <1>2 DEF Without, UidsOf
<1>7. Freed(done) \in Identities
  BY <1>1 DEF TypeOK, Freed, Identities
<1>8. Allotted(Freed(done))
  BY <1>1 DEF TypeOK, Freed, Identities, Allotted
<1>9. ASSUME NEW p \in procs'
      PROVE  Freed(done)[p[2]] = [uid |-> p[1], active |-> TRUE]
  <2>1. p \in procs /\ p[1] \notin UidsOf(done) /\ p[2] \in Sessions
    BY <1>6 DEF TypeOK
  <2>2. identity[p[2]] = [uid |-> p[1], active |-> TRUE]
    BY <2>1 DEF Covered
  <2>3. p[2] \notin done
    BY <2>1, <2>2 DEF UidsOf
  <2> QED  BY <2>1, <2>2, <2>3 DEF Freed
<1> QED  BY <1>3, <1>4, <1>5, <1>6, <1>7, <1>8, <1>9

\* Allocation gives a session its own uid or one nobody holds, after what was retired.
LEMMA AcquireIInv == ASSUME IInv, NEW s \in Sessions, Acquire(s) PROVE IInv'
<1> USE IdentityAssumption
<1> DEFINE old == {t \in Sessions \ {s} : Retirable(t)}
<1>1. PICK failed \in SUBSET old :
        /\ Retired(old, failed)
        /\ \/ Goto(s, "fail") /\ UNCHANGED identity
           \/ \E u \in Candidates(s, Freed(old \ failed)) :
                /\ identity' = [Freed(old \ failed) EXCEPT
                                  ![s] = [uid |-> u, active |-> TRUE]]
                /\ job' = [job EXCEPT ![s] =
                             [pc |-> IF run[s].path THEN "prepare" ELSE "recover",
                              uid |-> u]]
  BY DEF Acquire
<1> DEFINE ids == Freed(old \ failed)
<1>2. /\ tree' \in Trees /\ clones' \in Clones /\ troubles' \in 0 .. MaxTroubles
      /\ procs' \in SUBSET procs
      /\ \A t \in Sessions : tree'[t].files = tree[t].files
      /\ ids \in Identities /\ Allotted(ids)
      /\ \A p \in procs' : ids[p[2]] = [uid |-> p[1], active |-> TRUE]
  <2> HIDE DEF old
  <2>1. old \in SUBSET Sessions
    BY DEF old
  <2> QED  BY <1>1, <2>1, Retirement DEF IInv
<1>3. \A t \in Sessions : t # s => ids[t] = identity[t] \/ Ended(t)
  BY DEF Freed, Retirable
<1>4. ids[s] = identity[s]
  BY DEF Freed
<1>5. /\ job[s].pc = "acquire" /\ ~sweep.on
      /\ UNCHANGED <<run, lease, gateway, recovered, workers, sweep, crashes, prompts>>
  BY DEF Acquire, At, Running, memory
<1>6. Sweeping'
  BY <1>5 DEF Sweeping
<1>7. CASE Goto(s, "fail") /\ UNCHANGED identity
  <2>1. job' \in Jobs
    BY <1>7 DEF IInv, TypeOK, Goto, Jobs, Pcs
  <2>2. TypeOK'
    BY <1>2, <1>5, <1>7, <2>1 DEF IInv, TypeOK
  <2>3. Covered(identity)' /\ Allotted(identity)'
    BY <1>2, <1>7 DEF IInv, Covered, Allotted
  <2>4. ASSUME NEW t \in Sessions PROVE Prepared(t)'
    <3>1. CASE t = s
      BY <1>7, <3>1 DEF IInv, TypeOK, Goto, Jobs, Prepared, Before, Given
    <3>2. CASE t # s
      BY <1>2, <1>5, <1>7, <3>2, Undisturbed DEF IInv, TypeOK, Goto, Jobs, Preparing
    <3> QED  BY <3>1, <3>2
  <2> QED  BY <1>6, <2>2, <2>3, <2>4 DEF IInv, Preparing
<1>8. ASSUME NEW u \in Candidates(s, ids),
             identity' = [ids EXCEPT ![s] = [uid |-> u, active |-> TRUE]],
             job' = [job EXCEPT ![s] =
                       [pc |-> IF run[s].path THEN "prepare" ELSE "recover", uid |-> u]]
      PROVE  IInv'
  <2> HIDE DEF ids
  <2>1. u \in Uids /\ u \notin Occupied(s, ids)
    BY DEF Candidates, IInv, TypeOK, Identities, Owners, Uids
  <2>2. identity[s].uid # 0 => u = identity[s].uid
    BY DEF Candidates
  <2>3. identity' \in Identities /\ job' \in Jobs
    BY <1>2, <1>8, <2>1 DEF IInv, TypeOK, Identities, Jobs, Pcs, Owners, Uids
  <2>4. TypeOK'
    BY <1>2, <1>5, <2>3 DEF IInv, TypeOK
  <2>5. Allotted(identity)'
    BY <1>2, <1>8, <2>1 DEF Allotted, Occupied, Identities
  <2>6. ASSUME NEW p \in procs'
        PROVE  identity'[p[2]] = [uid |-> p[1], active |-> TRUE]
    <3>1. ids[p[2]] = [uid |-> p[1], active |-> TRUE] /\ p \in Uids \X Sessions
      BY <1>2 DEF IInv, TypeOK
    <3>2. CASE p[2] = s
      <4>1. identity[s].uid = p[1] /\ p[1] # 0
        BY <1>4, <3>1, <3>2 DEF Uids
      <4> QED  BY <1>2, <1>8, <2>2, <3>2, <4>1 DEF Identities
    <3>3. CASE p[2] # s
      BY <1>2, <1>8, <3>1, <3>3 DEF Identities
    <3> QED  BY <3>2, <3>3
  <2>7. ASSUME NEW t \in Sessions PROVE Prepared(t)'
    <3>1. CASE t = s
      <4>1. run'[s].state = "active" /\ s \notin workers'
        BY <1>5 DEF IInv, Preparing, Prepared, Before
      <4>2. job'[s].uid = u /\ job'[s].pc \in {"prepare", "recover"}
        BY <1>8 DEF IInv, TypeOK, Jobs
      <4>3. identity'[s] = [uid |-> u, active |-> TRUE]
        BY <1>2, <1>8 DEF Identities
      <4> QED  BY <3>1, <4>1, <4>2, <4>3 DEF Prepared
    <3>2. CASE t # s
      <4>1. job'[t] = job[t] /\ identity'[t] = ids[t]
        BY <1>2, <1>8, <3>2 DEF IInv, TypeOK, Jobs, Identities
      <4>2. identity'[t] = identity[t] \/ job[t].pc \notin Given
        BY <1>3, <3>2, <4>1 DEF IInv, Preparing, Prepared, Before, Ended
      <4> QED  BY <1>2, <1>5, <4>1, <4>2, Undisturbed DEF IInv, Preparing
    <3> QED  BY <3>1, <3>2
  <2> QED  BY <1>6, <2>4, <2>5, <2>6, <2>7 DEF IInv, Covered, Preparing
<1> QED  BY <1>1, <1>7, <1>8

\* Release retires the identity of the session at hand, whose run has ended.
LEMMA ReleaseIInv == ASSUME IInv, NEW s \in Sessions, Release(s) PROVE IInv'
<1> USE IdentityAssumption
<1> DEFINE S == {s} \cap {t \in Sessions : identity[t].active /\ Ended(t)}
<1>1. PICK failed \in SUBSET S : Retired(S, failed) /\ identity' = Freed(S \ failed)
  BY DEF Release
<1>2. /\ tree' \in Trees /\ clones' \in Clones /\ troubles' \in 0 .. MaxTroubles
      /\ procs' \in SUBSET procs
      /\ \A t \in Sessions : tree'[t].files = tree[t].files
      /\ identity' \in Identities /\ Allotted(identity')
      /\ \A p \in procs' : identity'[p[2]] = [uid |-> p[1], active |-> TRUE]
  <2> HIDE DEF S
  <2>1. S \in SUBSET Sessions
    BY DEF S
  <2> QED  BY <1>1, <2>1, Retirement DEF IInv
<1>3. /\ ~sweep.on /\ job' = [job EXCEPT ![s] = NoJob]
      /\ lease' = [lease EXCEPT ![s] = "none"]
      /\ UNCHANGED <<run, gateway, recovered, workers, sweep, crashes, prompts>>
  BY DEF Release, At, Running, memory
<1>4. TypeOK'
  <2>1. job' \in Jobs /\ lease' \in Leases
    BY <1>3 DEF IInv, TypeOK, Jobs, Pcs, Leases, NoJob, Owners
  <2> QED  BY <1>2, <1>3, <2>1 DEF IInv, TypeOK
<1>5. ASSUME NEW t \in Sessions PROVE Prepared(t)'
  <2>1. CASE t = s
    BY <1>3, <2>1 DEF IInv, TypeOK, Jobs, NoJob, Prepared, Before, Given
  <2>2. CASE t # s
    <3>1. job'[t] = job[t]
      BY <1>3, <2>2 DEF IInv, TypeOK, Jobs
    <3>2. identity'[t] = identity[t]
      BY <1>1, <2>2 DEF Freed
    <3> QED  BY <1>2, <1>3, <3>1, <3>2, Undisturbed DEF IInv, Preparing
  <2> QED  BY <2>1, <2>2
<1>6. Sweeping'
  BY <1>3 DEF Sweeping
<1> QED  BY <1>2, <1>4, <1>5, <1>6 DEF IInv, Covered, Allotted, Preparing

-----------------------------------------------------------------------------
(* Sweeps                                                                   *)

\* A sweep chooses rows that have ended and are leased by nobody.
LEMMA SweepStartIInv == ASSUME IInv, SweepStart PROVE IInv'
<1>1. /\ sweep' = [on |-> TRUE, rows |-> {s \in Sessions : Removable(s)}, removed |-> 0,
                   before |-> <<run, identity>>]
      /\ UNCHANGED <<run, lease, identity, procs, tree, clones, gateway, recovered,
                     workers, job, troubles, crashes, prompts>>
  BY DEF SweepStart, rows, disk, memory, budget
<1>2. sweep' \in Sweeps
  BY <1>1, IdentityAssumption DEF IInv, TypeOK, Sweeps
<1>3. TypeOK'
  BY <1>1, <1>2 DEF IInv, TypeOK
<1>4. Covered(identity)' /\ Allotted(identity)' /\ Preparing'
  BY <1>1 DEF IInv, Covered, Allotted, Preparing, Prepared
<1>5. Sweeping'
  BY <1>1 DEF IInv, TypeOK, Sweeping, Covered, Allotted, Removable, Ended, Fenced
<1> QED  BY <1>3, <1>4, <1>5 DEF IInv

\* What is retired last has ended.
LEMMA SweepCommitIInv == ASSUME IInv, SweepCommit PROVE IInv'
<1> USE IdentityAssumption
<1> DEFINE S == {s \in Sessions : Retirable(s)}
<1>1. PICK failed \in SUBSET S : Retired(S, failed) /\ identity' = Freed(S \ failed)
  BY DEF SweepCommit
<1>2. /\ tree' \in Trees /\ clones' \in Clones /\ troubles' \in 0 .. MaxTroubles
      /\ procs' \in SUBSET procs
      /\ \A t \in Sessions : tree'[t].files = tree[t].files
      /\ identity' \in Identities /\ Allotted(identity')
      /\ \A p \in procs' : identity'[p[2]] = [uid |-> p[1], active |-> TRUE]
  <2> HIDE DEF S
  <2>1. S \in SUBSET Sessions
    BY DEF S
  <2> QED  BY <1>1, <2>1, Retirement DEF IInv
<1>3. /\ sweep' = NoSweep
      /\ UNCHANGED <<run, lease, gateway, recovered, workers, job, crashes, prompts>>
  BY DEF SweepCommit, memory
<1>4. TypeOK'
  <2>1. sweep' \in Sweeps
    BY <1>3 DEF Sweeps, NoSweep
  <2> QED  BY <1>2, <1>3, <2>1 DEF IInv, TypeOK
<1>5. ASSUME NEW t \in Sessions PROVE Prepared(t)'
  <2>1. identity'[t] = identity[t] \/ Ended(t)
    BY <1>1 DEF Freed, Retirable
  <2>2. identity'[t] = identity[t] \/ job[t].pc \notin Given
    BY <2>1 DEF IInv, Preparing, Prepared, Before, Ended
  <2> QED  BY <1>2, <1>3, <2>2, Undisturbed DEF IInv, Preparing
<1>6. Sweeping'
  BY <1>3 DEF Sweeping, NoSweep
<1> QED  BY <1>2, <1>4, <1>5, <1>6 DEF IInv, Covered, Allotted, Preparing

\* A removal stops all processes under the uid before the identity is freed.
LEMMA SweepRemovesIInv == ASSUME IInv, NEW s \in Sessions, SweepRemoves(s) PROVE IInv'
<1> USE IdentityAssumption
<1> DEFINE S == {s} \cap {t \in Sessions : identity[t].uid # 0}
           uid == RemovalUid(s)
<1>1. /\ sweep.on /\ s \in sweep.rows /\ ~Serving(s) /\ sweep.removed < MaxPerSweep
      /\ procs' = Without({uid})
      /\ UNCHANGED <<lease, gateway, recovered, workers, job, crashes, prompts>>
  BY DEF SweepRemoves, memory
<1>2. PICK failed \in SUBSET S :
        /\ troubles + Cardinality(failed) <= MaxTroubles
        /\ troubles' = troubles + Cardinality(failed)
        /\ identity' = Freed(S \ failed)
        /\ clones' = IF S # {} /\ failed = {} THEN SealedClones({uid}) ELSE clones
        /\ tree' = [t \in Sessions |->
                      IF t = s THEN NoTree
                      ELSE IF S # {} /\ failed = {} THEN SealedTrees({uid})[t]
                      ELSE tree[t]]
        /\ run' = IF failed = {} THEN [run EXCEPT ![s].path = FALSE] ELSE run
        /\ sweep' = [sweep EXCEPT !.rows = @ \ {s},
                       !.removed = IF failed = {} THEN @ + 1 ELSE @]
  BY DEF SweepRemoves
<1>3. Ended(s)
  BY <1>1 DEF IInv, Sweeping
<1>4. troubles' \in 0 .. MaxTroubles
  <2>1. IsFiniteSet(failed)
    BY FS_Subset
  <2>2. Cardinality(failed) \in Nat
    BY <2>1, FS_CardinalityType
  <2> QED  BY <1>2, <2>2 DEF IInv, TypeOK
<1>5. tree' \in Trees /\ \A t \in Sessions : t # s => tree'[t].files = tree[t].files
  BY <1>2 DEF IInv, TypeOK, Trees, Owners, SealedTrees, NoTree
<1>6. clones' \in Clones
  BY <1>2 DEF IInv, TypeOK, Clones, Owners, SealedClones
<1>7. run' \in Runs /\ \A t \in Sessions : run'[t].state = run[t].state
  BY <1>2 DEF IInv, TypeOK, Runs
<1>8. identity' \in Identities /\ \A t \in Sessions : t # s => identity'[t] = identity[t]
  BY <1>2 DEF IInv, TypeOK, Identities, Freed
<1>9. procs' \in SUBSET procs
  BY <1>1 DEF Without
<1>10. sweep' \in Sweeps
  <2>1. sweep \in Sweeps /\ MaxPerSweep \in Nat
    BY DEF IInv, TypeOK
  <2>2. CASE failed = {}
    <3>1. sweep' = [sweep EXCEPT !.rows = @ \ {s}, !.removed = @ + 1]
      BY <1>2, <2>2
    <3>2. sweep.removed + 1 \in 0 .. MaxPerSweep /\ sweep.rows \ {s} \in SUBSET Sessions
      BY <1>1, <2>1 DEF Sweeps
    <3> QED  BY <2>1, <3>1, <3>2 DEF Sweeps
  <2>3. CASE failed # {}
    <3>1. sweep' = [sweep EXCEPT !.rows = @ \ {s}, !.removed = @]
      BY <1>2, <2>3
    <3> QED  BY <2>1, <3>1 DEF Sweeps
  <2> QED  BY <2>2, <2>3
<1>11. TypeOK'
  BY <1>1, <1>4, <1>5, <1>6, <1>7, <1>8, <1>9, <1>10 DEF IInv, TypeOK
<1>12. Allotted(identity)'
  BY <1>2 DEF IInv, TypeOK, Allotted, Freed, Identities
<1>13. ASSUME NEW p \in procs' PROVE identity'[p[2]] = [uid |-> p[1], active |-> TRUE]
  <2>1. /\ p \in procs /\ p[1] # uid /\ p \in Uids \X Sessions
        /\ identity[p[2]] = [uid |-> p[1], active |-> TRUE]
    BY <1>1 DEF IInv, TypeOK, Without, Covered
  <2>2. p[2] # s
    BY <2>1 DEF RemovalUid, Uids
  <2> QED  BY <1>8, <2>1, <2>2
<1>14. ASSUME NEW t \in Sessions PROVE Prepared(t)'
  <2>1. CASE t = s
    BY <1>1, <1>3, <1>7, <2>1 DEF IInv, Preparing, Prepared, Before, Given, Ended
  <2>2. CASE t # s
    BY <1>1, <1>5, <1>7, <1>8, <2>2, Undisturbed DEF IInv, Preparing
  <2> QED  BY <2>1, <2>2
<1>15. Sweeping'
  <2>1. /\ sweep'.on /\ sweep'.rows = sweep.rows \ {s} /\ sweep'.before = sweep.before
        /\ sweep.rows \in SUBSET Sessions
    BY <1>1, <1>2 DEF IInv, TypeOK, Sweeps
  <2>2. \A t \in sweep'.rows : Ended(t)' /\ ~Fenced(t)'
    BY <1>1, <1>7, <2>1 DEF IInv, Sweeping, Ended, Fenced
  <2>3. /\ sweep.before \in Runs \X Identities
        /\ Covered(sweep.before[2]) /\ Allotted(sweep.before[2])
    BY <1>1 DEF IInv, Sweeping
  <2>4. Covered(sweep.before[2])'
    BY <1>9, <2>1, <2>3 DEF Covered
  <2>5. Allotted(sweep.before[2])'
    BY <2>1, <2>3 DEF Allotted
  <2> QED  BY <2>1, <2>2, <2>3, <2>4, <2>5 DEF Sweeping
<1> QED  BY <1>11, <1>12, <1>13, <1>14, <1>15 DEF IInv, Covered, Preparing

-----------------------------------------------------------------------------
(* The process                                                              *)

\* A crash undoes the tables, which still cover the processes that are left.
LEMMA CrashIInv == ASSUME IInv, Crash PROVE IInv'
<1> USE IdentityAssumption
<1>1. /\ procs' \in {procs, {}} /\ workers' = {} /\ recovered' = "no" /\ gateway' = 0
      /\ job' = [s \in Sessions |-> NoJob]
      /\ sweep' = NoSweep
      /\ crashes < MaxCrashes /\ crashes' = crashes + 1
      /\ UNCHANGED <<lease, tree, clones, troubles, prompts>>
  BY DEF Crash
<1>2. run' = IF sweep.on THEN sweep.before[1] ELSE run
  BY DEF Crash
<1>3. identity' = IF sweep.on THEN sweep.before[2] ELSE identity
  BY DEF Crash
<1>4. run' \in Runs /\ identity' \in Identities
  BY <1>2, <1>3 DEF IInv, TypeOK, Sweeping
<1>5. job' \in Jobs /\ sweep' \in Sweeps
  BY <1>1 DEF Jobs, NoJob, Pcs, Owners, Sweeps, NoSweep
<1>6. TypeOK'
  BY <1>1, <1>4, <1>5 DEF IInv, TypeOK
<1>7. Covered(identity)' /\ Allotted(identity)'
  <2>1. CASE sweep.on
    BY <1>1, <1>3, <2>1 DEF IInv, Sweeping, Covered, Allotted
  <2>2. CASE ~sweep.on
    BY <1>1, <1>3, <2>2 DEF IInv, Covered, Allotted
  <2> QED  BY <2>1, <2>2
<1>8. Preparing'
  BY <1>1 DEF Preparing, Prepared, NoJob, Before, Given
<1>9. Sweeping'
  BY <1>1 DEF Sweeping, NoSweep
<1> QED  BY <1>6, <1>7, <1>8, <1>9 DEF IInv

\* A new process changes owners and leases only.
LEMMA BootIInv == ASSUME IInv, Boot PROVE IInv'
<1> USE IdentityAssumption
<1>1. gateway' \in Pids /\ UNCHANGED <<identity, procs, recovered, workers, job, sweep,
                                       troubles, crashes, prompts>>
  BY DEF Boot, budget
<1>2. tree' \in Trees /\ \A t \in Sessions : tree'[t].files = tree[t].files
  <2>1. tree' = tree \/ tree' = SealedTrees(Uids)
    BY DEF Boot
  <2>2. tree \in Trees
    BY DEF IInv, TypeOK
  <2> QED  BY <2>1, <2>2 DEF Trees, SealedTrees, Owners
<1>3. clones' \in Clones
  BY DEF Boot, IInv, TypeOK, Clones, Sealed, Owners
<1>4. lease' \in Leases /\ \A t \in Sessions : lease'[t] = lease[t] \/ lease'[t] = "none"
  BY DEF Boot, IInv, TypeOK, Leases
<1>5. run' \in Runs /\ \A t \in Sessions : run'[t].state = run[t].state
  BY DEF Boot, IInv, TypeOK, Runs
<1>6. TypeOK'
  BY <1>1, <1>2, <1>3, <1>4, <1>5 DEF IInv, TypeOK
<1>7. Covered(identity)' /\ Allotted(identity)'
  BY <1>1 DEF IInv, Covered, Allotted
<1>8. Preparing'
  BY <1>1, <1>2, <1>5, Undisturbed DEF IInv, Preparing
<1>9. Sweeping'
  <2>1. \A t \in sweep.rows : t \in Sessions
    BY DEF IInv, TypeOK, Sweeps
  <2> QED  BY <1>1, <1>4, <1>5, <2>1 DEF IInv, Sweeping, Covered, Allotted, Ended, Fenced
<1> QED  BY <1>6, <1>7, <1>8, <1>9 DEF IInv

-----------------------------------------------------------------------------
(* The theorems                                                             *)

\* The initial state satisfies the inductive invariant.
LEMMA InitIInv == Init => IInv
<1> SUFFICES ASSUME Init PROVE IInv
  OBVIOUS
<1> USE IdentityAssumption
<1>1. run \in Runs
  BY DEF Init, Runs, NoRun
<1>2. identity \in Identities /\ \A s \in Sessions : ~identity[s].active
  BY DEF Init, Identities, NoIdentity, Owners
<1>3. tree \in Trees
  BY DEF Init, Trees, NoTree, Owners
<1>4. job \in Jobs /\ sweep \in Sweeps
  BY DEF Init, Jobs, NoJob, Pcs, Owners, Sweeps, NoSweep
<1>5. gateway \in Pids
  BY DEF Init
<1>6. TypeOK
  BY <1>1, <1>2, <1>3, <1>4, <1>5 DEF Init, TypeOK, Leases, Clones
<1>7. Covered(identity) /\ Allotted(identity)
  BY <1>2 DEF Init, Covered, Allotted
<1>8. Preparing
  BY DEF Init, Preparing, Prepared, NoJob, Before, Given
<1>9. Sweeping
  BY DEF Init, Sweeping, NoSweep
<1> QED  BY <1>6, <1>7, <1>8, <1>9 DEF IInv

\* Every step preserves it.
LEMMA NextIInv == IInv /\ [Next]_vars => IInv'
<1> SUFFICES ASSUME IInv, [Next]_vars PROVE IInv'
  OBVIOUS
<1>1. CASE SweepStart \/ SweepCommit \/ Crash \/ Boot
  BY <1>1, SweepStartIInv, SweepCommitIInv, CrashIInv, BootIInv
<1>2. ASSUME NEW s \in Sessions, Step(s) PROVE IInv'
  BY <1>2, AcquireIInv, RecoverIInv, TargetIInv, CloneIInv, FetchIInv, PublishIInv,
     RecordIInv, PrepareIInv, SpawnIInv, StopIInv, ReleaseIInv DEF Step
<1>3. ASSUME NEW s \in Sessions, SweepRow(s) PROVE IInv'
  BY <1>3, SweepSkipsIInv, SweepFailsIInv, SweepRemovesIInv DEF SweepRow
<1>4. ASSUME NEW s \in Sessions,
             \/ Claim(s) \/ Finish(s) \/ Deny(s) \/ Cancel(s) \/ Lose(s)
             \/ Enqueue(s) \/ Age(s) \/ LeaseExpires(s)
      PROVE  IInv'
  BY <1>4, ClaimIInv, FinishIInv, DenyIInv, CancelIInv, LoseIInv, EnqueueIInv, AgeIInv,
     LeaseExpiresIInv
<1>5. CASE UNCHANGED vars
  BY <1>5 DEF vars, IInv, TypeOK, Covered, Allotted, Preparing, Prepared, Sweeping, Ended,
     Fenced
<1> QED  BY <1>1, <1>2, <1>3, <1>4, <1>5 DEF Next

\* The inductive invariant holds of every behaviour.
THEOREM Invariance == Spec => []IInv
<1> QED  BY InitIInv, NextIInv, PTL DEF Spec

\* Uids, owners and process ids stay in their ranges, the bounds hold, and a rollback
\* restores tables (WorkerIdentityRepo, Retention).
THEOREM TypeCorrect == Spec => []TypeOK
<1>1. IInv => TypeOK
  BY DEF IInv
<1> QED  BY <1>1, Invariance, PTL

\* WorkerIdentityRepo: a process runs only under a uid its session holds, and no two
\* sessions hold the same one, whatever fails or dies.
THEOREM UidsAreExclusive == Spec => []UidExclusive
<1>1. IInv => UidExclusive
  BY DEF IInv, TypeOK, Covered, Allotted, UidExclusive
<1> QED  BY <1>1, Invariance, PTL

\* Retention.sweep: the workspace of an active run is left alone, since every row a
\* sweep looks at has ended and nothing revives it before the commit.
THEOREM WorkspacesAreKept == Spec => WorkspaceKept
<1> DEFINE Kept == \A s \in Sessions :
             run[s].state = "active" /\ tree[s].files # "none" =>
                 tree'[s].files = tree[s].files
<1>1. ASSUME IInv, [Next]_vars PROVE Kept
  <2> SUFFICES ASSUME NEW t \in Sessions, run[t].state = "active", tree[t].files # "none"
               PROVE  tree'[t].files = tree[t].files
    OBVIOUS
  <2>1. ASSUME NEW S, NEW failed, Retired(S, failed) PROVE tree'[t].files = tree[t].files
    BY <1>1, <2>1 DEF IInv, TypeOK, Trees, Retired, SealedTrees
  <2>2. CASE UNCHANGED tree
    BY <2>2
  <2>3. CASE Boot
    BY <1>1, <2>3 DEF Boot, IInv, TypeOK, Trees, SealedTrees
  <2>4. CASE SweepCommit
    BY <2>1, <2>4 DEF SweepCommit
  <2>5. ASSUME NEW s \in Sessions, Acquire(s) \/ Release(s)
        PROVE  tree'[t].files = tree[t].files
    BY <2>1, <2>5 DEF Acquire, Release
  <2>6. ASSUME NEW s \in Sessions, Target(s) \/ Prepare(s)
        PROVE  tree'[t].files = tree[t].files
    BY <1>1, <2>6 DEF Target, Prepare, Chowned, IInv, TypeOK, Trees
  <2>7. ASSUME NEW s \in Sessions, Publish(s) PROVE tree'[t].files = tree[t].files
    BY <1>1, <2>7 DEF Publish, At, IInv, TypeOK, Trees, Preparing, Prepared
  <2>8. ASSUME NEW s \in Sessions, SweepFails(s) \/ SweepRemoves(s)
        PROVE  tree'[t].files = tree[t].files
    <3>1. t # s
      BY <1>1, <2>8 DEF SweepFails, SweepRemoves, IInv, Sweeping, Ended
    <3>2. CASE SweepFails(s)
      BY <1>1, <3>1, <3>2 DEF SweepFails, IInv, TypeOK, Trees
    <3>3. CASE SweepRemoves(s)
      <4>1. tree'[t] = tree[t] \/ tree'[t] = SealedTrees({RemovalUid(s)})[t]
        BY <3>1, <3>3 DEF SweepRemoves
      <4> QED  BY <1>1, <4>1 DEF SealedTrees, IInv, TypeOK, Trees
    <3> QED  BY <2>8, <3>2, <3>3
  <2>9. \/ UNCHANGED tree \/ Boot \/ SweepCommit
        \/ \E s \in Sessions : \/ Acquire(s) \/ Release(s) \/ Target(s) \/ Prepare(s)
                               \/ Publish(s) \/ SweepFails(s) \/ SweepRemoves(s)
    BY <1>1 DEF Next, Step, SweepRow, SweepStart, Crash, Recover, Clone, Fetch, Record,
       Spawn, Stop, SweepSkips, Claim, Finish, Deny, Cancel, Lose, Enqueue, Age,
       LeaseExpires, disk, vars
  <2> QED  BY <2>2, <2>3, <2>4, <2>5, <2>6, <2>7, <2>8, <2>9
<1>2. IInv /\ [Next]_vars => [Kept]_vars
  BY <1>1
<1>3. Spec => [][Kept]_vars
  BY <1>2, Invariance, PTL DEF Spec
<1> QED  BY <1>3 DEF WorkspaceKept

\* WorkerIdentityRepo.acquire and Retention.sweep: while the lease of a worker's session
\* holds, no process of it is stopped, since what they retire is leased by nobody and no
\* other session has its uid.
THEOREM WorkersAreSpared == Spec => WorkerSpared
<1> DEFINE Spared == \A s \in workers \cap workers' :
             Fenced(s) => \A p \in procs : p[2] = s => p \in procs'
<1>1. ASSUME IInv, [Next]_vars PROVE Spared
  <2> SUFFICES ASSUME NEW w \in workers, w \in workers', Fenced(w),
                      NEW p \in procs, p[2] = w
               PROVE  p \in procs'
    OBVIOUS
  <2>1. /\ w \in Sessions /\ p \in Uids \X Sessions
        /\ identity[w] = [uid |-> p[1], active |-> TRUE]
    BY <1>1 DEF IInv, TypeOK, Covered
  <2>2. ASSUME NEW t \in Sessions, t # w, identity[t].active PROVE identity[t].uid # p[1]
    BY <1>1, <2>1, <2>2 DEF IInv, Allotted
  <2>3. ASSUME NEW S \in SUBSET Sessions, NEW failed, Retired(S, failed), w \notin S,
               \A t \in S : identity[t].active
        PROVE  p \in procs'
    <3>1. \A t \in S : identity[t].uid # p[1]
      BY <2>2, <2>3
    <3> QED  BY <2>3, <3>1 DEF Retired, Without, UidsOf
  <2>4. CASE procs \subseteq procs'
    BY <2>4
  <2>5. CASE SweepCommit
    BY <2>3, <2>5 DEF SweepCommit, Retirable, Fenced
  <2>6. ASSUME NEW s \in Sessions, Acquire(s) PROVE p \in procs'
    <3> DEFINE old == {t \in Sessions \ {s} : Retirable(t)}
    <3>1. PICK failed : Retired(old, failed)
      BY <2>6 DEF Acquire
    <3>2. w \notin old /\ \A t \in old : identity[t].active
      BY DEF Retirable, Fenced
    <3> QED  BY <2>3, <3>1, <3>2
  <2>7. ASSUME NEW s \in Sessions, Release(s) PROVE p \in procs'
    <3>1. w # s
      <4>1. job[s].pc = "release"
        BY <2>7 DEF Release, At
      <4> QED  BY <1>1, <4>1 DEF IInv, Preparing, Prepared
    <3> QED  BY <2>3, <2>7, <3>1 DEF Release
  <2>8. ASSUME NEW s \in Sessions, Stop(s) PROVE p \in procs'
    BY <2>8 DEF Stop
  <2>9. CASE Crash
    BY <2>9 DEF Crash
  <2>10. ASSUME NEW s \in Sessions, SweepFails(s) \/ SweepRemoves(s) PROVE p \in procs'
    <3>1. w # s /\ ~Serving(s)
      BY <1>1, <2>10 DEF SweepFails, SweepRemoves, IInv, Sweeping
    <3>2. p[1] # RemovalUid(s)
      BY <2>1, <3>1 DEF Serving
    <3> QED  BY <2>10, <3>2 DEF SweepFails, SweepRemoves, Without
  <2>11. \/ procs \subseteq procs' \/ SweepCommit \/ Crash
         \/ \E s \in Sessions : \/ Acquire(s) \/ Release(s) \/ Stop(s)
                                \/ SweepFails(s) \/ SweepRemoves(s)
    BY <1>1 DEF Next, Step, SweepRow, SweepStart, Boot, Recover, Target, Clone, Fetch,
       Publish, Record, Prepare, Spawn, SweepSkips, Claim, Finish, Deny, Cancel, Lose,
       Enqueue, Age, LeaseExpires, disk, vars
  <2> QED  BY <2>4, <2>5, <2>6, <2>7, <2>8, <2>9, <2>10, <2>11
<1>2. IInv /\ [Next]_vars => [Spared]_vars
  BY <1>1
<1>3. Spec => [][Spared]_vars
  BY <1>2, Invariance, PTL DEF Spec
<1> QED  BY <1>3 DEF WorkerSpared
=============================================================================
