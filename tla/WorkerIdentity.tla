--------------------------- MODULE WorkerIdentity ---------------------------
(***************************************************************************)
(* The unix identities and the workspaces of worker processes:             *)
(* WorkerIdentityRepo (acquire, release), the part of SessionAuthority     *)
(* that starts and ends a worker, Workspace.materialize and Retention.     *)
(*                                                                         *)
(* A session works under one uid of a small range.  When it has ended, its *)
(* uid may serve another session, and a prompt may revive it meanwhile.    *)
(* Its workspace outlives it until a sweep of the retention removes it.    *)
(*                                                                         *)
(* SessionAuthority decides when a run starts and ends (the module of that *)
(* name); here it does so at any time its lease lets it.  SQLite           *)
(* transactions are synchronous: while a sweep is inside its own, nothing  *)
(* else in the process runs, but the process may die.  What dies with it   *)
(* is the transaction, not what was done to processes and files.           *)
(*                                                                         *)
(* Owner 0 is root: a directory it owns is sealed.  Uid 0 is no uid.       *)
(***************************************************************************)
EXTENDS Naturals, FiniteSets

CONSTANTS
    Sessions,     \* Linear agent sessions, one run each
    Past,         \* sessions that have ended long ago, some before there were uids
    UidCount,     \* WORKER_UID_COUNT; the base of the range is 1
    Pids,         \* process ids the gateway may have
    MaxPerSweep,  \* MAX_WORKSPACES_PER_SWEEP (25)
    MaxTroubles,  \* bound: failures of a step, a retirement or a removal, and
                  \* expiries of a lease this process holds
    MaxCrashes,   \* bound: deaths of the process
    MaxPrompts    \* bound: prompts that revive an ended run

ASSUME IdentityAssumption ==
    /\ IsFiniteSet(Sessions) /\ Past \subseteq Sessions
    /\ UidCount \in Nat \ {0}
    /\ MaxPerSweep \in Nat \ {0}
    /\ Pids \subseteq Nat \ {0} /\ Pids # {}
    /\ {MaxTroubles, MaxCrashes, MaxPrompts} \subseteq Nat

VARIABLES
    run,       \* agent_run: has it ended, long ago (old), workspace_path is set
    lease,     \* agent_run: lease_expires_at
    identity,  \* worker_identity: uid, active
    procs,     \* processes of workers and of git, as <<uid, session>>
    tree,      \* the workspace of a session on disk
    clones,    \* the clone directories on disk
    gateway,   \* the process id of the gateway, 0 while it is down
    recovered, \* stagingRecovered, or that an attempt has failed
    workers,   \* workersRef
    job,       \* the fiber inside the processing gate, with the uid it was given
    sweep,     \* the transaction of a sweep
    troubles, crashes, prompts  \* events so far, for the bounds

rows == <<run, lease, identity>>
disk == <<procs, tree, clones>>
memory == <<gateway, recovered, workers>>
budget == <<troubles, crashes, prompts>>
vars == <<run, lease, identity, procs, tree, clones, gateway, recovered, workers,
          job, sweep, troubles, crashes, prompts>>

\* Mutant of Uids: the end of the range is taken for a member of it.
UidsInclusive == 1 .. UidCount + 1

\* workerUidRange
Uids == 1 .. UidCount

NoRun == [state |-> "absent", old |-> FALSE, path |-> FALSE]

NoIdentity == [uid |-> 0, active |-> FALSE]

NoTree == [files |-> "none", owner |-> 0]

NoJob == [pc |-> "none", uid |-> 0]

\* rows are the workspaces still to be looked at, removed those done; before is
\* what a rollback restores.
NoSweep == [on |-> FALSE, rows |-> {}, removed |-> 0, before |-> << >>]

Ended(s) == run[s].state = "ended"

\* Nothing but the sweep runs while the sweep does.
Running == gateway # 0 /\ ~sweep.on

At(s, pc) == Running /\ job[s].pc = pc

Goto(s, pc) == job' = [job EXCEPT ![s].pc = pc]

\* The fence of updateRun.
Fenced(s) == lease[s] = "live"

Trouble == troubles < MaxTroubles /\ troubles' = troubles + 1

-----------------------------------------------------------------------------
(* worker-security.ts, workspace-process.ts                                 *)

\* stopWorkerUidProcessesSync, cleanupWorkerSharedFilesSync
Without(uids) == {p \in procs : p[1] \notin uids}

\* sealWorkerUidWorkspacesSync
SealedTrees(uids) ==
    [s \in Sessions |-> IF tree[s].owner \in uids THEN [tree[s] EXCEPT !.owner = 0]
                                                  ELSE tree[s]]

SealedClones(uids) ==
    {IF c.owner \in uids THEN [c EXCEPT !.owner = 0] ELSE c : c \in clones}

\* prepareWorkerWorkspace
Chowned(s, uid) == [tree EXCEPT ![s].owner = uid]

UidsOf(S) == {identity[s].uid : s \in S}

\* What retireWorkerIdentitySync writes.
Freed(done) ==
    [s \in Sessions |-> IF s \in done THEN [identity[s] EXCEPT !.active = FALSE]
                                      ELSE identity[s]]

\* Mutant of Retired: no process is stopped.
RetiredOnly(S, failed) ==
    LET done == S \ failed IN
    /\ failed \subseteq S
    /\ UNCHANGED procs
    /\ tree' = SealedTrees(UidsOf(done))
    /\ clones' = SealedClones(UidsOf(done))
    /\ troubles + Cardinality(failed) <= MaxTroubles
    /\ troubles' = troubles + Cardinality(failed)

\* retireWorkerIdentitySync for each session of S: those in failed stay
\* reserved, whatever became of their processes.
Retired(S, failed) ==
    LET done == S \ failed IN
    /\ failed \subseteq S
    /\ \E stopped \in SUBSET failed : procs' = Without(UidsOf(done \cup stopped))
    /\ tree' = SealedTrees(UidsOf(done))
    /\ clones' = SealedClones(UidsOf(done))
    /\ troubles + Cardinality(failed) <= MaxTroubles
    /\ troubles' = troubles + Cardinality(failed)

\* Mutant of Retirable: the lease is not looked at.
RetirableWithLease(s) == identity[s].active /\ Ended(s)

\* Mutant of Retirable: what was not retired at once is never looked at again.
RetirableNever(s) == FALSE

\* The identities that allocation and retention reclaim.
Retirable(s) == identity[s].active /\ Ended(s) /\ lease[s] # "live"

-----------------------------------------------------------------------------
(* WorkerIdentityRepo.acquire                                               *)

Occupied(s, ids) == {ids[t].uid : t \in {t \in Sessions \ {s} : ids[t].active}}

\* A session keeps the uid it has had; a new one takes the first that is free.
Candidates(s, ids) ==
    IF identity[s].uid # 0 THEN {identity[s].uid} \ Occupied(s, ids)
    ELSE LET free == Uids \ Occupied(s, ids)
         IN  {u \in free : \A v \in free : u <= v}

\* First reclaims what it can, then allocates.  If no uid will do, the
\* transaction is rolled back, and with it the reclaiming.
Acquire(s) ==
    LET old == {t \in Sessions \ {s} : Retirable(t)} IN
    /\ At(s, "acquire")
    /\ \E failed \in SUBSET old :
         LET ids == Freed(old \ failed) IN
         /\ Retired(old, failed)
         /\ \/ /\ Candidates(s, ids) = {}
               /\ Goto(s, "fail")
               /\ UNCHANGED identity
            \/ \E u \in Candidates(s, ids) :
                 /\ identity' = [ids EXCEPT ![s] = [uid |-> u, active |-> TRUE]]
                 /\ job' = [job EXCEPT ![s] =
                              [pc |-> IF run[s].path THEN "prepare" ELSE "recover",
                               uid |-> u]]
    /\ UNCHANGED <<run, lease, memory, sweep, crashes, prompts>>

-----------------------------------------------------------------------------
(* Workspace.materialize                                                    *)

\* The clones whose owner, by its process id, is dead.
Abandoned == {c \in clones : c.pid # gateway}

\* recoverStaging, on the first clone of a process and then, 30 seconds after an
\* attempt that failed.  The clones are removed under the uid of the session at
\* hand, which is given them first; a failure leaves one of them with it, and
\* does not stop the visit.
Recover(s) ==
    /\ At(s, "recover")
    /\ Goto(s, "target")
    /\ \/ /\ recovered = "yes" \/ recovered = "failed"
          /\ UNCHANGED <<clones, recovered, troubles>>
       \/ /\ recovered # "yes"
          /\ clones' = clones \ Abandoned
          /\ recovered' = "yes"
          /\ UNCHANGED troubles
       \/ /\ recovered # "yes"
          /\ \E gone \in SUBSET Abandoned : \E c \in Abandoned \ gone :
               clones' = (clones \ (gone \cup {c}))
                           \cup {[c EXCEPT !.owner = job[s].uid]}
          /\ recovered' = "failed"
          /\ Trouble
    /\ UNCHANGED <<rows, procs, tree, gateway, workers, sweep, crashes, prompts>>

\* The workspace an earlier attempt has published is used again.
Target(s) ==
    /\ At(s, "target")
    /\ \/ /\ tree[s].files = "none"
          /\ Goto(s, "clone")
          /\ UNCHANGED <<tree, troubles>>
       \/ /\ tree[s].files = "whole"
          /\ tree' = Chowned(s, job[s].uid)
          /\ Goto(s, "record")
          /\ UNCHANGED troubles
       \/ /\ Trouble
          /\ Goto(s, "fail")
          /\ UNCHANGED tree
    /\ UNCHANGED <<rows, procs, clones, memory, sweep, crashes, prompts>>

\* git clone, by the gateway, into a directory that names the owner.
Clone(s) ==
    /\ At(s, "clone")
    /\ clones' = clones \cup {[of |-> s, owner |-> 0, pid |-> gateway]}
    /\ Goto(s, "fetch")
    /\ UNCHANGED <<rows, procs, tree, memory, sweep, budget>>

Mine(s) == {c \in clones : c.of = s /\ c.pid = gateway}

\* The clone is given to the worker's uid, under which git fetches and checks out.
Fetch(s) ==
    /\ At(s, "fetch")
    /\ clones' = (clones \ Mine(s))
                   \cup {[of |-> s, owner |-> job[s].uid, pid |-> gateway]}
    /\ procs' = procs \cup {<<job[s].uid, s>>}
    /\ Goto(s, "publish")
    /\ UNCHANGED <<rows, tree, memory, sweep, budget>>

\* git is done, though a process it has left behind may stay: the clone becomes
\* the workspace, or, when a step has failed, it is removed, if that can be done.
Publish(s) ==
    /\ At(s, "publish")
    /\ \/ /\ clones' = clones \ Mine(s)
          /\ tree' = [tree EXCEPT ![s] = [files |-> "whole", owner |-> job[s].uid]]
          /\ Goto(s, "record")
          /\ UNCHANGED troubles
       \/ /\ clones' \in {clones, clones \ Mine(s)}
          /\ Trouble
          /\ Goto(s, "fail")
          /\ UNCHANGED tree
    /\ UNCHANGED <<rows, procs, memory, sweep, crashes, prompts>>

Record(s) ==
    /\ At(s, "record")
    /\ IF Fenced(s)
         THEN /\ run' = [run EXCEPT ![s].path = TRUE]
              /\ Goto(s, "acquire")
         ELSE /\ Goto(s, "fail")
              /\ UNCHANGED run
    /\ UNCHANGED <<lease, identity, disk, memory, sweep, budget>>

-----------------------------------------------------------------------------
(* SessionAuthority: a worker starts and ends                               *)

\* claimLease, which like every write to the row makes it young again.
Leased(s) ==
    /\ lease' = [lease EXCEPT ![s] = "live"]
    /\ run' = [run EXCEPT ![s].old = FALSE]

\* A visit to a run without a worker takes the lease, unless an incarnation that
\* may be alive has it.
Claim(s) ==
    /\ At(s, "none")
    /\ s \notin workers
    /\ run[s].state = "active" /\ lease[s] # "live"
    /\ Leased(s)
    /\ Goto(s, "acquire")
    /\ UNCHANGED <<identity, disk, memory, sweep, budget>>

\* openWorker gives the workspace to the uid, and prepares the rest.
Prepare(s) ==
    /\ At(s, "prepare")
    /\ \/ /\ tree[s].files # "none"
          /\ tree' = Chowned(s, job[s].uid)
          /\ Goto(s, "spawn")
          /\ UNCHANGED troubles
       \/ /\ Trouble \/ (tree[s].files = "none" /\ UNCHANGED troubles)
          /\ Goto(s, "fail")
          /\ UNCHANGED tree
    /\ UNCHANGED <<rows, procs, clones, memory, sweep, crashes, prompts>>

\* Preparation may outlive a lease: openWorker checks the fence once more.
Spawn(s) ==
    /\ At(s, "spawn")
    /\ IF Fenced(s)
         THEN /\ procs' = procs \cup {<<job[s].uid, s>>}
              /\ workers' = workers \cup {s}
              /\ job' = [job EXCEPT ![s] = NoJob]
         ELSE /\ Goto(s, "fail")
              /\ UNCHANGED <<procs, workers>>
    /\ UNCHANGED <<rows, tree, clones, gateway, recovered, sweep, budget>>

\* agent_end: the outcome is written before the final response is posted and the
\* worker stopped.
Finish(s) ==
    /\ At(s, "none")
    /\ s \in workers
    /\ run[s].state = "active" /\ Fenced(s)
    /\ run' = [run EXCEPT ![s].state = "ended"]
    /\ Goto(s, "stop")
    /\ UNCHANGED <<lease, identity, disk, memory, sweep, budget>>

\* The loss of access ends a run whose worker goes on.
Deny(s) ==
    /\ At(s, "none")
    /\ s \in workers
    /\ run[s].state = "active" /\ Fenced(s)
    /\ run' = [run EXCEPT ![s].state = "ended"]
    /\ UNCHANGED <<lease, identity, disk, memory, job, sweep, budget>>

\* cancel takes the lease.
Cancel(s) ==
    /\ At(s, "none")
    /\ run[s].state = "active"
    /\ s \in workers \/ lease[s] # "live"
    /\ Leased(s)
    /\ Goto(s, "cancel")
    /\ UNCHANGED <<identity, disk, memory, sweep, budget>>

\* The worker dies, or its lease is lost.
Lose(s) ==
    /\ At(s, "none")
    /\ s \in workers
    /\ Trouble \/ (~Fenced(s) /\ UNCHANGED troubles)
    /\ Goto(s, "fail")
    /\ UNCHANGED <<rows, disk, memory, sweep, crashes, prompts>>

\* The worker's process group is killed; a process that has left it escapes.  A
\* run that is canceled ends; one that has failed ends when its attempts are
\* exhausted; each if the lease still holds.
Stop(s) ==
    /\ \E pc \in {"stop", "cancel", "fail"} : At(s, pc)
    /\ workers' = workers \ {s}
    /\ procs' \in {procs, {p \in procs : p[2] # s}}
    /\ \/ /\ job[s].pc # "stop" /\ Fenced(s)
          /\ run' = [run EXCEPT ![s].state = "ended"]
       \/ /\ job[s].pc # "cancel" \/ ~Fenced(s)
          /\ UNCHANGED run
    /\ Goto(s, "release")
    /\ UNCHANGED <<lease, identity, tree, clones, gateway, recovered, sweep, budget>>

\* releaseIfNoWorker: the uid of a run that has ended, and the lease.
Release(s) ==
    /\ At(s, "release")
    /\ LET S == {s} \cap {t \in Sessions : identity[t].active /\ Ended(t)} IN
         \E failed \in SUBSET S :
           /\ Retired(S, failed)
           /\ identity' = Freed(S \ failed)
    /\ lease' = [lease EXCEPT ![s] = "none"]
    /\ job' = [job EXCEPT ![s] = NoJob]
    /\ UNCHANGED <<run, memory, sweep, crashes, prompts>>

-----------------------------------------------------------------------------
(* Retention.sweep                                                          *)

\* Mutant of Removable: the state of the run is not looked at.
RemovableByAge(s) ==
    /\ run[s].state # "absent" /\ run[s].old /\ run[s].path
    /\ lease[s] # "live"

\* The candidates: workspaces of runs that ended long ago.
Removable(s) ==
    /\ Ended(s) /\ run[s].old /\ run[s].path
    /\ lease[s] # "live"

\* A sweep that has nothing to do is left out.
SweepStart ==
    /\ Running
    /\ \E s \in Sessions : Removable(s) \/ Retirable(s)
    /\ sweep' = [on |-> TRUE, rows |-> {s \in Sessions : Removable(s)}, removed |-> 0,
                 before |-> <<run, identity>>]
    /\ UNCHANGED <<rows, disk, memory, job, budget>>

\* A workspace from before uids were allocated is removed under the range's base.
RemovalUid(s) == IF identity[s].uid # 0 THEN identity[s].uid ELSE 1

\* A released uid that serves another session.
Serving(s) ==
    \E t \in Sessions \ {s} : identity[t].active /\ identity[t].uid = RemovalUid(s)

SweepSkips(s) ==
    /\ gateway # 0 /\ sweep.on /\ s \in sweep.rows
    /\ Serving(s) \/ sweep.removed >= MaxPerSweep
    /\ sweep' = [sweep EXCEPT !.rows = @ \ {s}]
    /\ UNCHANGED <<rows, disk, memory, job, budget>>

\* The processes under the uid are stopped, and the files removed under it; a
\* failure of either leaves the records, and what is left of the files with the
\* uid.
SweepFails(s) ==
    /\ gateway # 0 /\ sweep.on /\ s \in sweep.rows
    /\ ~Serving(s) /\ sweep.removed < MaxPerSweep
    /\ tree[s].files # "none"
    /\ Trouble
    /\ \/ UNCHANGED <<procs, tree>>
       \/ /\ procs' = Without({RemovalUid(s)})
          /\ \E files \in {tree[s].files, "part"} :
               tree' = [tree EXCEPT ![s] = [files |-> files, owner |-> RemovalUid(s)]]
    /\ sweep' = [sweep EXCEPT !.rows = @ \ {s}]
    /\ UNCHANGED <<rows, clones, memory, job, crashes, prompts>>

\* The files go (or have gone before), then the identity, if there is one, and if
\* that succeeds the records.
SweepRemoves(s) ==
    LET S == {s} \cap {t \in Sessions : identity[t].uid # 0}
        uid == RemovalUid(s)
    IN
    /\ gateway # 0 /\ sweep.on /\ s \in sweep.rows
    /\ ~Serving(s) /\ sweep.removed < MaxPerSweep
    /\ procs' = Without({uid})
    /\ \E failed \in SUBSET S :
         /\ troubles + Cardinality(failed) <= MaxTroubles
         /\ troubles' = troubles + Cardinality(failed)
         /\ identity' = Freed(S \ failed)
         /\ clones' = IF S # {} /\ failed = {} THEN SealedClones({uid}) ELSE clones
         /\ tree' = [t \in Sessions |->
                       IF t = s THEN NoTree
                       ELSE IF S # {} /\ failed = {} THEN SealedTrees({uid})[t]
                       ELSE tree[t]]
         /\ run' = IF failed = {} THEN [run EXCEPT ![s].path = FALSE] ELSE run
         /\ sweep' = [sweep EXCEPT !.rows = @ \ {s},
                        !.removed = IF failed = {} THEN @ + 1 ELSE @]
    /\ UNCHANGED <<lease, memory, job, crashes, prompts>>

\* Last, what a crash or a failed retirement has left allocated; and the
\* transaction commits.
SweepCommit ==
    /\ gateway # 0 /\ sweep.on /\ sweep.rows = {}
    /\ LET S == {s \in Sessions : Retirable(s)} IN
         \E failed \in SUBSET S :
           /\ Retired(S, failed)
           /\ identity' = Freed(S \ failed)
    /\ sweep' = NoSweep
    /\ UNCHANGED <<run, lease, memory, job, crashes, prompts>>

-----------------------------------------------------------------------------
(* The user, the clock, the process                                         *)

\* A first prompt, or one that revives the run.
Enqueue(s) ==
    /\ Running
    /\ run[s].state # "active"
    /\ run[s].state = "ended" => prompts < MaxPrompts
    /\ prompts' = IF run[s].state = "ended" THEN prompts + 1 ELSE prompts
    /\ run' = [run EXCEPT ![s].state = "active", ![s].old = FALSE]
    /\ UNCHANGED <<lease, identity, disk, memory, job, sweep, troubles, crashes>>

\* Renewals of the lease of a fiber or a worker of this process.
Renewed(s) == gateway # 0 /\ (s \in workers \/ job[s].pc # "none")

\* Nothing is written to the run for RETENTION_WORKSPACE_TTL_MS.
Age(s) ==
    /\ ~sweep.on
    /\ run[s].state # "absent" /\ ~run[s].old
    /\ lease[s] # "live" /\ ~Renewed(s)
    /\ run' = [run EXCEPT ![s].old = TRUE]
    /\ UNCHANGED <<lease, identity, disk, memory, job, sweep, budget>>

\* A lease is renewed in time, unless the process stalls or is gone.
LeaseExpires(s) ==
    /\ ~sweep.on
    /\ lease[s] = "live"
    /\ IF Renewed(s) THEN Trouble ELSE UNCHANGED troubles
    /\ lease' = [lease EXCEPT ![s] = "expired"]
    /\ UNCHANGED <<run, identity, disk, memory, job, sweep, crashes, prompts>>

\* The process dies, within a sweep too, whose transaction is rolled back.  Its
\* workers die with it when it is the container's first process.
Crash ==
    /\ gateway # 0
    /\ crashes < MaxCrashes
    /\ crashes' = crashes + 1
    /\ gateway' = 0
    /\ procs' \in {procs, {}}
    /\ workers' = {} /\ recovered' = "no"
    /\ job' = [s \in Sessions |-> NoJob]
    /\ run' = IF sweep.on THEN sweep.before[1] ELSE run
    /\ identity' = IF sweep.on THEN sweep.before[2] ELSE identity
    /\ sweep' = NoSweep
    /\ UNCHANGED <<lease, tree, clones, troubles, prompts>>

Sealed(dirs) == {[c EXCEPT !.owner = 0] : c \in dirs}

\* A new process: of a new container, whose entrypoint seals the directories, or
\* in the old one.  Then recoverInterruptedRuns.
Boot ==
    /\ gateway = 0
    /\ gateway' \in Pids
    /\ \/ UNCHANGED <<tree, clones>>
       \/ /\ procs = {}
          /\ tree' = SealedTrees(Uids)
          /\ clones' = Sealed(clones)
    /\ LET free == {s \in Sessions : run[s].state = "active" /\ lease[s] # "live"}
       IN  /\ lease' = [s \in Sessions |-> IF s \in free THEN "none" ELSE lease[s]]
           /\ run' = [s \in Sessions |->
                        IF s \in free THEN [run[s] EXCEPT !.old = FALSE] ELSE run[s]]
    /\ UNCHANGED <<identity, procs, recovered, workers, job, sweep, budget>>

-----------------------------------------------------------------------------
Init ==
    /\ run = [s \in Sessions |->
                IF s \in Past THEN [state |-> "ended", old |-> TRUE, path |-> TRUE]
                                ELSE NoRun]
    /\ lease = [s \in Sessions |-> "none"]
    /\ \E S \in SUBSET Past :
         identity = [s \in Sessions |->
                       IF s \in S THEN [uid |-> 1, active |-> FALSE] ELSE NoIdentity]
    /\ procs = {}
    /\ tree = [s \in Sessions |->
                 IF s \in Past THEN [files |-> "whole", owner |-> 0] ELSE NoTree]
    /\ clones = {}
    /\ gateway = CHOOSE pid \in Pids : TRUE
    /\ recovered = "no"
    /\ workers = {}
    /\ job = [s \in Sessions |-> NoJob]
    /\ sweep = NoSweep
    /\ troubles = 0 /\ crashes = 0 /\ prompts = 0

\* The fiber inside the gate takes a step.
Step(s) ==
    \/ Acquire(s) \/ Recover(s) \/ Target(s) \/ Clone(s) \/ Fetch(s) \/ Publish(s)
    \/ Record(s) \/ Prepare(s) \/ Spawn(s) \/ Stop(s) \/ Release(s)

SweepRow(s) == SweepSkips(s) \/ SweepFails(s) \/ SweepRemoves(s)

Next ==
    \/ SweepStart \/ SweepCommit \/ Crash \/ Boot
    \/ \E s \in Sessions :
         \/ Step(s) \/ SweepRow(s)
         \/ Claim(s) \/ Finish(s) \/ Deny(s) \/ Cancel(s) \/ Lose(s)
         \/ Enqueue(s) \/ Age(s) \/ LeaseExpires(s)

Spec == Init /\ [][Next]_vars

\* Fibers and sweeps run (a sweep keeps the fibers waiting, but never for ever),
\* the service manager restarts the process, and a lease that nobody renews
\* expires.  Nothing makes a user write or a worker finish.
Fairness ==
    /\ WF_vars(Boot) /\ WF_vars(SweepStart) /\ WF_vars(SweepCommit)
    /\ \A s \in Sessions :
         /\ SF_vars(Step(s))
         /\ WF_vars(SweepRow(s))
         /\ SF_vars(~Renewed(s) /\ LeaseExpires(s))

FairSpec == Spec /\ Fairness

-----------------------------------------------------------------------------
(* Properties                                                               *)

Owners == 0 .. UidCount

Pcs == {"none", "acquire", "recover", "target", "clone", "fetch", "publish", "record",
        "prepare", "spawn", "stop", "cancel", "fail", "release"}

Runs == [Sessions -> [state : {"absent", "active", "ended"}, old : BOOLEAN,
                      path : BOOLEAN]]

Leases == [Sessions -> {"none", "live", "expired"}]

Identities == [Sessions -> [uid : Owners, active : BOOLEAN]]

Trees == [Sessions -> [files : {"none", "whole", "part"}, owner : Owners]]

Clones == SUBSET [of : Sessions, owner : Owners, pid : Pids]

Jobs == [Sessions -> [pc : Pcs, uid : Owners]]

Sweeps == [on : BOOLEAN, rows : SUBSET Sessions, removed : 0 .. MaxPerSweep,
           before : {<< >>} \cup (Runs \X Identities)]

\* Uids, owners and process ids stay in their ranges and the bounds hold; what a
\* rollback would restore are the two tables, as they were.
TypeOK ==
    /\ run \in Runs /\ lease \in Leases /\ identity \in Identities
    /\ procs \in SUBSET (Uids \X Sessions) /\ tree \in Trees /\ clones \in Clones
    /\ gateway \in Pids \cup {0} /\ recovered \in {"no", "failed", "yes"}
    /\ workers \in SUBSET Sessions /\ job \in Jobs /\ sweep \in Sweeps
    /\ troubles \in 0 .. MaxTroubles /\ crashes \in 0 .. MaxCrashes
    /\ prompts \in 0 .. MaxPrompts

\* Whatever a worker leaves behind, and however retirements fail, leases expire
\* and the process dies, a process runs only under a uid that its session holds,
\* and no two sessions hold the same one.
UidExclusive ==
    /\ \A p \in procs : identity[p[2]] = [uid |-> p[1], active |-> TRUE]
    /\ \A s, t \in Sessions :
         identity[s].active /\ identity[t].active /\ s # t
           => identity[s].uid # identity[t].uid

\* A worker whose lease holds is not killed for another session's sake: neither
\* by an allocation nor by a sweep, the run having ended or not.
WorkerSpared ==
    [][\A s \in workers \cap workers' :
         Fenced(s) => \A p \in procs : p[2] = s => p \in procs']_vars

\* Retention does not remove the workspace of a run that has been revived, or of
\* one that is being worked on.
WorkspaceKept ==
    [][\A s \in Sessions :
         run[s].state = "active" /\ tree[s].files # "none" =>
             tree'[s].files = tree[s].files]_vars

\* The uid of an ended run is freed in the end, although its retirement failed or
\* the process died, unless the run is revived.
UidReclaimed ==
    \A s \in Sessions :
        Ended(s) /\ identity[s].active /\ s \notin workers ~>
            ~identity[s].active \/ ~Ended(s)

=============================================================================
