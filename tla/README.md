# Partitura (ohmypi-symphony): a TLA+ model of the Linear gateway

Partitura is a gateway between Linear and coding agents.  Linear sends webhooks
about agent sessions; the gateway stores them, starts one worker process per
session, feeds it the user's inputs, follows its events, and posts activities
back to Linear.  Everything durable is in one SQLite database; one process owns
it at a time, and after a crash the next incarnation continues from it.

This directory models the parts of the gateway where interleavings, crashes,
lost leases and retries decide whether it is correct.  TLC checks the modules on
small instances and TLAPS proves the central theorems for every instance.

    tlc -workers 2 -config Delivery.cfg Delivery      (one run; see "Runs")
    tlapm DeliveryProofs.tla                          (the proofs of one component)

## 1. The system

Paths are relative to `src/src`.

| Component | Source | State | Operations |
|---|---|---|---|
| Webhook inbox | `services/webhook.ts`, `services/store/delivery-repo.ts` | `webhook_delivery` rows; `activeClaims`, `failedCleanup` in memory | claim, process, mark failed, replay at startup |
| Session authority | `services/session-authority.ts` | `processingGates`, `workersRef`, `workerSlots`, `leasedSessions`, `pendingUiRef`, `stopDeferralCountsRef`, mutation gates | visit a session, handle a worker's event, cancel, fail and retry, renew leases, shut down |
| Runs and inputs | `services/store/run-repo.ts`, `run-input-repo.ts` | `agent_run` (state, desired state, attempt, retry time, lease), `run_input` | fenced update, claim lease, reopen, apply stop, enqueue, list |
| Reconciler | `services/reconciler.ts` | tick in flight, trigger queue, last catch-up | sweep all listed sessions, catch up with Linear |
| Activity outbox | `services/projector.ts`, `services/store/projection-repo.ts` | `activity_projection`, `projection_outbox` | enqueue, claim, send, complete, fail, flush |
| Linear gateway | `services/linear-gateway.ts` | `orgQueues`, `refreshing`, the cache of started states | call Linear, refresh tokens, authorize |
| Installations | `services/store/installation-repo.ts` | tokens, revocation, team access | put, revoke, apply a permission change |
| OMP worker | `services/rpc-worker.ts`, `drivers/omp` | `processRef`, `pending`, `promptIds`, `stopGate`, tools under way | start, request, prompt, read, fail, stop |
| Worker adapter | `drivers/worker-adapter.ts`, `drivers/events.ts` | the event queue, the turn that is watched, the stall timer, the question | pump events, watch a turn, stop |
| T3 driver | `drivers/t3/*` | the subscription with its cursor, the mapper's views, ports and daemons | launch, adopt or create a thread, dispatch turns, follow, respond |
| Workspaces | `services/workspace.ts`, `store/workspace-repo.ts` | directories and their rows; whether abandoned clones were removed | resolve, materialize |
| Identities, retention | `store/worker-identity-repo.ts`, `services/retention.ts`, `services/worker-security.ts` | `worker_identity`; owners of processes and directories | acquire, release, retire, sweep |
| MCP | `services/mcp-oauth.ts`, `store/mcp-server-repo.ts`, `worker-mcp-proxy.ts` | servers, OAuth states and credentials; `refreshState` | connect, disconnect, change, refresh, proxy |
| Nix environments | `services/nix-environment.ts`, `store/nix-cache-repo.ts` | cached environments | build, reuse, evict |
| Administration | `services/admin.ts`, `admin-ui/*`, `http/router.ts` | admin sessions | pages and edits |

How they interact.  A webhook fiber commits a delivery's effects (runs and inputs)
in one transaction and triggers the reconciler.  The reconciler's tick flushes the
outbox, asks the repositories which sessions need a visit, and visits them one by
one.  A visit and the consumer of a worker's events both work on a session inside
its processing gate.  Both write activities to the outbox, which calls Linear.
Heartbeats renew the leases of the sessions this process works on, and clean up
after a lease that was lost.  A worker is an OMP process, spoken to in JSON frames over
its pipes, or a thread of a T3 daemon, spoken to over WebSockets; the authority sees both
as a driver session with a queue of events.  A worker reaches MCP servers through a proxy
of the gateway, which holds their tokens.

What is hard: (a) fibers that read a row, wait, and act on what they read, while
webhooks write; (b) leases that expire under their holder; (c) a crash between any
two transactions, and a successor that meets leases that may still be live; (d)
calls of Linear that fail after they took effect; (e) resources (slots, leases,
claims, gates) taken by one fiber and returned by another; (f) waiters that depend on
another fiber's refresh, queue entry or stop, which may fail or be interrupted; (g) an
external process that ends, or a socket that is lost, between a request and its answer.
`PROJECT.json` lists
each such hazard with its line and the properties that cover it.

What makes each component correct:

- *inbox*: the effects of a delivery are committed once; a claim is neither taken
  from a live fiber nor leaked; after a restart nothing stays pending.
- *authority*: never more workers than allowed, nothing leaked, stops dominate,
  outcomes are final, a prompt is acknowledged only after the worker was given it, a
  cancellation takes effect, no runnable run is forgotten, the lease of another
  incarnation is respected.
- *outbox*: what was accepted is posted as accepted and settled in the end; a post
  is repeated only for a cause.
- *Linear gateway*: calls of an organization one at a time and in order, one refresh at a
  time, the newest token pair kept, what Linear did asked for again only when it could not be
  read back, every queued call ends unless the refresh it waits for is abandoned.
- *MCP*: one refresh at a time for a server, a rotated token never replayed, no refresh
  brings back what was disconnected or replaced, no waiter left behind.
- *OMP worker*: no process left behind, the worker's end and a prompt's failure heard of,
  a stop ends.
- *T3 driver*: each turn reaches T3 once, each transition of the thread is shown once and
  in order, a lost subscription is caught up with, the outcome told of a turn is how it ended, an
  attempt ends.
- *identities, workspaces and retention*: a uid changes hands only when nothing runs
  under it any more, no worker is killed for another session's sake, the files of a
  run are not deleted while it may use them, and every uid is freed in the end.

## 2. Modules

| Module | Models |
|---|---|
| `Delivery` | `DeliveryRepo` with `WebhookPipeline.handle` and `recoverPendingDeliveries` |
| `DeliveryProofs` | proofs about `Delivery` |
| `SessionAuthority` | `processRunnable`, `processSession`, `handleEvent`, `cancel`, `handleFailure`, `renewLeases`, `shutdown`, over `RunRepo` and `RunInputRepo`, with webhooks, catch-up and startup |
| `SessionAuthorityProofs` | proofs about `SessionAuthority` |
| `ActivityFeed` | abstract: what the outbox promises |
| `Outbox` | `ProjectionRepo` with `enqueueAndDispatch`, `dispatch` and `flushPending`; implements `ActivityFeed` |
| `OutboxProofs` | proofs about `Outbox` |
| `WorkerIdentity` | `WorkerIdentityRepo`, `Workspace.materialize`, the start and end of a worker, `Retention.sweep`, the entrypoint |
| `WorkerIdentityProofs` | proofs about `WorkerIdentity` |
| `LinearGateway` | `withOrgQueue`, `ensureToken`, `refreshTokens`, the calls with their retry, `refreshInstallation`, the OAuth callback, the webhooks about an installation |
| `LinearGatewayProofs` | proofs about `LinearGateway` |
| `McpOAuth` | the connect flow, `mintCredential` and `refreshTokens`, the administrator's changes, a proxied request |
| `MCMcpOAuth` | the symmetry of `McpOAuth` |
| `McpOAuthProofs` | proofs about `McpOAuth` |
| `RpcWorker` | `RpcWorker` with the OMP driver's listener and the adapter's pump |
| `RpcWorkerProofs` | proofs about `RpcWorker` |
| `T3Thread` | abstract: a thread of T3 as a log, and what a session promises to show of it |
| `T3Stream` | the subscription and the event mapper; implements the promise of `T3Thread` |
| `T3Driver` | the dispatch of turns and the watchers of the adapter, over `T3Thread` |
| `T3Proofs` | proofs about `T3Stream` and `T3Driver`, and the lemmas on logs they share |

An SQLite transaction is one action: `databaseGate` admits one at a time and a
transaction is atomic.  Between two transactions any other fiber may run, the
process may crash, and a statement may fail.  The `pc` of a fiber names the
step it will take next, so that each action is the code from one wait to the next.

**Delivery.**  `row` is `webhook_delivery`, `active` is `activeClaims`, `cleanup` is
`failedCleanup`, `req` the request fibers, `rec` and `phase` the recovery at startup.
A claim token is a UUID of one request or one replay; requests stand for their
tokens.  `Rejectable` payloads are those whose identity checks may fail.  `applied` is a
history variable: the tokens whose effects were committed.

**SessionAuthority.**  `run`, `lease` and `inbox` are the durable tables; `workers`,
`slots`, `leased`, `ui` and `deferrals` are the maps in memory; `job[s]` is the fiber
inside the processing gate of `s` and `gate[s]` the fibers queued behind it, in
order (the code's semaphores are first-come first-served).  A visit (`"tick"`) goes
from `Visit` through `Inputs`, `Reopen` for a canceled run, the stops, `Slot`, `Lease`, `Check`, `Access`, and
then input by input through `Route`, `Prepare`, `Start`, `Ready`, `Prompt` or `Deliver`, and `Mark`; `given`, a
history field of the fiber, is the input the worker was handed.  Worker events enter
through `Emit` and `HandleEvent`; failures of either go through `Fail` and `Failed`.
`Enqueue` is what a webhook writes, `CatchUp` what the reconciler infers.  `lease` has
an owner, this process, an earlier incarnation, or none, and says whether its expiry
lies ahead.

**Outbox.**  `row` is `projection_outbox`, `activity` the status in
`activity_projection` (which `run_event` follows), `sent` what Linear has, `job` the
dispatch of each fiber, `todo` the keys of a flush.  A lease may expire at any moment:
the call it covers waits in the queue of the organization, where one rate limit may
sleep 60 s while the lease lasts 30 s, and a flush counts all its leases from its start.
`owner` does not tell two fibers of a process apart, as in the code.

**WorkerIdentity.**  `identity` is `worker_identity`, `run` and `lease` the columns of
`agent_run` that matter here, `procs` the processes with the uid they run under and the
session they serve, `tree` and `clones` the directories under the workspace root with
their owners (0 is root: sealed).  `job` is the fiber inside the processing gate:
`Acquire`, then for a run without a workspace `Recover`, `Target`, `Clone`, `Fetch`,
`Publish`, `Record` and `Acquire` again, then `Prepare` and `Spawn`; `Stop` and `Release` end
it.  A sweep is the one transaction that takes several steps, because a crash inside it
undoes the tables and not what it did to processes and files; `sweep.before` is what a
rollback restores.  While a sweep is on nothing else of the process runs: the code is
synchronous from `BEGIN` to `COMMIT`.

**LinearGateway.**  `install` is the row of an installation, `latest` the last token pair
Linear issued for it, `tail` the last entry of `orgQueues`, `refreshing` the fiber whose
`Deferred` is in the map of that name.  A call goes `queued` (waiting, uninterruptibly, for the call before
it), `token` (reading the record), `decide`, then `exchange`
and `store`, or `await` for the refresh of another, then `send`, and
`readback` if what it made (`op` is `create`) is read with a second request; a rate limit on either leads
through `limited` to one more `send`, since the retried block holds both.  Reading and writing the record wait for WebCrypto, so
other fibers run between them: the record a refresh stores is the one it `seen`.  Linear may
answer, refuse, or do what it is asked and have the answer lost.  Every fiber may be interrupted, that of
`refreshInstallation` too: `refreshTokens` then removes its entry but completes no `Deferred`, so those who
joined its refresh wait on (`Stranded`).

**McpOAuth.**  `credential` and `state` are the rows, `flight` is `refreshState`, `req` the requests
of the workers' proxies: `read`, `decide`, then `reread`, `exchange` and `persist` for the one that
refreshes or `await` for those that join it, `send`, and after a 401 `read` again with the rejected
token.  `persist` stores only over the row that was read (`updated_at`).  `grant` is the
authorization a credential descends from.  `edit` is a PUT in its two steps (disconnect, then
update), `callback` the OAuth callback between its waits.

**RpcWorker.**  `proc`, `killed`, `agent`, `out` and `eof` are the process and its pipe; the rest has
the code's names.  A `send` is taken apart between its entry in `pending` and the write, since `fail`
may come in between; `fail` is taken apart before its call of `stop`.  `holder` and `phase` are
`stopGate` and the grace and kill that its holder waits for.  `queue`, `listening` and `heard` are the
events on their way to the authority.

**T3Thread, T3Stream, T3Driver.**  `T3Thread` is a log of what becomes of the runs of a thread, and
`Feed`: a step moves the cursor forward and shows the transitions that are new there, or gives up.
`T3Stream` shows that the pump does this: `sub` is the subscription (a snapshot up to `snap`, then
events from `pos`, some of which were seen before), `views`, `started` and `held` the
mapper's memory, `failures` and `progressed` the reconnect budget.  `T3Driver` uses the promise
instead of the mechanism: a session of the authority sends turns (`send`: look up, dispatch,
wait on the `wire`, reconcile after a lost answer, look up again), T3 takes frames with a
receipt per command id, and a watcher per turn (`watch`) waits until the run is over and
no other turn is left before it says so (`told`).

The refinement of `ActivityFeed`: a key stands for the contents of its row, what Linear
has was posted, and a completed row is settled.  Claims, failures, leases and crashes
are stutters.

## 3. Runs

| Run | Instance | Question |
|---|---|---|
| `delivery` | 1 delivery, 3 requests, 2 payloads, 2 database failures, 1 crash | all properties of `Delivery` |
| `authority` | 1 session, 3 inputs, 1 fault, 1 expired lease | safety of a session's life |
| `authority_live` | 1 session, 2 inputs, 1 fault, 1 crash or shutdown | liveness, and respect for old leases |
| `authority_slots` | 2 sessions, 1 slot, 1 input each, 1 fault, 1 loss of access | the limit on workers |
| `outbox` | 2 keys (1 comment), 2 contents, a caller and the flusher, 2 calls, 1 fault, 1 expired lease, 1 crash | refinement, causes of repetition, settlement |
| `worker_identity` | 2 sessions, one of them ended before, 1 uid, 2 process ids, 1 removal per sweep, 1 failure or expired lease, 1 crash, 1 revival | use of uids, workers and workspaces spared, uids freed |
| `linear_gateway` | 1 organization, 2 queued calls, 1 call outside the queue, 1 callback, 3 pairs, 1 webhook, 1 interruption | order of the queue, one refresh, newest pair, what is asked for twice, calls end |
| `mcp_oauth` | 1 server connected before, 2 addresses, 2 requests, 1 authorization with 2 callbacks, 2 changes, 3 pairs, 1 lapse | refresh, disconnection and reconnection at once |
| `rpc_worker` | 1 request, 1 host tool, 1 stop, 2 frames in the pipe | no orphan, the end is told, stop ends, prompts settle |
| `t3_stream` | 2 runs, 5 events, 2 lost subscriptions, 1 attempt in a row | what is shown is the thread, once and in full |
| `t3_driver` | 2 turns, 1 run restarted by T3, 4 events, 1 fault, 2 attempts | turns land once, outcomes are real, attempts end |
| `revocation_holds` | 1 call, 1 webhook | refutes one statement of the repository (section 6) |

Why the bounds are enough.  In `delivery` three requests are what the longest known race needs:
a claim, its redelivery, and a third request between a failed claim and its deferred
cleanup; two failures exhaust the attempts of a replay.  In the authority three inputs
give create, stop and prompt again in any order, and two attempts give one retry and
the exhaustion of attempts.  Two sessions and one slot are the least that compete.
In the outbox two fibers are the least that overlap on a key, and each cause of a
repetition (a fault, an expired lease, a crash) happens once at any point.  In
`worker_identity` two sessions and one uid are the least that compete for it, and the uid
may come with leftovers: a session of the past may or may not have had it.  Every
bound is a constant that appears in the guard of the action it bounds.

Deadlock is checked except in the runs of `Delivery` and `WorkerIdentity`: requests,
failures, crashes and revivals are finitely many there, so that nothing may be left to
do at the end.  The same holds of the runs of `LinearGateway`, `McpOAuth`, `RpcWorker`, `T3Stream`
and `T3Driver`, whose calls, events and faults are finitely many.

In `linear_gateway` two calls and one outside the queue are the least for a queue, an
interrupted wait and two fibers that meet an expired token; three pairs are the first, a
refresh, and one more by a callback or a second refresh.  Its records have no teams, which none of its
properties reads; those of `revocation_holds` have one.  In `mcp_oauth` two requests
are one that refreshes and one that joins or comes late, and three pairs let a credential be
refreshed and replaced.  `rpc_worker` has the hello request of `start` beside its
one request, and a failed start stops the worker too, so that two stops meet.  In `t3_stream` two
losses are one past the budget of one attempt, or two with progress between.  In `t3_driver`
two turns are a first and a follow-up that steers or queues behind it, and two
attempts let the second adopt the thread of the first.

`McpOAuth` is checked up to permutations of its requests, callbacks, authorizations and addresses
(`MCMcpOAuth`), which no definition tells apart; the run has no liveness property, for which symmetry would not be sound.

The type invariants of `Outbox`, `LinearGateway`, `McpOAuth`, `RpcWorker`, `T3Stream` and `T3Driver` are
in no run: they are theorems (section 4).

**Fairness.**  Weak fairness for the steps of fibers that are ready to run (the Effect
runtime schedules every ready fiber and every modelled call returns or fails), for
the periodic work (sweep, flush, heartbeat, which repeat on a schedule), for the passing of time (retry
times and the leases of dead incarnations) and for the restart of a process that is down.
The loop of a sweep comes to every session it listed, since each visit returns or fails.
In `WorkerIdentity` the steps of a fiber have strong fairness, for a sweep that runs
again and again takes them away without keeping them away.
In `LinearGateway` a fiber that can go on does, and what it waits for outside, Linear or a
sleep, ends well or badly (requests have timeouts).  In `RpcWorker` the fibers and the grace of a stop go
on, a process that was sent SIGKILL ends, and an agent that accepted a prompt goes on with it;
no answer need come, no tool return, no request time out.  In `T3Stream` only the pump is
fair, in `T3Driver` the gateway's fibers and the stall timer: T3 need do nothing, a user need not
answer, a session need not be closed.
No fairness for inputs, faults, lease expiry under a live
holder, or crashes: all are bounded, so that a behaviour in which they stop for good is
what a liveness property speaks of.

## 4. What is proved

`DeliveryProofs`, for any deliveries, payloads, requests, replays and bounds:
`TypeCorrect`, `DeliveredOnce` (`ExactlyOnce`), `ClaimsAreHeld` (`LiveClaimHeld`), `ClaimsAreReleased`
(`NoLeakedClaim`) and `RecoveryIsComplete` (`RecoverySettles`).  None of these is inductive by
itself.  The inductive invariant `IInv` adds: requests run only while HTTP is served and
know their delivery (`Served`); a replay in progress has a row and a token of its own
(`Replaying`); a row that is pending during recovery is on its list or is the one being
replayed, under the token known for it (`RecoveryWork`); and the owner of a failed
cleanup has finished (`CleanupsFinished`).  The last is the subtle one: a later request
resets the row of a failed cleanup, and this is harmless only because no live fiber
still works under that token.

`SessionAuthorityProofs`, for any sessions and bounds: `TypeCorrect`, `WorkersAreBounded`
(`SlotsBounded`), `LeavesNothingBehind` (`NothingLeaked`), `StopsComeFirst` (`StopDominates`),
`LeasesAreRespected` (`LeaseRespected`), `OutcomesAreFinal` (`OutcomeIsFinal`) and
`PromptsReachWorkers` (`PromptReachesWorker`).  The gate lets one fiber of a session in at a time, so
`IInv` says of each session what its fiber may rely on at the place where it is, and a step of one
session leaves of the others what their parts of `IInv` speak of (`Kept`).  `Placed`: workers are on
slots, and a visit that is past `slot` keeps its own.  `Resting`: a session without a fiber holds only
what its worker needs.  `Lasting`: a visit that may start a worker finds attempts left, and a run that
ended has no worker, unless the access was lost meanwhile.  This is why not even the types are
inductive alone: starting a worker adds an attempt, and the check that some are left was made several
steps before.  `Ordered`: the inputs of a visit are the first that are not processed, whatever
arrived after it read them, and the stops among them are dealt with before a slot is taken.
`Honest`: a cancellation acknowledges prompts only for a run that the user has canceled.
`Handed`: what a visit is about to acknowledge was given to the worker, or is the creation of the session.
`StopsComeFirst` needs besides that the inputs a visit still has to deliver have a first one.

`OutboxProofs`, for any keys, contents, callers and bounds: `TypeCorrect`, `RepeatsAreCaused`
(`RepeatNeedsCause`) and `Implements` (`ImplementsFeed`).  `IInv` has four parts besides the types:
`Known` (a key that is dispatched was accepted), `Faithful` (a fiber carries the contents of
its row, and completes only what was posted or may be withdrawn), `Exclusive` (while no
lease expired under a fiber, a claimed key has one holder whose claim is live) and
`Counted` (each post but the one that completes the key has a fault or a crash to
account for it).  `Exclusive` is what makes `Counted` inductive: two holders of one key could both
post without any fault.  Refinement needs only `Known` and `Faithful`: it holds even when leases
expire under their holders.

`WorkerIdentityProofs`, for any sessions, range of uids, process ids and bounds: `TypeCorrect`,
`UidsAreExclusive` (`UidExclusive`), `WorkersAreSpared` (`WorkerSpared`) and `WorkspacesAreKept`
(`WorkspaceKept`).  `UidExclusive` speaks of processes and of the table; `IInv` adds what the fiber
and the sweep carry from step to step.  `Preparing`: a fiber on its way to a worker works for
an active run under the uid its session still holds, so nobody retires it meanwhile.
`Sweeping`: the rows a sweep has still to look at have ended and are leased by nobody, and the
tables a rollback restores cover the processes that are left; this is why a crash inside a
sweep cannot bring back an allocation that was given away.

`LinearGatewayProofs`, for any organizations, calls, callbacks and bounds: `TypeCorrect`, `OneAtATime`
(`InOrder`), `RepeatedIfUnread` (`RepeatsOnlyUnread`) and `NewestKept` (`PairKept`).  `InOrder` is not
inductive: that one call works alone follows from the shape of the queue.  `IInv` says that the
queue is a chain (`Chain`: whoever waits, waits for the call that joined just before it, all
before that one are before it too, and the tail is the last), that a fiber is in
`refreshing` exactly while it exchanges or stores (`Refreshing`), and that the last pair is in the
row, or about to be stored by the fiber that refreshes or by a callback (`Pairs`).  The
chain survives interruption only because a call that leaves the queue early hands its place to its
predecessor's end, and this is the longest part of the proof.

`T3Proofs` begins with the thread's log: what its first n events say of a run, and how one more
event changes that (`MaxIsMax`, `OneMoreEvent`, `Stable`).  From it follows `History`: from any point of the log to a
later one no run leaves its end, none disappears, and an answered question is not asked again.

Of the stream, for any runs and bounds: `ViewHolds` (`ViewAtCursor`), `PromiseKept` (`KeepsPromise`, the
refinement of `Feed`) and `StreamTypesHold`.  `StreamInv` adds to `History` that a subscription leaves no gap
after the cursor (`NoGap`: the snapshot to come is not older, and the next event is a replay or the very next)
and what the keys in `shown` say of the questions at the cursor (`QuestionsShown`).  `NoGap` is what makes a
step of the pump one of `Advance`: a snapshot says the same of every run it leaves out, an event of every run
but its own.  That no transition waits for the adapter twice needs an invariant of its own
(`QueueInv`), since the keys of holds are not in `shown`.

Of the driver, for any turns, restarts and bounds: `TurnsLandOnce` (`OneTurn`), `OutcomesAreReal` (`OutcomeIsReal`)
and `DriverTypesHold`.  For the first, `DriverInv`: every frame of a turn carries the id of the turn (`SameId`), at
most one frame is live and the send waits for it (`LiveFrame`), and T3's receipts are exactly the turns that
landed, once each, among them all that were located or ticked off (`Receipts`).  Frames of lost
connections stay on the wire and may be taken at any later time, in a later attempt too; `SameId` is why
this is harmless.  For the second, `OutcomeInv`: between the moment a watcher finds its outcome and the moment it
tells, the cursor moves and T3 may continue runs, so it has to be shown that what was found stays
(`ResolvedStays`).  It does because a run that is continued shows as stopped only after its continuation shows
(`Continued`, from the order in which T3 makes the two), and because T3 continues no run that has ended; `Unused`
says that a run has no past before its turn is accepted or its predecessor stopped.

`McpOAuthProofs`, for any servers, requests, callbacks and bounds: `TypeCorrect` (`TypeOK`),
`WaitersAreServed` (`WaitsForLive`), `GrantsAreNew` (`NewestGrant`) and `TokensAreSpentOnce`
(`SpentNotReplayed`).  What has to be shown is that the check of `persist` is enough: a row with the
stamp the refresh has read is the row it has read (`Same`), although the row may have been deleted,
granted again or refreshed meanwhile.  `FreshCodes` and `FreshTokens` say that whoever is about to store
a pair is the only one that has it, `Unspent` that the token in a row, or in the hands of the flight that
exchanges it, was not used yet, and `Served` and `Named` that a flight belongs to one request that
is refreshing.

`RpcWorkerProofs`, for any requests, tool calls and stops: `TypeCorrect` and `NothingIsLeftRunning`
(`NoOrphan`).  `IInv` turns on who may end the process (`Held`): while it runs and was not killed,
`processRef` or a stop has it, and a stop that was begun while there was one holds it.  A `fail` that
takes `processRef` kills the process itself, or comes after the beginning of a stop, which
remembers the process it found; and `start` spawns nothing once `stopping` is set.  `Told` is part of the types:
the end is reported by the one that takes `processRef`, and there is one spawn (`Started`), so the
reader, the exit fiber and a failed write report it once between them.

The proofs assume what the modules' `ASSUME`s state: the sets are disjoint where the
code's identifiers are, and the bounds are natural numbers.  `WorkerIdentity` assumes
its sessions finite, to count the retirements that fail; `T3Thread` its runs, to put a set of
transitions in a queue.

Only model-checked: liveness (`AcceptedSettles`, `UidReclaimed`, `QueuedReturns`, `ExitTold`, `StopEnds`,
`PromptSettles`, `CaughtUp`, `AttemptEnds` and that of `SessionAuthority`), since TLAPS does not handle
fairness.  Every safety property of a passing run is a theorem.

## 5. Abstractions

- One process at a time; an earlier one is seen only through the leases it left.
- The webhooks of a session arrive in the order in which Linear sent them, so that the order of
  arrival is that of `created_at`, which the code sorts by and compares with the time a retry was
  scheduled at.  Only the one that creates the session may come late, after a prompt's.
- A revoked installation or a lost team is not given back: `Deny` is final.
- The contents of inputs and activities are abstract.  A repository question is the
  outcome "waiting" of `Route`; the prompts' text does not matter.
- The team of an issue is known when its session is created; in the code it may be
  discovered during routing.
- Releasing a lease is best effort in the code; in the model it succeeds, and `LeaseExpires`
  stands for a release that did not.
- One cleanup after a lost lease may wait per session; heartbeats start no second.
- Worker events are reduced to the four that change a run: end, question, error and the
  exit of the process.
- Attempt numbers and backoff of the outbox, the limit of 50 keys per flush and the
  queue of an organization are abstracted to arbitrary delay and order.
- `WorkerIdentity` leaves out a repository whose marker does not match, checkouts without a
  marker (renamed `.stale-...`), workspaces that share a path, a persisted uid outside the
  range, the remote T3 daemon, the gateway without worker uids, and the second transaction
  of a sweep, which deletes expired rows.  A restarted gateway has the host name of the
  old one; with another host name it leaves all old clones alone.
- `LinearGateway`: the cache of started workflow states and the contents of calls are left out;
  a permission change reads and writes the row in one step; whether an activity has to be read back,
  which Linear's answer decides, is chosen as the call begins; several requests that only read are one.
  `refreshInstallation` is part of the service though nothing under `src` calls it today.
- `McpOAuth`: two writers of a credential never start in the same millisecond, so that `updated_at`
  tells them apart; the details of a credential are read in one step; discovery and client
  registration are the wait before a state is inserted; a proxy is not taken down in the midst of a
  request; all servers have one OAuth client each.
- `RpcWorker`: a frame stands for its chunks put together; output nobody will read any more is
  dropped; the limit of 256 waiting events is not reached; a prompt's attachments and what a
  tool does are left out.  A prompt that is answered with `agentInvoked` false starts no turn: what the
  authority does then (`finishLocalCommand`) is in `SessionAuthority`, `Prompt`.
- `T3Thread` and its users: T3 has one question and one hold of the queue per thread, and runs that
  continue an interrupted run are not themselves interrupted and continued; T3 creates the continuation before it stops the
  run; a snapshot is never older than the cursor; a read of the thread with its retries is one
  step that succeeds or fails; launching a daemon and providing the project is one step that
  opens a session or does not; an interrupt lands or not; the stall timer's interrupt
  and error are one step.  An answer to a question lands, fails, or lands with its answer lost.
- `T3Stream`: an item whose payload is malformed is dropped by the mapper while the cursor advances, like
  an event of a kind it does not know; in the model every event of the log is well formed.
- `T3Driver`: a later attempt sends again the inputs that are not processed; the prompt `retry:<attempt>` that
  a resumed run without inputs gets (`session-authority.ts:2852`) is not a turn of the model.
- `Outbox` has the keys of one run, so one flag says whether it is canceled; the retention of
  old rows is left out.

## 6. Where the code and its documents disagree

`revocation_holds`: a revocation that arrives while a token is being refreshed is undone when the
refreshed record is stored, because `performRefresh` writes the whole record it read before the
exchange.  `LINEAR_GATEWAY_RESEARCH.md:102` asks to stop dispatch at once.  `PROJECT.json` has the lines.

Other behaviours met while modelling.  They are in the modules, no run states them as a property:

- A prompt that arrives while its run is being canceled stays pending: canceled runs are on no list
  (`session-authority.ts:2537`).
- A stop accepted between `reopen` and the check that follows it cancels a run whose desired state
  says running (`session-authority.ts:2548`).
- A run ended for loss of team access keeps a live worker, its slot and its lease
  (`session-authority.ts:2744`).
- The question of a dead worker takes the next prompt as its answer (`session-authority.ts:3126`).
- An expired lease lets a second call for the same activity start while the first waits
  (`projector.ts:65`); `RepeatNeedsCause` counts it as a cause.
- A gateway that died while cloning and restarts under its old process id, as in a container, takes
  the abandoned clone for its own (`workspace.ts:852`).
- A request whose token got a 401 joins a refresh that only finds the token already renewed, and is
  given back the token that was rejected (`mcp-oauth.ts:1370`).
- A follow-up turn sent as the watcher takes its snapshot of the turns is not in it, and the worker may
  be released while T3 still queues it; `docs/agent-drivers.md:142` says completion waits for queued
  turns.
- A comment, or an activity that Linear's answer does not name, is posted twice if the request that reads
  it back meets a rate limit (`linear-gateway.ts:1481`, `:612`): `RepeatsOnlyUnread` allows that case alone, and
  `RepeatNeedsCause` counts it as a cause.
- Interrupting `refreshInstallation` while it refreshes strands the queued call that joined the refresh, and
  the queue of its organization with it (`linear-gateway.ts:357`); `QueuedReturns` excepts it.
- The webhook that creates a session, if it comes after a prompt has started the worker, is marked
  processed without being given to it (`session-authority.ts:3125`); `PromptReachesWorker` excepts it.

## 7. What is left

Not modelled, and what a model would be about:

- the mutation gate of host tools against cancellation, its timeout, and the gate that is deleted while
  others wait on it;
- the terminal paths of `SessionAuthority` composed with the outbox: an outcome is posted, or lost by a
  crash between two writes;
- the build cache of nix environments; the launcher of T3 daemons with its ports, and the projects;
- what `docs/security.md` says of retained roots, against removals that fail;
- the cache of installation tokens of the GitHub App.

Left out for good: pages, routing, administration, run events, executor instances, configuration,
logging, formatting and encryption, which have no state that several actors share.

No safety property of a passing run is left to prove.
