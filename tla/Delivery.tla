------------------------------ MODULE Delivery ------------------------------
(***************************************************************************)
(* The durable webhook inbox: DeliveryRepo (the webhook_delivery table and *)
(* the process-local activeClaims map) together with the two flows of      *)
(* WebhookPipeline that use it, handle (one fiber per HTTP request) and    *)
(* recoverPendingDeliveries (run at startup, before HTTP is served).       *)
(*                                                                         *)
(* A claim token is a random UUID drawn by one request or by one replay,   *)
(* so a request is identified with its token and every replay takes a      *)
(* fresh one.  SQLite transactions run one at a time behind databaseGate   *)
(* and are atomic: one action each.  Between two of them any other fiber   *)
(* may run, the process may crash, and a statement may fail (DbFails).     *)
(***************************************************************************)
EXTENDS Naturals, FiniteSets

CONSTANTS
    Deliveries,   \* delivery ids (the Linear-Delivery header)
    Payloads,     \* payload hash together with its organization
    Rejectable,   \* the payloads whose identity or schema checks may fail
    Requests,     \* HTTP requests, each with the claim token it draws
    Replays,      \* the tokens drawn by startup recovery
    None,         \* no token, delivery or payload (SQL NULL)
    MaxTries,     \* attempts of one replay (3 in the code)
    MaxFaults,    \* bound: failures of the database
    MaxCrashes    \* bound: crashes of the process

Tokens == Requests \cup Replays

ASSUME DeliveryAssumption ==
    /\ Requests \cap Replays = {}
    /\ None \notin Tokens \cup Deliveries \cup Payloads
    /\ Rejectable \subseteq Payloads
    /\ MaxTries \in Nat \ {0}
    /\ MaxFaults \in Nat
    /\ MaxCrashes \in Nat

VARIABLES
    row,      \* webhook_delivery: status, payload and claim_token of each id
    active,   \* activeClaims: the token of the live claim on each id
    cleanup,  \* failedCleanup: claims whose failure could not be recorded
    req,      \* the request fibers
    phase,    \* where the process is: down, replaying at startup, or serving
    rec,      \* the recovery fiber
    used,     \* the replay tokens already drawn
    applied,  \* history: the tokens whose domain effects were committed
    faults,   \* database failures so far
    crashes   \* crashes so far

vars == <<row, active, cleanup, req, phase, rec, used, applied, faults, crashes>>

Statuses == {"absent", "pending", "processed", "failed"}

RequestPcs == {"new", "cleanup", "reset", "claim", "process", "release",
               "markFailed", "done", "lost"}

Responses == {"none", "ok", "duplicate", "conflict", "superseded", "error"}

Phases == {"down", "recover", "replayClaim", "replayProcess", "replayFail",
           "serving"}

NoReplay == [todo |-> {}, id |-> None, orig |-> None, token |-> None,
             tries |-> 0, acquired |-> FALSE]

-----------------------------------------------------------------------------
(* Operations of the repository, as functions of the state they change.     *)

\* releaseClaim: the entry goes only if the caller's token still holds it.
Released(i, t) ==
    IF active[i] = t THEN [active EXCEPT ![i] = None] ELSE active

\* mark, with the fence on the status and on the claim token.
Marked(i, t, status) ==
    IF row[i].status = "pending" /\ row[i].token = t
      THEN [row EXCEPT ![i].status = status]
      ELSE row

\* Mutant of TakenBy: a processed delivery can be claimed again.
TakenWhilePending(i) ==
    /\ row[i].status = "pending"
    /\ row[i].token # None
    /\ active[i] = row[i].token

\* Mutant of TakenBy: the durable status alone decides, not activeClaims.
TakenWhenProcessed(i) == row[i].status = "processed"

\* The test of claim that answers "duplicate": done, or held by a live fiber.
TakenBy(i) ==
    \/ row[i].status = "processed"
    \/ /\ row[i].status = "pending"
       /\ row[i].token # None
       /\ active[i] = row[i].token

\* The fence at the head of processClaim.
Owns(i, t) == row[i].status = "pending" /\ row[i].token = t

\* The request has its answer and runs its finalizers.
Answered(r, what) ==
    [req EXCEPT ![r] = [@ EXCEPT !.pc = "release", !.resp = what]]

\* A database failure, which every statement can raise.
DbFails ==
    /\ faults < MaxFaults
    /\ faults' = faults + 1

-----------------------------------------------------------------------------
(* WebhookPipeline.handle                                                   *)

\* The request has passed the signature, size and replay-window checks and
\* names a delivery id.
Arrive(r) ==
    /\ phase = "serving"
    /\ req[r].pc = "new"
    /\ \E i \in Deliveries, p \in Payloads :
         req' = [req EXCEPT ![r] =
                    [@ EXCEPT !.pc = "cleanup", !.id = i, !.payload = p]]
    /\ UNCHANGED <<row, active, cleanup, phase, rec, used, applied, faults, crashes>>

\* A redelivery first takes over a cleanup that an earlier request could not
\* write, before it consults the durable status.
TakeFailedCleanup(r) ==
    /\ req[r].pc = "cleanup"
    /\ LET i == req[r].id IN
         IF cleanup[i] = None
           THEN /\ req' = [req EXCEPT ![r].pc = "claim"]
                /\ UNCHANGED cleanup
           ELSE /\ req' = [req EXCEPT ![r] =
                               [@ EXCEPT !.pc = "reset", !.held = cleanup[i]]]
                /\ cleanup' = [cleanup EXCEPT ![i] = None]
    /\ UNCHANGED <<row, active, phase, rec, used, applied, faults, crashes>>

ResetFailed(r) ==
    /\ req[r].pc = "reset"
    /\ LET i == req[r].id IN
         /\ active' = Released(i, req[r].held)
         /\ \/ /\ row' = Marked(i, req[r].held, "failed")
               /\ req' = [req EXCEPT ![r] = [@ EXCEPT !.pc = "claim", !.held = None]]
               /\ UNCHANGED <<cleanup, faults>>
            \/ /\ DbFails
               /\ cleanup' = [cleanup EXCEPT ![i] = req[r].held]
               /\ req' = [req EXCEPT ![r] = [@ EXCEPT !.pc = "release", !.held = None,
                                                     !.resp = "error"]]
               /\ UNCHANGED row
    /\ UNCHANGED <<phase, rec, used, applied, crashes>>

\* The row and the live claim of a granted claim.  The hash and organization
\* stored by the first delivery are never rewritten.
Granted(r) ==
    LET i == req[r].id
        stored == IF row[i].status = "absent" THEN req[r].payload
                                              ELSE row[i].payload
    IN  /\ row' = [row EXCEPT ![i] = [status |-> "pending",
                                      payload |-> stored, token |-> r]]
        /\ active' = [active EXCEPT ![i] = r]
        /\ req' = [req EXCEPT ![r] = [@ EXCEPT !.pc = "process", !.claimed = TRUE]]
        /\ UNCHANGED faults

\* DeliveryRepo.claim, first disjunct: accept, or take over a failed or
\* abandoned delivery of the same payload.
ClaimGranted(r) ==
    LET i == req[r].id IN
    /\ \/ row[i].status = "absent"
       \/ row[i].payload = req[r].payload /\ ~TakenBy(i)
    /\ Granted(r)

ClaimRefused(r) ==
    LET i == req[r].id
    IN  /\ \/ /\ row[i].status # "absent"
              /\ row[i].payload # req[r].payload
              /\ req' = Answered(r, "conflict")
              /\ UNCHANGED faults
           \/ /\ row[i].status # "absent"
              /\ row[i].payload = req[r].payload
              /\ TakenBy(i)
              /\ req' = Answered(r, "duplicate")
              /\ UNCHANGED faults
           \/ /\ DbFails
              /\ req' = Answered(r, "error")
        /\ UNCHANGED <<row, active>>

Claim(r) ==
    /\ req[r].pc = "claim"
    /\ ClaimGranted(r) \/ ClaimRefused(r)
    /\ UNCHANGED <<cleanup, phase, rec, used, applied, crashes>>

\* processClaim: fence, domain effects and completion commit together.
Process(r) ==
    LET i == req[r].id IN
    /\ req[r].pc = "process"
    /\ IF Owns(i, r)
         THEN /\ applied' = [applied EXCEPT ![i] = @ \cup {r}]
              /\ row' = Marked(i, r, "processed")
              /\ active' = Released(i, r)
              /\ req' = Answered(r, "ok")
         ELSE /\ req' = Answered(r, "superseded")
              /\ UNCHANGED <<row, active, applied>>
    /\ UNCHANGED <<cleanup, phase, rec, used, faults, crashes>>

\* The event is refused by a check, or the transaction fails and rolls back.
\* A failing COMMIT comes after mark has already dropped the live claim.
ProcessFails(r) ==
    LET i == req[r].id IN
    /\ req[r].pc = "process"
    /\ \/ /\ req[r].payload \in Rejectable
          /\ UNCHANGED <<active, faults>>
       \/ /\ DbFails
          /\ active' \in {active, Released(i, r)}
    /\ req' = Answered(r, "error")
    /\ UNCHANGED <<row, cleanup, phase, rec, used, applied, crashes>>

\* The client disconnects: the fiber is interrupted outside the masked parts.
Interrupt(r) ==
    /\ req[r].pc \in {"cleanup", "claim", "process"}
    /\ req' = Answered(r, "error")
    /\ UNCHANGED <<row, active, cleanup, phase, rec, used, applied, faults, crashes>>

\* Mutant of Release: the finalizer forgets the live claim.
ReleaseKeepsClaim(r) ==
    /\ req[r].pc = "release"
    /\ req' = [req EXCEPT ![r].pc = IF req[r].claimed /\ req[r].resp = "error"
                                      THEN "markFailed" ELSE "done"]
    /\ UNCHANGED <<row, active, cleanup, phase, rec, used, applied, faults, crashes>>

\* The ensuring finalizer of handle.
Release(r) ==
    /\ req[r].pc = "release"
    /\ active' = Released(req[r].id, r)
    /\ req' = [req EXCEPT ![r].pc = IF req[r].claimed /\ req[r].resp = "error"
                                      THEN "markFailed" ELSE "done"]
    /\ UNCHANGED <<row, cleanup, phase, rec, used, applied, faults, crashes>>

\* markClaimFailed, the onError finalizer of handle.
MarkFailed(r) ==
    LET i == req[r].id IN
    /\ req[r].pc = "markFailed"
    /\ active' = Released(i, r)
    /\ \/ /\ row' = Marked(i, r, "failed")
          /\ cleanup' = [cleanup EXCEPT ![i] = None]
          /\ UNCHANGED faults
       \/ /\ DbFails
          /\ cleanup' = [cleanup EXCEPT ![i] = r]
          /\ UNCHANGED row
    /\ req' = [req EXCEPT ![r].pc = "done"]
    /\ UNCHANGED <<phase, rec, used, applied, crashes>>

-----------------------------------------------------------------------------
(* WebhookPipeline.recoverPendingDeliveries                                 *)

\* pendingIds: the rows left pending, each with the token it was left with.
Boot ==
    /\ phase = "down"
    /\ phase' = "recover"
    /\ rec' = [NoReplay EXCEPT !.todo =
                 {[id |-> i, token |-> row[i].token] :
                    i \in {d \in Deliveries : row[d].status = "pending"}}]
    /\ UNCHANGED <<row, active, cleanup, req, used, applied, faults, crashes>>

NextReplay ==
    /\ phase = "recover"
    /\ used # Replays
    /\ LET t == CHOOSE x \in Replays \ used : TRUE
       IN  /\ used' = used \cup {t}
           /\ \E p \in rec.todo :
                rec' = [todo |-> rec.todo \ {p}, id |-> p.id, orig |-> p.token,
                        token |-> t, tries |-> 1, acquired |-> FALSE]
    /\ phase' = "replayClaim"
    /\ UNCHANGED <<row, active, cleanup, req, applied, faults, crashes>>

Serve ==
    /\ phase = "recover"
    /\ rec.todo = {}
    /\ phase' = "serving"
    /\ rec' = NoReplay
    /\ UNCHANGED <<row, active, cleanup, req, used, applied, faults, crashes>>

\* Mutant of RetryReplay: no bound on the attempts.
RetryReplayUnbounded ==
    /\ phase' = "replayClaim"
    /\ rec' = [rec EXCEPT !.tries = @ + 1]

\* A DatabaseError starts the replay of this row again, MaxTries times in all.
RetryReplay ==
    IF rec.tries < MaxTries
      THEN /\ phase' = "replayClaim"
           /\ rec' = [rec EXCEPT !.tries = @ + 1]
      ELSE /\ phase' = "replayFail"
           /\ UNCHANGED rec

\* claimReplay rotates the token of a row that is still pending.
ReplayClaim ==
    /\ phase = "replayClaim"
    /\ \/ /\ row[rec.id].status = "pending"
          /\ row' = [row EXCEPT ![rec.id].token = rec.token]
          /\ active' = [active EXCEPT ![rec.id] = rec.token]
          /\ rec' = [rec EXCEPT !.acquired = TRUE]
          /\ phase' = "replayProcess"
          /\ UNCHANGED faults
       \/ /\ row[rec.id].status # "pending"
          /\ phase' = "recover"
          /\ UNCHANGED <<row, active, rec, faults>>
       \/ /\ DbFails
          /\ RetryReplay
          /\ active' = Released(rec.id, rec.token)
          /\ UNCHANGED row
    /\ UNCHANGED <<cleanup, req, used, applied, crashes>>

ReplayProcess ==
    LET i == rec.id
        t == rec.token
    IN
    /\ phase = "replayProcess"
    /\ \/ /\ IF Owns(i, t)
               THEN /\ applied' = [applied EXCEPT ![i] = @ \cup {t}]
                    /\ row' = Marked(i, t, "processed")
               ELSE UNCHANGED <<row, applied>>
          /\ active' = Released(i, t)
          /\ phase' = "recover"
          /\ UNCHANGED <<rec, faults>>
       \/ /\ row[i].payload \in Rejectable
          /\ phase' = "replayFail"
          /\ UNCHANGED <<row, active, applied, rec, faults>>
       \/ /\ DbFails
          /\ RetryReplay
          /\ active' \in {active, Released(i, t)}
          /\ UNCHANGED <<row, applied>>
    /\ UNCHANGED <<cleanup, req, used, crashes>>

\* Mutant of ReplayFail: the failure is written under the replay's own token
\* even when the rotation never committed.
ReplayFailOwnToken ==
    /\ phase = "replayFail"
    /\ row' = Marked(rec.id, rec.token, "failed")
    /\ active' = Released(rec.id, rec.token)
    /\ phase' = "recover"
    /\ UNCHANGED <<cleanup, req, rec, used, applied, faults, crashes>>

\* The abandoned delivery is made retryable under the token that owns it: the
\* replay's if it was rotated, else the one read at the start.  A failure here
\* fails the startup.
ReplayFail ==
    LET i == rec.id
        t == IF rec.acquired THEN rec.token ELSE rec.orig
    IN
    /\ phase = "replayFail"
    /\ active' = Released(i, rec.token)
    /\ \/ /\ row' = Marked(i, t, "failed")
          /\ phase' = "recover"
          /\ UNCHANGED <<rec, faults>>
       \/ /\ DbFails
          /\ phase' = "down"
          /\ rec' = NoReplay
          /\ UNCHANGED row
    /\ UNCHANGED <<cleanup, req, used, applied, crashes>>

\* Everything in memory is lost; requests in flight get no answer.
Crash ==
    /\ phase # "down"
    /\ crashes < MaxCrashes
    /\ crashes' = crashes + 1
    /\ phase' = "down"
    /\ rec' = NoReplay
    /\ active' = [i \in Deliveries |-> None]
    /\ cleanup' = [i \in Deliveries |-> None]
    /\ req' = [r \in Requests |->
                 IF req[r].pc \in {"new", "done"} THEN req[r]
                                                 ELSE [req[r] EXCEPT !.pc = "lost"]]
    /\ UNCHANGED <<row, used, applied, faults>>

-----------------------------------------------------------------------------
Init ==
    /\ row = [i \in Deliveries |->
                [status |-> "absent", payload |-> None, token |-> None]]
    /\ active = [i \in Deliveries |-> None]
    /\ cleanup = [i \in Deliveries |-> None]
    /\ req = [r \in Requests |->
                [pc |-> "new", id |-> None, payload |-> None, held |-> None,
                 claimed |-> FALSE, resp |-> "none"]]
    /\ phase = "down"
    /\ rec = NoReplay
    /\ used = {}
    /\ applied = [i \in Deliveries |-> {}]
    /\ faults = 0
    /\ crashes = 0

\* The steps the runtime takes by itself, without the outside world.
Handle(r) ==
    \/ TakeFailedCleanup(r)
    \/ ResetFailed(r)
    \/ Claim(r)
    \/ Process(r)
    \/ ProcessFails(r)
    \/ Release(r)
    \/ MarkFailed(r)

Recover ==
    \/ Boot
    \/ NextReplay
    \/ Serve
    \/ ReplayClaim
    \/ ReplayProcess
    \/ ReplayFail

Next ==
    \/ \E r \in Requests : Arrive(r) \/ Handle(r) \/ Interrupt(r)
    \/ Recover
    \/ Crash

Spec == Init /\ [][Next]_vars

\* The Effect runtime schedules every ready fiber and the service manager
\* restarts the process; nothing makes a client call or a crash happen.
Fairness == WF_vars(Recover) /\ \A r \in Requests : WF_vars(Handle(r))

FairSpec == Spec /\ Fairness

-----------------------------------------------------------------------------
(* Properties                                                               *)

Row == [status : Statuses, payload : Payloads \cup {None},
        token : Tokens \cup {None}]

Request == [pc : RequestPcs, id : Deliveries \cup {None},
            payload : Payloads \cup {None}, held : Requests \cup {None},
            claimed : BOOLEAN, resp : Responses]

Replay == [todo : SUBSET [id : Deliveries, token : Tokens \cup {None}],
           id : Deliveries \cup {None}, orig : Tokens \cup {None},
           token : Replays \cup {None}, tries : 0 .. MaxTries,
           acquired : BOOLEAN]

TypeOK ==
    /\ row \in [Deliveries -> Row]
    /\ active \in [Deliveries -> Tokens \cup {None}]
    /\ cleanup \in [Deliveries -> Requests \cup {None}]
    /\ req \in [Requests -> Request]
    /\ phase \in Phases
    /\ rec \in Replay
    /\ used \in SUBSET Replays
    /\ applied \in [Deliveries -> SUBSET Tokens]
    /\ faults \in 0 .. MaxFaults
    /\ crashes \in 0 .. MaxCrashes

\* Whatever requests, retries, replays and crashes happen, the effects of one
\* delivery are committed at most once, and exactly when the row is processed.
ExactlyOnce ==
    \A i \in Deliveries :
        /\ \A s, t \in applied[i] : s = t
        /\ applied[i] # {} <=> row[i].status = "processed"

\* A request that is processing its delivery owns it in the table and in
\* memory: no redelivery, failed cleanup or finalizer of another request can
\* take the claim from under a live fiber.
LiveClaimHeld ==
    \A r \in Requests :
        req[r].pc = "process" =>
            /\ Owns(req[r].id, r)
            /\ active[req[r].id] = r

\* An entry of activeClaims always belongs to a fiber that still runs and will
\* remove it.  A leaked entry would make every redelivery a "duplicate" until
\* the next restart, and the event would be lost without a trace.
NoLeakedClaim ==
    \A i \in Deliveries :
        active[i] # None =>
            \/ \E r \in Requests : /\ active[i] = r
                                   /\ req[r].id = i
                                   /\ req[r].pc \in {"process", "release"}
            \/ /\ active[i] = rec.token
               /\ rec.id = i
               /\ phase \in {"replayClaim", "replayProcess", "replayFail"}

\* When startup lets HTTP in, no delivery of an earlier life is still pending:
\* each was replayed to completion or made retryable.
RecoverySettles ==
    [][phase = "recover" /\ phase' = "serving" =>
         \A i \in Deliveries : row[i].status # "pending"]_vars

=============================================================================
