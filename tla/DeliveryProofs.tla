--------------------------- MODULE DeliveryProofs ---------------------------
(***************************************************************************)
(* Proofs about Delivery, for any sets of deliveries, payloads, requests   *)
(* and replay tokens and any bounds: type correctness, exactly-once        *)
(* application and the safety of a live claim.                             *)
(***************************************************************************)
EXTENDS Delivery, TLAPS

InFlight == {"cleanup", "reset", "claim", "process", "release", "markFailed"}

\* Requests run only while the process serves HTTP, and know their delivery.
Served ==
    \A r \in Requests :
        /\ req[r].pc \in InFlight => phase = "serving"
        /\ req[r].pc # "new" => req[r].id \in Deliveries /\ req[r].payload \in Payloads

\* A replay in progress has a row and a token of its own.
Replaying ==
    phase \in {"replayClaim", "replayProcess", "replayFail"} =>
        rec.id \in Deliveries /\ rec.token \in Replays

\* The owners of failed cleanups have finished: resetting their rows cannot
\* touch a claim that is still in use.
CleanupsFinished ==
    /\ \A i \in Deliveries : cleanup[i] # None => req[cleanup[i]].pc = "done"
    /\ \A r \in Requests : req[r].held # None => req[req[r].held].pc = "done"

ReplayPhases == {"replayClaim", "replayProcess", "replayFail"}

\* What is left of a recovery: a pending row is in the list or is the one being
\* replayed, and the token known for it is the token that owns it.
RecoveryWork ==
    phase \in ReplayPhases \cup {"recover"} =>
        /\ \A p \in rec.todo : row[p.id].status = "pending" /\ row[p.id].token = p.token
        /\ \A i \in Deliveries :
             row[i].status = "pending" =>
                 \/ \E p \in rec.todo : p.id = i
                 \/ phase \in ReplayPhases /\ rec.id = i
        /\ phase \in ReplayPhases =>
             /\ row[rec.id].status = "pending"
             /\ row[rec.id].token = IF rec.acquired THEN rec.token ELSE rec.orig
             /\ \A p \in rec.todo : p.id # rec.id
        /\ phase = "replayProcess" => rec.acquired

\* The inductive invariant.
IInv == /\ TypeOK
        /\ Served
        /\ Replaying
        /\ RecoveryWork
        /\ CleanupsFinished
        /\ ExactlyOnce
        /\ LiveClaimHeld
        /\ NoLeakedClaim

-----------------------------------------------------------------------------
\* The initial state satisfies the inductive invariant.
LEMMA InitIInv == Init => IInv
  BY DeliveryAssumption
  DEF Init, IInv, TypeOK, Served, Replaying, RecoveryWork, ReplayPhases,
      CleanupsFinished, ExactlyOnce, LiveClaimHeld, NoLeakedClaim, Row, Request, Replay, Tokens, Statuses, RequestPcs, Responses, Phases, NoReplay,
      InFlight

\* Dropping a live claim keeps the map well typed.
LEMMA ReleasedType ==
    ASSUME TypeOK, NEW i \in Deliveries, NEW t
    PROVE  Released(i, t) \in [Deliveries -> Tokens \cup {None}]
  BY DEF TypeOK, Released

\* Marking keeps the table well typed.
LEMMA MarkedType ==
    ASSUME TypeOK, NEW i \in Deliveries, NEW t, NEW status \in Statuses
    PROVE  Marked(i, t, status) \in [Deliveries -> Row]
  BY DEF TypeOK, Marked, Row

\* An answer keeps the requests well typed.
LEMMA AnsweredType ==
    ASSUME TypeOK, NEW r \in Requests, NEW what \in Responses
    PROVE  Answered(r, what) \in [Requests -> Request]
  BY DEF TypeOK, Answered, Request, RequestPcs

\* Replacing one request keeps the requests well typed.
LEMMA ReplacedType ==
    ASSUME TypeOK, NEW r \in Requests, NEW e \in Request
    PROVE  [req EXCEPT ![r] = e] \in [Requests -> Request]
  BY DEF TypeOK

\* Every step of a request keeps the variables well typed.
LEMMA RequestTypeOK ==
    ASSUME IInv, NEW r \in Requests, Arrive(r) \/ Handle(r) \/ Interrupt(r)
    PROVE  TypeOK'
<1> USE DeliveryAssumption
<1>t. TypeOK /\ Served
  BY DEF IInv
<1>i. req[r].pc # "new" => req[r].id \in Deliveries
  BY <1>t DEF Served
<1>q. req[r] \in Request
  BY <1>t DEF TypeOK
<1>1. CASE Arrive(r)
  <2>1. req' \in [Requests -> Request]
    <3>1. PICK i \in Deliveries, p \in Payloads :
            req' = [req EXCEPT ![r] =
                      [@ EXCEPT !.pc = "cleanup", !.id = i, !.payload = p]]
      BY <1>1 DEF Arrive
    <3>2. [req[r] EXCEPT !.pc = "cleanup", !.id = i, !.payload = p] \in Request
      BY <1>q DEF Request, RequestPcs
    <3> QED BY <1>t, <3>1, <3>2, ReplacedType
  <2> QED BY <1>t, <1>1, <2>1 DEF TypeOK, Arrive
<1>2. CASE TakeFailedCleanup(r)
  <2>1. req' \in [Requests -> Request]
    <3>1. /\ [req[r] EXCEPT !.pc = "claim"] \in Request
          /\ \A h \in Requests :
               [req[r] EXCEPT !.pc = "reset", !.held = h] \in Request
      BY <1>q DEF Request, RequestPcs
    <3>2. cleanup[req[r].id] \in Requests \cup {None}
      BY <1>t, <1>i, <1>2 DEF TypeOK, TakeFailedCleanup
    <3>3. CASE cleanup[req[r].id] = None
      <4>1. req' = [req EXCEPT ![r] = [req[r] EXCEPT !.pc = "claim"]]
        BY <1>2, <3>3 DEF TakeFailedCleanup
      <4> QED BY <1>t, <3>1, <4>1, ReplacedType
    <3>4. CASE cleanup[req[r].id] # None
      <4> DEFINE h == cleanup[req[r].id]
      <4>1. req' = [req EXCEPT ![r] = [req[r] EXCEPT !.pc = "reset", !.held = h]]
        BY <1>2, <3>4 DEF TakeFailedCleanup
      <4>2. [req[r] EXCEPT !.pc = "reset", !.held = h] \in Request
        BY <3>1, <3>2, <3>4
      <4> QED BY <1>t, <4>1, <4>2, ReplacedType
    <3> QED BY <3>3, <3>4
  <2>2. cleanup' \in [Deliveries -> Requests \cup {None}]
    BY <1>t, <1>2 DEF TypeOK, TakeFailedCleanup
  <2> QED BY <1>t, <1>2, <2>1, <2>2 DEF TypeOK, TakeFailedCleanup
<1>3. CASE ResetFailed(r)
  <2>1. req' \in [Requests -> Request]
    <3>1. /\ [req[r] EXCEPT !.pc = "claim", !.held = None] \in Request
          /\ [req[r] EXCEPT !.pc = "release", !.held = None,
                            !.resp = "error"] \in Request
      BY <1>q DEF Request, RequestPcs, Responses
    <3> QED BY <1>t, <1>3, <3>1, ReplacedType DEF ResetFailed
  <2>2. req[r].held \in Requests \cup {None}
    BY <1>t DEF TypeOK, Request
  <2>3. cleanup' \in [Deliveries -> Requests \cup {None}]
    BY <1>t, <1>3, <2>2 DEF TypeOK, ResetFailed
  <2>4. active' \in [Deliveries -> Tokens \cup {None}]
    BY <1>t, <1>i, <1>3, ReleasedType DEF ResetFailed
  <2>5. row' \in [Deliveries -> Row]
    BY <1>t, <1>i, <1>3, MarkedType DEF TypeOK, ResetFailed, Statuses
  <2>6. faults' \in 0 .. MaxFaults
    BY <1>t, <1>3 DEF TypeOK, ResetFailed, DbFails
  <2> QED BY <1>t, <1>3, <2>1, <2>3, <2>4, <2>5, <2>6 DEF TypeOK, ResetFailed
<1>4. CASE Claim(r)
  <2>1. CASE ClaimGranted(r)
    <3>1. req' \in [Requests -> Request]
      <4>1. [req[r] EXCEPT !.pc = "process", !.claimed = TRUE] \in Request
        BY <1>q DEF Request, RequestPcs
      <4> QED BY <1>t, <2>1, <4>1, ReplacedType DEF ClaimGranted, Granted
    <3>2. req[r].payload \in Payloads \cup {None}
      BY <1>t DEF TypeOK, Request
    <3>3. row' \in [Deliveries -> Row]
      BY <1>t, <1>i, <2>1, <3>2
      DEF TypeOK, ClaimGranted, Granted, Row, Statuses, Tokens
    <3>4. active' \in [Deliveries -> Tokens \cup {None}]
      BY <1>t, <2>1 DEF TypeOK, ClaimGranted, Granted, Tokens
    <3>5. UNCHANGED <<cleanup, phase, rec, used, applied, faults, crashes>>
      BY <1>4, <2>1 DEF Claim, ClaimGranted, Granted
    <3> QED BY <1>t, <3>1, <3>3, <3>4, <3>5 DEF TypeOK
  <2>2. CASE ClaimRefused(r)
    <3>1. req' \in [Requests -> Request]
      BY <1>t, <2>2, AnsweredType DEF ClaimRefused, Responses
    <3>2. faults' \in 0 .. MaxFaults
      BY <1>t, <2>2 DEF TypeOK, ClaimRefused, DbFails
    <3>3. UNCHANGED <<row, active, cleanup, phase, rec, used, applied, crashes>>
      BY <1>4, <2>2 DEF Claim, ClaimRefused
    <3> QED BY <1>t, <3>1, <3>2, <3>3 DEF TypeOK
  <2> QED BY <1>4, <2>1, <2>2 DEF Claim
<1>5. CASE Process(r)
  <2>1. req' \in [Requests -> Request]
    BY <1>t, <1>5, AnsweredType DEF Process, Responses
  <2>2. active' \in [Deliveries -> Tokens \cup {None}]
    BY <1>t, <1>i, <1>5, ReleasedType DEF TypeOK, Process
  <2>3. row' \in [Deliveries -> Row]
    BY <1>t, <1>i, <1>5, MarkedType DEF TypeOK, Process, Statuses
  <2>4. applied' \in [Deliveries -> SUBSET Tokens]
    BY <1>t, <1>5 DEF TypeOK, Process, Tokens
  <2> QED BY <1>t, <1>5, <2>1, <2>2, <2>3, <2>4 DEF TypeOK, Process
<1>6. CASE ProcessFails(r)
  <2>1. req' \in [Requests -> Request]
    BY <1>t, <1>6, AnsweredType DEF ProcessFails, Responses
  <2>2. active' \in [Deliveries -> Tokens \cup {None}]
    BY <1>t, <1>i, <1>6, ReleasedType DEF TypeOK, ProcessFails
  <2>3. faults' \in 0 .. MaxFaults
    BY <1>t, <1>6 DEF TypeOK, ProcessFails, DbFails
  <2> QED BY <1>t, <1>6, <2>1, <2>2, <2>3 DEF TypeOK, ProcessFails
<1>7. CASE Release(r)
  <2>1. req' \in [Requests -> Request]
    BY <1>t, <1>7 DEF TypeOK, Release, Request, RequestPcs
  <2>2. active' \in [Deliveries -> Tokens \cup {None}]
    BY <1>t, <1>i, <1>7, ReleasedType DEF Release
  <2> QED BY <1>t, <1>7, <2>1, <2>2 DEF TypeOK, Release
<1>8. CASE MarkFailed(r)
  <2>1. req' \in [Requests -> Request]
    BY <1>t, <1>8 DEF TypeOK, MarkFailed, Request, RequestPcs
  <2>2. active' \in [Deliveries -> Tokens \cup {None}]
    BY <1>t, <1>i, <1>8, ReleasedType DEF MarkFailed
  <2>3. row' \in [Deliveries -> Row]
    BY <1>t, <1>i, <1>8, MarkedType DEF TypeOK, MarkFailed, Statuses
  <2>4. cleanup' \in [Deliveries -> Requests \cup {None}]
    BY <1>t, <1>8 DEF TypeOK, MarkFailed
  <2>5. faults' \in 0 .. MaxFaults
    BY <1>t, <1>8 DEF TypeOK, MarkFailed, DbFails
  <2> QED BY <1>t, <1>8, <2>1, <2>2, <2>3, <2>4, <2>5 DEF TypeOK, MarkFailed
<1>9. CASE Interrupt(r)
  <2>1. req' \in [Requests -> Request]
    BY <1>t, <1>9, AnsweredType DEF Interrupt, Responses
  <2> QED BY <1>t, <1>9, <2>1 DEF TypeOK, Interrupt
<1> QED
  BY <1>1, <1>2, <1>3, <1>4, <1>5, <1>6, <1>7, <1>8, <1>9 DEF Handle

\* Every step of startup recovery, and a crash, keep the variables well typed.
LEMMA RecoveryTypeOK ==
    ASSUME IInv, Recover \/ Crash
    PROVE  TypeOK'
<1> USE DeliveryAssumption
<1>t. TypeOK /\ Replaying
  BY DEF IInv
<1>r. RetryReplay => phase' \in Phases /\ rec' \in Replay
  BY <1>t DEF TypeOK, RetryReplay, Replay, Phases
<1>1. CASE Boot
  <2>1. rec' \in Replay
    <3>1. NoReplay \in Replay
      BY DEF NoReplay, Replay
    <3>2. \A i \in Deliveries : row[i].token \in Tokens \cup {None}
      BY <1>t DEF TypeOK, Row
    <3>3. {[id |-> i, token |-> row[i].token] :
             i \in {d \in Deliveries : row[d].status = "pending"}}
            \in SUBSET [id : Deliveries, token : Tokens \cup {None}]
      BY <3>2
    <3> QED BY <1>1, <3>1, <3>3 DEF Boot, Replay
  <2> QED BY <1>t, <1>1, <2>1 DEF TypeOK, Boot, Phases
<1>2. CASE NextReplay
  <2>1. PICK t \in Replays : /\ used' = used \cup {t}
                             /\ \E p \in rec.todo :
                                  rec' = [todo |-> rec.todo \ {p}, id |-> p.id,
                                          orig |-> p.token, token |-> t,
                                          tries |-> 1, acquired |-> FALSE]
    BY <1>t, <1>2 DEF TypeOK, NextReplay
  <2>2. rec' \in Replay
    BY <1>t, <2>1 DEF TypeOK, Replay
  <2>3. used' \in SUBSET Replays
    BY <1>t, <2>1 DEF TypeOK
  <2> QED BY <1>t, <1>2, <2>2, <2>3 DEF TypeOK, NextReplay, Phases
<1>3. CASE Serve
  <2>1. rec' \in Replay
    BY <1>3 DEF Serve, Replay, NoReplay
  <2> QED BY <1>t, <1>3, <2>1 DEF TypeOK, Serve, Phases
<1>4. CASE ReplayClaim
  <2>0. rec.id \in Deliveries /\ rec.token \in Tokens
    BY <1>t, <1>4 DEF ReplayClaim, Replaying, Tokens
  <2>1. phase' \in Phases /\ rec' \in Replay
    BY <1>t, <1>r, <1>4 DEF TypeOK, ReplayClaim, Replay, Phases
  <2>2. row' \in [Deliveries -> Row]
    BY <1>t, <1>4, <2>0 DEF TypeOK, ReplayClaim, Row
  <2>3. active' \in [Deliveries -> Tokens \cup {None}]
    BY <1>t, <1>4, <2>0, ReleasedType DEF TypeOK, ReplayClaim
  <2>4. faults' \in 0 .. MaxFaults
    BY <1>t, <1>4 DEF TypeOK, ReplayClaim, DbFails
  <2> QED BY <1>t, <1>4, <2>1, <2>2, <2>3, <2>4 DEF TypeOK, ReplayClaim
<1>5. CASE ReplayProcess
  <2>0. rec.id \in Deliveries /\ rec.token \in Tokens
    BY <1>t, <1>5 DEF ReplayProcess, Replaying, Tokens
  <2>1. phase' \in Phases /\ rec' \in Replay
    BY <1>t, <1>r, <1>5 DEF TypeOK, ReplayProcess, Phases
  <2>2. row' \in [Deliveries -> Row]
    BY <1>t, <1>5, <2>0, MarkedType DEF TypeOK, ReplayProcess, Statuses
  <2>3. active' \in [Deliveries -> Tokens \cup {None}]
    BY <1>t, <1>5, <2>0, ReleasedType DEF TypeOK, ReplayProcess
  <2>4. applied' \in [Deliveries -> SUBSET Tokens]
    BY <1>t, <1>5, <2>0 DEF TypeOK, ReplayProcess
  <2>5. faults' \in 0 .. MaxFaults
    BY <1>t, <1>5 DEF TypeOK, ReplayProcess, DbFails
  <2> QED BY <1>t, <1>5, <2>1, <2>2, <2>3, <2>4, <2>5 DEF TypeOK, ReplayProcess
<1>6. CASE ReplayFail
  <2>0. rec.id \in Deliveries
    BY <1>t, <1>6 DEF ReplayFail, Replaying
  <2>1. phase' \in Phases /\ rec' \in Replay
    <3>1. NoReplay \in Replay
      BY DEF NoReplay, Replay
    <3> QED BY <1>t, <1>6, <3>1 DEF TypeOK, ReplayFail, Phases
  <2>2. row' \in [Deliveries -> Row]
    BY <1>t, <1>6, <2>0, MarkedType DEF TypeOK, ReplayFail, Statuses
  <2>3. active' \in [Deliveries -> Tokens \cup {None}]
    BY <1>t, <1>6, <2>0, ReleasedType DEF ReplayFail
  <2>4. faults' \in 0 .. MaxFaults
    BY <1>t, <1>6 DEF TypeOK, ReplayFail, DbFails
  <2> QED BY <1>t, <1>6, <2>1, <2>2, <2>3, <2>4 DEF TypeOK, ReplayFail
<1>7. CASE Crash
  <2>1. req' \in [Requests -> Request]
    BY <1>t, <1>7 DEF TypeOK, Crash, Request, RequestPcs
  <2>2. rec' \in Replay
    BY <1>7 DEF Crash, Replay, NoReplay
  <2> QED BY <1>t, <1>7, <2>1, <2>2 DEF TypeOK, Crash, Phases
<1> QED BY <1>1, <1>2, <1>3, <1>4, <1>5, <1>6, <1>7 DEF Recover
-----------------------------------------------------------------------------
\* What every step of a request's fiber leaves alone: the other requests, the
\* recovery, and what the request is about.
LEMMA RequestFrame ==
    ASSUME IInv, NEW r \in Requests, Handle(r) \/ Interrupt(r)
    PROVE  /\ req[r].pc \in InFlight
           /\ phase = "serving"
           /\ UNCHANGED <<phase, rec>>
           /\ \A q \in Requests \ {r} : req'[q] = req[q]
           /\ req'[r].pc # "new"
           /\ req'[r].id = req[r].id
           /\ req'[r].payload = req[r].payload
<1>t. TypeOK /\ Served
  BY DEF IInv
<1>q. req[r] \in Request /\ req \in [Requests -> Request]
  BY <1>t DEF TypeOK
<1> USE DEF Request, InFlight
<1>1. CASE TakeFailedCleanup(r)
  BY <1>t, <1>q, <1>1 DEF TakeFailedCleanup, Served
<1>2. CASE ResetFailed(r)
  <2>1. \/ req' = [req EXCEPT ![r] = [req[r] EXCEPT !.pc = "claim", !.held = None]]
        \/ req' = [req EXCEPT ![r] = [req[r] EXCEPT !.pc = "release", !.held = None,
                                                    !.resp = "error"]]
    BY <1>2 DEF ResetFailed
  <2>2. req[r].pc = "reset" /\ UNCHANGED <<phase, rec>>
    BY <1>2 DEF ResetFailed
  <2>3. CASE req' = [req EXCEPT ![r] = [req[r] EXCEPT !.pc = "claim", !.held = None]]
    BY <1>t, <1>q, <2>2, <2>3 DEF Served
  <2>4. CASE req' = [req EXCEPT ![r] = [req[r] EXCEPT !.pc = "release", !.held = None,
                                                     !.resp = "error"]]
    BY <1>t, <1>q, <2>2, <2>4 DEF Served
  <2> QED BY <2>1, <2>3, <2>4
<1>3. CASE Claim(r)
  <2>1. \/ req' = [req EXCEPT ![r] = [req[r] EXCEPT !.pc = "process", !.claimed = TRUE]]
        \/ \E what \in Responses : req' = Answered(r, what)
    BY <1>3 DEF Claim, ClaimGranted, Granted, ClaimRefused, Responses
  <2>2. req[r].pc = "claim" /\ UNCHANGED <<phase, rec>>
    BY <1>3 DEF Claim
  <2>3. CASE req' = [req EXCEPT ![r] = [req[r] EXCEPT !.pc = "process", !.claimed = TRUE]]
    BY <1>t, <1>q, <2>2, <2>3 DEF Served
  <2>4. CASE \E what \in Responses : req' = Answered(r, what)
    BY <1>t, <1>q, <2>2, <2>4 DEF Answered, Served
  <2> QED BY <2>1, <2>3, <2>4
<1>4. CASE Process(r)
  BY <1>t, <1>q, <1>4 DEF Process, Answered, Served
<1>5. CASE ProcessFails(r)
  BY <1>t, <1>q, <1>5 DEF ProcessFails, Answered, Served
<1>6. CASE Release(r)
  BY <1>t, <1>q, <1>6 DEF Release, Served
<1>7. CASE MarkFailed(r)
  BY <1>t, <1>q, <1>7 DEF MarkFailed, Served
<1>8. CASE Interrupt(r)
  BY <1>t, <1>q, <1>8 DEF Interrupt, Answered, Served
<1> QED BY <1>1, <1>2, <1>3, <1>4, <1>5, <1>6, <1>7, <1>8 DEF Handle

\* Hence the conjuncts about the phases survive every step of a request.
LEMMA RequestPhases ==
    ASSUME IInv, NEW r \in Requests, Handle(r) \/ Interrupt(r)
    PROVE  Served' /\ Replaying' /\ RecoveryWork'
<1>1. Served /\ TypeOK
  BY DEF IInv
<1>2. Served'
  BY <1>1, RequestFrame DEF Served, InFlight
<1>3. Replaying' /\ RecoveryWork'
  BY <1>1, RequestFrame DEF Replaying, RecoveryWork, ReplayPhases
<1> QED BY <1>2, <1>3

\* What Released does to each entry.
LEMMA ReleasedEntry ==
    ASSUME TypeOK, NEW i \in Deliveries, NEW t, NEW j \in Deliveries
    PROVE  Released(i, t)[j] = IF j = i /\ active[i] = t THEN None ELSE active[j]
  BY DEF TypeOK, Released

\* What Marked does to each row.
LEMMA MarkedRow ==
    ASSUME TypeOK, NEW i \in Deliveries, NEW t, NEW status, NEW j \in Deliveries
    PROVE  /\ j # i => Marked(i, t, status)[j] = row[j]
           /\ ~Owns(i, t) => Marked(i, t, status)[j] = row[j]
           /\ Owns(i, t) => Marked(i, t, status)[i].status = status
           /\ Marked(i, t, status)[j].token = row[j].token
           /\ Marked(i, t, status)[j].payload = row[j].payload
  BY DEF TypeOK, Marked, Row, Owns

\* A step of r that does not touch the failed cleanups keeps their owners done.
LEMMA CleanupsKept ==
    ASSUME IInv, NEW r \in Requests, Handle(r) \/ Interrupt(r),
           UNCHANGED cleanup, req'[r].held = req[r].held
    PROVE  CleanupsFinished'
<1>t. TypeOK /\ CleanupsFinished
  BY DEF IInv
<1>1. \A q \in Requests : req[q].pc = "done" => req'[q].pc = "done"
  BY RequestFrame DEF InFlight
<1>2. \A q \in Requests : req[q].held \in Requests \cup {None} /\ req'[q].held = req[q].held
  BY <1>t, RequestFrame DEF TypeOK, Request
<1>3. \A j \in Deliveries : cleanup[j] \in Requests \cup {None}
  BY <1>t DEF TypeOK
<1> QED BY <1>t, <1>1, <1>2, <1>3 DEF CleanupsFinished

\* A claim in use survives a step of r that leaves the row and the live claim
\* of every other processing request alone.
LEMMA LiveClaimsKept ==
    ASSUME IInv, NEW r \in Requests, Handle(r) \/ Interrupt(r),
           req'[r].pc # "process",
           \A q \in Requests \ {r} :
               req[q].pc = "process" =>
                   /\ row'[req[q].id] = row[req[q].id]
                   /\ active'[req[q].id] = active[req[q].id]
    PROVE  LiveClaimHeld'
<1>t. LiveClaimHeld
  BY DEF IInv
<1> SUFFICES ASSUME NEW q \in Requests, req'[q].pc = "process"
             PROVE  /\ row'[req'[q].id].status = "pending"
                    /\ row'[req'[q].id].token = q
                    /\ active'[req'[q].id] = q
  BY DEF LiveClaimHeld, Owns
<1>1. q # r /\ req'[q] = req[q]
  BY RequestFrame
<1> QED BY <1>t, <1>1 DEF LiveClaimHeld, Owns

\* No other request that is processing holds r's claim.
LEMMA OthersHoldOther ==
    ASSUME IInv, NEW r \in Requests, NEW q \in Requests \ {r}, req[q].pc = "process"
    PROVE  /\ req[q].id \in Deliveries
           /\ row[req[q].id].token # r
           /\ active[req[q].id] # r
  BY DEF IInv, Served, LiveClaimHeld, Owns

\* Every request's step preserves the invariant.  Each conjunct has its own
\* reason; together they say that a fiber only ever removes or fails its own
\* claim, or the claim of a fiber that has finished.
LEMMA TakeFailedCleanupIInv ==
    ASSUME IInv, NEW r \in Requests, TakeFailedCleanup(r)
    PROVE  IInv'
<1>t. TypeOK /\ Served /\ CleanupsFinished /\ ExactlyOnce /\ LiveClaimHeld /\ NoLeakedClaim
  BY DEF IInv
<1>h. Handle(r)
  BY DEF Handle
<1>q. req \in [Requests -> Request] /\ req[r] \in Request
  BY <1>t DEF TypeOK
<1> DEFINE i == req[r].id
<1>i. i \in Deliveries /\ cleanup[i] \in Requests \cup {None}
  BY <1>t DEF TakeFailedCleanup, Served, TypeOK
<1>e. IF cleanup[i] = None
        THEN /\ req'[r] = [req[r] EXCEPT !.pc = "claim"]
             /\ UNCHANGED cleanup
        ELSE /\ req'[r] = [req[r] EXCEPT !.pc = "reset", !.held = cleanup[i]]
             /\ cleanup' = [cleanup EXCEPT ![i] = None]
  BY <1>q DEF TakeFailedCleanup
<1>f. /\ \A q \in Requests \ {r} : req'[q] = req[q]
      /\ req[r].pc = "cleanup"
      /\ UNCHANGED <<row, active, phase, rec, applied>>
  BY <1>h, RequestFrame DEF TakeFailedCleanup
<1>g. /\ req'[r].pc \in {"claim", "reset"}
      /\ req'[r].held \in {req[r].held, cleanup[i]}
  BY <1>q, <1>e DEF Request
<1>c. \A j \in Deliveries : cleanup'[j] \in {None, cleanup[j]}
  BY <1>t, <1>e DEF TypeOK
<1>1. CleanupsFinished'
  <2>1. \A q \in Requests : req[q].pc = "done" => req'[q].pc = "done"
    BY <1>f
  <2>2. \A j \in Deliveries : cleanup[j] \in Requests \cup {None}
    BY <1>t DEF TypeOK
  <2>3. \A j \in Deliveries : cleanup'[j] # None => req'[cleanup'[j]].pc = "done"
    BY <1>t, <1>c, <2>1, <2>2 DEF CleanupsFinished
  <2>4. \A q \in Requests : req[q].held \in Requests \cup {None}
    BY <1>t DEF TypeOK, Request
  <2>5. ASSUME NEW q \in Requests, req'[q].held # None
        PROVE  req'[req'[q].held].pc = "done"
    BY <1>t, <1>f, <1>g, <1>i, <2>1, <2>4, <2>5 DEF CleanupsFinished
  <2> QED BY <2>3, <2>5 DEF CleanupsFinished
<1>2. ExactlyOnce'
  BY <1>t, <1>f DEF ExactlyOnce
<1>3. LiveClaimHeld'
  BY <1>t, <1>f, <1>g DEF LiveClaimHeld, Owns
<1>4. NoLeakedClaim'
  BY <1>t, <1>f DEF NoLeakedClaim
<1> QED BY <1>h, <1>1, <1>2, <1>3, <1>4, RequestTypeOK, RequestPhases DEF IInv

LEMMA ResetFailedIInv ==
    ASSUME IInv, NEW r \in Requests, ResetFailed(r)
    PROVE  IInv'
<1>t. TypeOK /\ Served /\ CleanupsFinished /\ ExactlyOnce /\ LiveClaimHeld /\ NoLeakedClaim
  BY DEF IInv
<1>h. Handle(r)
  BY DEF Handle
<1> DEFINE i == req[r].id
           h == req[r].held
<1>q. req \in [Requests -> Request] /\ req[r] \in Request
  BY <1>t DEF TypeOK
<1>e. \/ req'[r] = [req[r] EXCEPT !.pc = "claim", !.held = None]
      \/ req'[r] = [req[r] EXCEPT !.pc = "release", !.held = None, !.resp = "error"]
  BY <1>q DEF ResetFailed
<1>g. req'[r].pc \in {"claim", "release"} /\ req'[r].held = None
  <2>1. CASE req'[r] = [req[r] EXCEPT !.pc = "claim", !.held = None]
    BY <1>q, <2>1 DEF Request
  <2>2. CASE req'[r] = [req[r] EXCEPT !.pc = "release", !.held = None, !.resp = "error"]
    BY <1>q, <2>2 DEF Request
  <2> QED BY <1>e, <2>1, <2>2
<1>c. \A j \in Deliveries : cleanup'[j] \in {cleanup[j], h}
  BY <1>t DEF ResetFailed, TypeOK
<1>f. /\ \A q \in Requests \ {r} : req'[q] = req[q]
      /\ req[r].pc = "reset"
      /\ UNCHANGED <<phase, rec, applied>>
  BY <1>h, RequestFrame DEF ResetFailed
<1>i. i \in Deliveries /\ h \in Requests \cup {None} /\ None \notin Requests
  BY <1>t, <1>f, DeliveryAssumption DEF Served, TypeOK, Request, Tokens
<1>d. \A q \in Requests : req[q].pc = "process" => h # q
  BY <1>t, <1>i DEF CleanupsFinished
<1>a. active' = Released(i, h) /\ row' \in {row, Marked(i, h, "failed")}
  BY DEF ResetFailed
<1>1. CleanupsFinished'
  <2>1. \A q \in Requests : req[q].pc = "done" => req'[q].pc = "done"
    BY <1>f
  <2>2. \A j \in Deliveries : cleanup[j] \in Requests \cup {None}
    BY <1>t DEF TypeOK
  <2>3. h # None => req'[h].pc = "done"
    BY <1>t, <1>i, <2>1 DEF CleanupsFinished
  <2>4. \A j \in Deliveries : cleanup'[j] # None => req'[cleanup'[j]].pc = "done"
    BY <1>t, <1>c, <2>1, <2>2, <2>3 DEF CleanupsFinished
  <2>5. \A q \in Requests : req[q].held \in Requests \cup {None}
    BY <1>t DEF TypeOK, Request
  <2>6. ASSUME NEW q \in Requests, req'[q].held # None
        PROVE  req'[req'[q].held].pc = "done"
    BY <1>t, <1>f, <1>g, <2>1, <2>5, <2>6 DEF CleanupsFinished
  <2> QED BY <2>4, <2>6 DEF CleanupsFinished
<1>2. ExactlyOnce'
  <2>1. \A j \in Deliveries : row'[j].status = "processed" <=> row[j].status = "processed"
    BY <1>t, <1>a, <1>i, MarkedRow DEF Owns
  <2> QED BY <1>t, <1>f, <2>1 DEF ExactlyOnce
<1>3. LiveClaimHeld'
  <2>1. ASSUME NEW q \in Requests \ {r}, req[q].pc = "process"
        PROVE  /\ row'[req[q].id] = row[req[q].id]
               /\ active'[req[q].id] = active[req[q].id]
    <3>1. h # q
      BY <1>d, <2>1
    <3>2. req[q].id \in Deliveries /\ Owns(req[q].id, q) /\ active[req[q].id] = q
      BY <1>t, <2>1 DEF LiveClaimHeld, Served
    <3>3. row'[req[q].id] = row[req[q].id]
      BY <1>t, <1>a, <1>i, <3>1, <3>2, MarkedRow DEF Owns
    <3>4. active'[req[q].id] = q
      BY <1>t, <1>a, <1>i, <3>1, <3>2, ReleasedEntry
    <3> QED BY <3>2, <3>3, <3>4
  <2> QED BY <1>h, <1>g, <2>1, LiveClaimsKept
<1>4. NoLeakedClaim'
  BY <1>t, <1>f, <1>a, <1>i, ReleasedEntry DEF NoLeakedClaim
<1> QED BY <1>h, <1>1, <1>2, <1>3, <1>4, RequestTypeOK, RequestPhases DEF IInv

\* A granted claim takes over nothing that a live fiber holds.
LEMMA ClaimIInv ==
    ASSUME IInv, NEW r \in Requests, Claim(r)
    PROVE  IInv'
<1>t. TypeOK /\ Served /\ ExactlyOnce /\ LiveClaimHeld /\ NoLeakedClaim
  BY DEF IInv
<1>h. Handle(r)
  BY DEF Handle
<1>q. req \in [Requests -> Request] /\ req[r] \in Request
  BY <1>t DEF TypeOK
<1>p. req[r].pc = "claim" /\ UNCHANGED <<cleanup, phase, rec, applied>>
  BY DEF Claim
<1> DEFINE i == req[r].id
<1>i. i \in Deliveries /\ r # None
  BY <1>t, <1>p, DeliveryAssumption DEF Served, Tokens
<1>f. \A q \in Requests \ {r} : req'[q] = req[q]
  BY <1>h, RequestFrame
<1>1. CASE ClaimGranted(r)
  <2>g. Granted(r) /\ (row[i].status = "absent" \/ ~TakenBy(i))
    BY <1>1 DEF ClaimGranted
  <2>e. req'[r] = [req[r] EXCEPT !.pc = "process", !.claimed = TRUE]
    BY <1>q, <2>g DEF Granted
  <2>r. /\ req'[r].pc = "process"
        /\ req'[r].held = req[r].held
        /\ req'[r].id = i
    BY <1>q, <2>e DEF Request
  <2>w. /\ row'[i].status = "pending"
        /\ row'[i].token = r
        /\ active'[i] = r
        /\ \A j \in Deliveries \ {i} : row'[j] = row[j] /\ active'[j] = active[j]
    BY <1>t, <1>i, <2>g DEF Granted, TypeOK
  <2>1. CleanupsFinished'
    BY <1>h, <1>p, <2>r, CleanupsKept
  <2>2. ExactlyOnce'
    <3>1. row[i].status # "processed"
      BY <2>g DEF TakenBy
    <3> QED BY <1>t, <1>p, <1>i, <2>w, <3>1 DEF ExactlyOnce
  <2>3. LiveClaimHeld'
    <3> SUFFICES ASSUME NEW q \in Requests, req'[q].pc = "process"
                 PROVE  /\ row'[req'[q].id].status = "pending"
                        /\ row'[req'[q].id].token = q
                        /\ active'[req'[q].id] = q
      BY DEF LiveClaimHeld, Owns
    <3>1. CASE q = r
      BY <2>r, <2>w, <3>1
    <3>2. CASE q # r
      <4>1. /\ req'[q] = req[q]
            /\ req[q].id \in Deliveries
            /\ row[req[q].id].status = "pending"
            /\ row[req[q].id].token = q
            /\ active[req[q].id] = q
        BY <1>t, <1>f, <3>2 DEF LiveClaimHeld, Owns, Served
      <4>2. req[q].id # i
        BY <2>g, <4>1, DeliveryAssumption DEF TakenBy, Tokens
      <4> QED BY <2>w, <4>1, <4>2
    <3> QED BY <3>1, <3>2
  <2>4. NoLeakedClaim'
    BY <1>t, <1>f, <1>p, <2>r, <2>w DEF NoLeakedClaim
  <2> QED BY <1>h, <2>1, <2>2, <2>3, <2>4, RequestTypeOK, RequestPhases DEF IInv
<1>2. CASE ClaimRefused(r)
  <2>e. UNCHANGED <<row, active>> /\ \E what \in Responses : req' = Answered(r, what)
    BY <1>2 DEF ClaimRefused, Responses
  <2>r. req'[r].pc = "release" /\ req'[r].held = req[r].held
    BY <1>q, <2>e DEF Answered, Request
  <2>1. CleanupsFinished'
    BY <1>h, <1>p, <2>r, CleanupsKept
  <2>2. ExactlyOnce'
    BY <1>t, <1>p, <2>e DEF ExactlyOnce
  <2>3. LiveClaimHeld'
    BY <1>h, <2>e, <2>r, LiveClaimsKept
  <2>4. NoLeakedClaim'
    BY <1>t, <1>f, <1>p, <2>e DEF NoLeakedClaim
  <2> QED BY <1>h, <2>1, <2>2, <2>3, <2>4, RequestTypeOK, RequestPhases DEF IInv
<1> QED BY <1>1, <1>2 DEF Claim

\* Effects are applied to a row that is pending, hence not applied before.
LEMMA ProcessIInv ==
    ASSUME IInv, NEW r \in Requests, Process(r)
    PROVE  IInv'
<1>t. TypeOK /\ Served /\ ExactlyOnce /\ LiveClaimHeld /\ NoLeakedClaim
  BY DEF IInv
<1>h. Handle(r)
  BY DEF Handle
<1>q. req \in [Requests -> Request] /\ req[r] \in Request
  BY <1>t DEF TypeOK
<1> DEFINE i == req[r].id
<1>p. /\ req[r].pc = "process"
      /\ UNCHANGED <<cleanup, phase, rec>>
      /\ Owns(i, r)
  BY <1>t DEF Process, LiveClaimHeld
<1>i. i \in Deliveries
  BY <1>t, <1>p DEF Served
<1>w. /\ req' = Answered(r, "ok")
      /\ row' = Marked(i, r, "processed")
      /\ active' = Released(i, r)
      /\ applied' = [applied EXCEPT ![i] = @ \cup {r}]
  BY <1>p DEF Process
<1>r. req'[r].pc = "release" /\ req'[r].held = req[r].held /\ req'[r].id = i
  BY <1>q, <1>w DEF Answered, Request
<1>f. \A q \in Requests \ {r} : req'[q] = req[q]
  BY <1>h, RequestFrame
<1>1. CleanupsFinished'
  BY <1>h, <1>p, <1>r, CleanupsKept
<1>2. ExactlyOnce'
  <2>1. applied[i] = {}
    BY <1>t, <1>i, <1>p DEF ExactlyOnce, Owns
  <2>2. applied'[i] = {r} /\ \A j \in Deliveries \ {i} : applied'[j] = applied[j]
    BY <1>t, <1>i, <1>w, <2>1 DEF TypeOK
  <2>3. row'[i].status = "processed" /\ \A j \in Deliveries \ {i} : row'[j] = row[j]
    BY <1>t, <1>i, <1>p, <1>w, MarkedRow
  <2> QED BY <1>t, <2>2, <2>3 DEF ExactlyOnce
<1>3. LiveClaimHeld'
  <2>1. ASSUME NEW q \in Requests \ {r}, req[q].pc = "process"
        PROVE  /\ row'[req[q].id] = row[req[q].id]
               /\ active'[req[q].id] = active[req[q].id]
    BY <1>t, <1>i, <1>w, <2>1, OthersHoldOther, MarkedRow, ReleasedEntry DEF Owns
  <2> QED BY <1>h, <1>r, <2>1, LiveClaimsKept
<1>4. NoLeakedClaim'
  BY <1>t, <1>f, <1>i, <1>w, <1>r, <1>p, ReleasedEntry DEF NoLeakedClaim
<1> QED BY <1>h, <1>1, <1>2, <1>3, <1>4, RequestTypeOK, RequestPhases DEF IInv

LEMMA ProcessFailsIInv ==
    ASSUME IInv, NEW r \in Requests, ProcessFails(r) \/ Interrupt(r)
    PROVE  IInv'
<1>t. TypeOK /\ Served /\ ExactlyOnce /\ LiveClaimHeld /\ NoLeakedClaim
  BY DEF IInv
<1>h. Handle(r) \/ Interrupt(r)
  BY DEF Handle
<1>q. req \in [Requests -> Request] /\ req[r] \in Request
  BY <1>t DEF TypeOK
<1> DEFINE i == req[r].id
<1>p. /\ req[r].pc \in {"cleanup", "claim", "process"}
      /\ UNCHANGED <<row, cleanup, phase, rec, applied>>
      /\ req' = Answered(r, "error")
      /\ active' \in {active, Released(i, r)}
  BY DEF ProcessFails, Interrupt
<1>i. i \in Deliveries
  BY <1>t, <1>p DEF Served
<1>r. req'[r].pc = "release" /\ req'[r].held = req[r].held /\ req'[r].id = i
  BY <1>q, <1>p DEF Answered, Request
<1>f. \A q \in Requests \ {r} : req'[q] = req[q]
  BY <1>h, RequestFrame
<1>1. CleanupsFinished'
  BY <1>h, <1>p, <1>r, CleanupsKept
<1>2. ExactlyOnce'
  BY <1>t, <1>p DEF ExactlyOnce
<1>3. LiveClaimHeld'
  <2>1. ASSUME NEW q \in Requests \ {r}, req[q].pc = "process"
        PROVE  /\ row'[req[q].id] = row[req[q].id]
               /\ active'[req[q].id] = active[req[q].id]
    BY <1>t, <1>i, <1>p, <2>1, OthersHoldOther, ReleasedEntry
  <2> QED BY <1>h, <1>r, <2>1, LiveClaimsKept
<1>4. NoLeakedClaim'
  BY <1>t, <1>f, <1>i, <1>p, <1>r, ReleasedEntry DEF NoLeakedClaim
<1> QED BY <1>h, <1>1, <1>2, <1>3, <1>4, RequestTypeOK, RequestPhases DEF IInv

LEMMA ReleaseIInv ==
    ASSUME IInv, NEW r \in Requests, Release(r)
    PROVE  IInv'
<1>t. TypeOK /\ Served /\ ExactlyOnce /\ LiveClaimHeld /\ NoLeakedClaim
  BY DEF IInv
<1>h. Handle(r)
  BY DEF Handle
<1>q. req \in [Requests -> Request] /\ req[r] \in Request
  BY <1>t DEF TypeOK
<1> DEFINE i == req[r].id
<1>p. /\ req[r].pc = "release"
      /\ UNCHANGED <<row, cleanup, phase, rec, applied>>
      /\ active' = Released(i, r)
  BY DEF Release
<1>i. i \in Deliveries /\ r # None
  BY <1>t, <1>p, DeliveryAssumption DEF Served, Tokens
<1>r. req'[r].pc \in {"markFailed", "done"} /\ req'[r].held = req[r].held
  <2>1. \E x \in {"markFailed", "done"} : req' = [req EXCEPT ![r].pc = x]
    BY DEF Release
  <2> QED BY <1>q, <2>1 DEF Request
<1>f. \A q \in Requests \ {r} : req'[q] = req[q]
  BY <1>h, RequestFrame
<1>1. CleanupsFinished'
  BY <1>h, <1>p, <1>r, CleanupsKept
<1>2. ExactlyOnce'
  BY <1>t, <1>p DEF ExactlyOnce
<1>3. LiveClaimHeld'
  <2>1. ASSUME NEW q \in Requests \ {r}, req[q].pc = "process"
        PROVE  /\ row'[req[q].id] = row[req[q].id]
               /\ active'[req[q].id] = active[req[q].id]
    BY <1>t, <1>i, <1>p, <2>1, OthersHoldOther, ReleasedEntry
  <2> QED BY <1>h, <1>r, <2>1, LiveClaimsKept
<1>4. NoLeakedClaim'
  BY <1>t, <1>f, <1>i, <1>p, <1>r, ReleasedEntry DEF NoLeakedClaim
<1> QED BY <1>h, <1>1, <1>2, <1>3, <1>4, RequestTypeOK, RequestPhases DEF IInv

LEMMA MarkFailedIInv ==
    ASSUME IInv, NEW r \in Requests, MarkFailed(r)
    PROVE  IInv'
<1>t. TypeOK /\ Served /\ CleanupsFinished /\ ExactlyOnce /\ LiveClaimHeld /\ NoLeakedClaim
  BY DEF IInv
<1>h. Handle(r)
  BY DEF Handle
<1>q. req \in [Requests -> Request] /\ req[r] \in Request
  BY <1>t DEF TypeOK
<1> DEFINE i == req[r].id
<1>p. /\ req[r].pc = "markFailed"
      /\ UNCHANGED <<phase, rec, applied>>
      /\ active' = Released(i, r)
      /\ row' \in {row, Marked(i, r, "failed")}
      /\ req' = [req EXCEPT ![r].pc = "done"]
  BY DEF MarkFailed
<1>i. i \in Deliveries /\ r # None
  BY <1>t, <1>p, DeliveryAssumption DEF Served, Tokens
<1>r. req'[r].pc = "done" /\ req'[r].held = req[r].held
  BY <1>q, <1>p DEF Request
<1>f. \A q \in Requests \ {r} : req'[q] = req[q]
  BY <1>h, RequestFrame
<1>1. CleanupsFinished'
  <2>1. \A q \in Requests : req[q].pc = "done" => req'[q].pc = "done"
    BY <1>f, <1>r
  <2>2. \A j \in Deliveries : cleanup[j] \in Requests \cup {None}
    BY <1>t DEF TypeOK
  <2>3. \A j \in Deliveries : cleanup'[j] \in {cleanup[j], r, None}
    BY <1>t DEF MarkFailed, TypeOK
  <2>4. \A j \in Deliveries : cleanup'[j] # None => req'[cleanup'[j]].pc = "done"
    BY <1>t, <1>r, <2>1, <2>2, <2>3 DEF CleanupsFinished
  <2>5. \A q \in Requests : req[q].held \in Requests \cup {None} /\ req'[q].held = req[q].held
    BY <1>t, <1>f, <1>r DEF TypeOK, Request
  <2> QED BY <1>t, <2>1, <2>4, <2>5 DEF CleanupsFinished
<1>2. ExactlyOnce'
  <2>1. \A j \in Deliveries : row'[j].status = "processed" <=> row[j].status = "processed"
    BY <1>t, <1>p, <1>i, MarkedRow DEF Owns
  <2> QED BY <1>t, <1>p, <2>1 DEF ExactlyOnce
<1>3. LiveClaimHeld'
  <2>1. ASSUME NEW q \in Requests \ {r}, req[q].pc = "process"
        PROVE  /\ row'[req[q].id] = row[req[q].id]
               /\ active'[req[q].id] = active[req[q].id]
    BY <1>t, <1>i, <1>p, <2>1, OthersHoldOther, MarkedRow, ReleasedEntry DEF Owns
  <2> QED BY <1>h, <1>r, <2>1, LiveClaimsKept
<1>4. NoLeakedClaim'
  BY <1>t, <1>f, <1>i, <1>p, <1>r, ReleasedEntry DEF NoLeakedClaim
<1> QED BY <1>h, <1>1, <1>2, <1>3, <1>4, RequestTypeOK, RequestPhases DEF IInv

LEMMA ArriveIInv ==
    ASSUME IInv, NEW r \in Requests, Arrive(r)
    PROVE  IInv'
<1>t. /\ TypeOK /\ Served /\ Replaying /\ RecoveryWork /\ CleanupsFinished
      /\ ExactlyOnce /\ LiveClaimHeld /\ NoLeakedClaim
  BY DEF IInv
<1>q. req \in [Requests -> Request] /\ req[r] \in Request
  BY <1>t DEF TypeOK
<1>p. /\ phase = "serving"
      /\ req[r].pc = "new"
      /\ UNCHANGED <<row, active, cleanup, phase, rec, applied>>
  BY DEF Arrive
<1>e. PICK i \in Deliveries, p \in Payloads :
        req' = [req EXCEPT ![r] = [@ EXCEPT !.pc = "cleanup", !.id = i, !.payload = p]]
  BY DEF Arrive
<1>f. \A q \in Requests \ {r} : req'[q] = req[q]
  BY <1>q, <1>e
<1>r. /\ req'[r].pc = "cleanup" /\ req'[r].held = req[r].held
      /\ req'[r].id = i /\ req'[r].payload = p
  BY <1>q, <1>e DEF Request
<1>1. Served'
  BY <1>t, <1>p, <1>f, <1>r DEF Served
<1>2. Replaying' /\ RecoveryWork'
  BY <1>p DEF Replaying, RecoveryWork, ReplayPhases
<1>3. CleanupsFinished'
  <2>1. \A q \in Requests : req[q].pc = "done" => req'[q].pc = "done"
    BY <1>f, <1>p
  <2>2. \A q \in Requests : req[q].held \in Requests \cup {None} /\ req'[q].held = req[q].held
    BY <1>t, <1>f, <1>r DEF TypeOK, Request
  <2>3. \A j \in Deliveries : cleanup[j] \in Requests \cup {None}
    BY <1>t DEF TypeOK
  <2> QED BY <1>t, <1>p, <2>1, <2>2, <2>3 DEF CleanupsFinished
<1>4. ExactlyOnce'
  BY <1>t, <1>p DEF ExactlyOnce
<1>5. LiveClaimHeld'
  BY <1>t, <1>p, <1>f, <1>r DEF LiveClaimHeld, Owns
<1>6. NoLeakedClaim'
  BY <1>t, <1>p, <1>f, <1>r DEF NoLeakedClaim
<1> QED BY <1>1, <1>2, <1>3, <1>4, <1>5, <1>6, RequestTypeOK DEF IInv

-----------------------------------------------------------------------------
\* Startup recovery runs before HTTP is served: no request is in flight, so the
\* conjuncts about requests survive it.
LEMMA RecoverAlone ==
    ASSUME IInv, Recover
    PROVE  /\ \A r \in Requests : req[r].pc \notin InFlight
           /\ UNCHANGED <<req, cleanup>>
           /\ Served' /\ CleanupsFinished' /\ LiveClaimHeld'
<1>t. Served /\ CleanupsFinished /\ LiveClaimHeld
  BY DEF IInv
<1>1. phase # "serving" /\ UNCHANGED <<req, cleanup>>
  BY DEF Recover, Boot, NextReplay, Serve, ReplayClaim, ReplayProcess, ReplayFail
<1>2. \A r \in Requests : req[r].pc \notin InFlight
  BY <1>t, <1>1 DEF Served
<1> QED BY <1>t, <1>1, <1>2 DEF Served, CleanupsFinished, LiveClaimHeld, InFlight

\* With no request in flight, the only live claim is the replay's.
LEMMA OnlyReplayHolds ==
    ASSUME IInv, Recover, NEW j \in Deliveries, active[j] # None
    PROVE  phase \in ReplayPhases /\ rec.id = j /\ active[j] = rec.token
  BY RecoverAlone DEF IInv, NoLeakedClaim, ReplayPhases, InFlight

LEMMA BootIInv ==
    ASSUME IInv, Boot
    PROVE  IInv'
<1>t. TypeOK /\ ExactlyOnce /\ NoLeakedClaim
  BY DEF IInv
<1>r. Recover
  BY DEF Recover
<1>p. /\ phase = "down" /\ phase' = "recover"
      /\ UNCHANGED <<row, active, req, applied>>
      /\ rec'.todo = {[id |-> i, token |-> row[i].token] :
                        i \in {d \in Deliveries : row[d].status = "pending"}}
  BY DEF Boot, NoReplay
<1>1. Replaying' /\ RecoveryWork'
  <2>1. \A x \in rec'.todo : row[x.id].status = "pending" /\ row[x.id].token = x.token
    BY <1>p
  <2>2. ASSUME NEW i \in Deliveries, row[i].status = "pending"
        PROVE  \E x \in rec'.todo : x.id = i
    <3>1. [id |-> i, token |-> row[i].token] \in rec'.todo
      BY <1>p, <2>2
    <3> QED BY <3>1
  <2> QED BY <1>p, <2>1, <2>2 DEF Replaying, RecoveryWork, ReplayPhases
<1>2. ExactlyOnce'
  BY <1>t, <1>p DEF ExactlyOnce
<1>3. NoLeakedClaim'
  BY <1>r, <1>p, OnlyReplayHolds DEF NoLeakedClaim, ReplayPhases
<1> QED BY <1>r, <1>1, <1>2, <1>3, RecoverAlone, RecoveryTypeOK DEF IInv

LEMMA NextReplayIInv ==
    ASSUME IInv, NextReplay
    PROVE  IInv'
<1>t. TypeOK /\ RecoveryWork /\ ExactlyOnce /\ NoLeakedClaim
  BY DEF IInv
<1>r. Recover
  BY DEF Recover
<1>p. /\ phase = "recover" /\ phase' = "replayClaim"
      /\ UNCHANGED <<row, active, req, applied>>
  BY DEF NextReplay
<1>e. PICK t \in Replays, p \in rec.todo :
        rec' = [todo |-> rec.todo \ {p}, id |-> p.id, orig |-> p.token,
                token |-> t, tries |-> 1, acquired |-> FALSE]
  BY <1>t DEF NextReplay, TypeOK
<1>i. \A x \in rec.todo : x \in [id : Deliveries, token : Tokens \cup {None}]
  BY <1>t DEF TypeOK, Replay
<1>1. Replaying'
  BY <1>e, <1>i DEF Replaying
<1>2. RecoveryWork'
  <2>1. \A x \in rec'.todo : /\ x \in rec.todo
                             /\ row'[x.id].status = "pending"
                             /\ row'[x.id].token = x.token
    BY <1>t, <1>p, <1>e DEF RecoveryWork
  <2>2. \A i \in Deliveries :
           row'[i].status = "pending" => (\E x \in rec'.todo : x.id = i) \/ rec'.id = i
    BY <1>t, <1>p, <1>e DEF RecoveryWork, ReplayPhases
  <2>3. row'[rec'.id].status = "pending" /\ row'[rec'.id].token = rec'.orig
    BY <1>t, <1>p, <1>e DEF RecoveryWork
  <2>4. \A x \in rec'.todo : x.id # rec'.id
    <3>1. \A x \in rec.todo : x.id = p.id => x.token = p.token
      BY <1>t, <1>p DEF RecoveryWork
    <3>2. \A x \in rec.todo : x.id = p.id => x = p
      BY <1>i, <3>1
    <3> QED BY <1>e, <3>2
  <2> QED BY <1>p, <1>e, <2>1, <2>2, <2>3, <2>4 DEF RecoveryWork, ReplayPhases
<1>3. ExactlyOnce'
  BY <1>t, <1>p DEF ExactlyOnce
<1>4. NoLeakedClaim'
  BY <1>r, <1>p, OnlyReplayHolds DEF NoLeakedClaim, ReplayPhases
<1> QED BY <1>r, <1>1, <1>2, <1>3, <1>4, RecoverAlone, RecoveryTypeOK DEF IInv

LEMMA ServeIInv ==
    ASSUME IInv, Serve
    PROVE  IInv'
<1>t. TypeOK /\ ExactlyOnce
  BY DEF IInv
<1>r. Recover
  BY DEF Recover
<1>p. /\ phase = "recover" /\ phase' = "serving"
      /\ UNCHANGED <<row, active, req, applied>>
  BY DEF Serve
<1>1. Replaying' /\ RecoveryWork'
  BY <1>p DEF Replaying, RecoveryWork, ReplayPhases
<1>2. ExactlyOnce'
  BY <1>t, <1>p DEF ExactlyOnce
<1>3. NoLeakedClaim'
  BY <1>r, <1>p, OnlyReplayHolds DEF NoLeakedClaim, ReplayPhases
<1> QED BY <1>r, <1>1, <1>2, <1>3, RecoverAlone, RecoveryTypeOK DEF IInv

LEMMA ReplayClaimIInv ==
    ASSUME IInv, ReplayClaim
    PROVE  IInv'
<1>t. TypeOK /\ Replaying /\ RecoveryWork /\ ExactlyOnce /\ NoLeakedClaim
  BY DEF IInv
<1>r. Recover
  BY DEF Recover
<1>p. /\ phase = "replayClaim"
      /\ rec.id \in Deliveries
      /\ rec.token # None
      /\ row[rec.id].status = "pending"
      /\ rec \in Replay
      /\ UNCHANGED <<req, applied>>
  BY <1>t, DeliveryAssumption
  DEF ReplayClaim, Replaying, RecoveryWork, ReplayPhases, TypeOK, Tokens
<1>1. CASE /\ row' = [row EXCEPT ![rec.id].token = rec.token]
           /\ active' = [active EXCEPT ![rec.id] = rec.token]
           /\ rec' = [rec EXCEPT !.acquired = TRUE]
           /\ phase' = "replayProcess"
  <2>1. /\ rec'.id = rec.id /\ rec'.token = rec.token
        /\ rec'.todo = rec.todo /\ rec'.acquired
    BY <1>p, <1>1 DEF Replay
  <2>2. /\ row'[rec.id].token = rec.token
        /\ \A j \in Deliveries : row'[j].status = row[j].status
        /\ \A j \in Deliveries \ {rec.id} : row'[j] = row[j]
    BY <1>t, <1>p, <1>1 DEF TypeOK, Row
  <2>i. \A x \in rec.todo : x.id \in Deliveries /\ x.id # rec.id
    BY <1>t, <1>p DEF RecoveryWork, ReplayPhases, Replay
  <2>3. Replaying'
    BY <1>t, <1>p, <2>1 DEF Replaying
  <2>4. RecoveryWork'
    BY <1>t, <1>p, <1>1, <2>1, <2>2, <2>i DEF RecoveryWork, ReplayPhases
  <2>5. ExactlyOnce'
    BY <1>t, <1>p, <2>2 DEF ExactlyOnce
  <2>6. NoLeakedClaim'
    BY <1>t, <1>r, <1>p, <1>1, <2>1, OnlyReplayHolds DEF NoLeakedClaim, TypeOK
  <2> QED BY <1>r, <2>3, <2>4, <2>5, <2>6, RecoverAlone, RecoveryTypeOK DEF IInv
<1>2. CASE RetryReplay /\ UNCHANGED row /\ active' = Released(rec.id, rec.token)
  <2>1. /\ phase' \in {"replayClaim", "replayFail"}
        /\ rec'.id = rec.id /\ rec'.token = rec.token /\ rec'.orig = rec.orig
        /\ rec'.todo = rec.todo /\ rec'.acquired = rec.acquired
    BY <1>p, <1>2 DEF RetryReplay, Replay
  <2>2. Replaying'
    BY <1>t, <1>p, <2>1 DEF Replaying
  <2>3. RecoveryWork'
    BY <1>t, <1>p, <1>2, <2>1 DEF RecoveryWork, ReplayPhases
  <2>4. ExactlyOnce'
    BY <1>t, <1>p, <1>2 DEF ExactlyOnce
  <2>5. NoLeakedClaim'
    BY <1>t, <1>r, <1>p, <1>2, <2>1, OnlyReplayHolds, ReleasedEntry DEF NoLeakedClaim
  <2> QED BY <1>r, <2>2, <2>3, <2>4, <2>5, RecoverAlone, RecoveryTypeOK DEF IInv
<1> QED BY <1>p, <1>1, <1>2 DEF ReplayClaim

\* The replay leaves the list either processed, or with the row still its own.
LEMMA ReplayProcessIInv ==
    ASSUME IInv, ReplayProcess
    PROVE  IInv'
<1>t. TypeOK /\ Replaying /\ RecoveryWork /\ ExactlyOnce /\ NoLeakedClaim
  BY DEF IInv
<1>r. Recover
  BY DEF Recover
<1> DEFINE i == rec.id
           t == rec.token
<1>p. /\ phase = "replayProcess"
      /\ i \in Deliveries
      /\ t # None
      /\ Owns(i, t)
      /\ rec \in Replay
      /\ UNCHANGED req
  BY <1>t, DeliveryAssumption
  DEF ReplayProcess, Replaying, RecoveryWork, ReplayPhases, TypeOK, Tokens, Owns
<1>1. CASE /\ applied' = [applied EXCEPT ![i] = @ \cup {t}]
           /\ row' = Marked(i, t, "processed")
           /\ active' = Released(i, t)
           /\ phase' = "recover"
           /\ UNCHANGED rec
  <2>1. row'[i].status = "processed" /\ \A j \in Deliveries \ {i} : row'[j] = row[j]
    BY <1>t, <1>p, <1>1, MarkedRow
  <2>2. Replaying'
    BY <1>1 DEF Replaying
  <2>3. RecoveryWork'
    <3>1. \A x \in rec.todo : x.id \in Deliveries /\ x.id # i
      BY <1>t, <1>p DEF RecoveryWork, ReplayPhases, Replay
    <3> QED BY <1>t, <1>p, <1>1, <2>1, <3>1 DEF RecoveryWork, ReplayPhases
  <2>4. ExactlyOnce'
    <3>1. applied[i] = {}
      BY <1>t, <1>p DEF ExactlyOnce, Owns
    <3>2. applied'[i] = {t} /\ \A j \in Deliveries \ {i} : applied'[j] = applied[j]
      BY <1>t, <1>p, <1>1, <3>1 DEF TypeOK
    <3> QED BY <1>t, <2>1, <3>2 DEF ExactlyOnce
  <2>5. NoLeakedClaim'
    BY <1>t, <1>r, <1>p, <1>1, OnlyReplayHolds, ReleasedEntry DEF NoLeakedClaim
  <2> QED BY <1>r, <2>2, <2>3, <2>4, <2>5, RecoverAlone, RecoveryTypeOK DEF IInv
<1>2. CASE /\ \/ phase' = "replayFail" /\ UNCHANGED rec
              \/ RetryReplay
           /\ active' \in {active, Released(i, t)}
           /\ UNCHANGED <<row, applied>>
  <2>1. /\ phase' \in {"replayClaim", "replayFail"}
        /\ rec'.id = rec.id /\ rec'.token = rec.token /\ rec'.orig = rec.orig
        /\ rec'.todo = rec.todo /\ rec'.acquired = rec.acquired
    BY <1>p, <1>2 DEF RetryReplay, Replay
  <2>2. Replaying'
    BY <1>t, <1>p, <2>1 DEF Replaying
  <2>3. RecoveryWork'
    BY <1>t, <1>p, <1>2, <2>1 DEF RecoveryWork, ReplayPhases
  <2>4. ExactlyOnce'
    BY <1>t, <1>2 DEF ExactlyOnce
  <2>5. NoLeakedClaim'
    BY <1>t, <1>r, <1>p, <1>2, <2>1, OnlyReplayHolds, ReleasedEntry DEF NoLeakedClaim
  <2> QED BY <1>r, <2>2, <2>3, <2>4, <2>5, RecoverAlone, RecoveryTypeOK DEF IInv
<1> QED BY <1>p, <1>1, <1>2 DEF ReplayProcess

LEMMA ReplayFailIInv ==
    ASSUME IInv, ReplayFail
    PROVE  IInv'
<1>t. TypeOK /\ Replaying /\ RecoveryWork /\ ExactlyOnce /\ NoLeakedClaim
  BY DEF IInv
<1>r. Recover
  BY DEF Recover
<1> DEFINE i == rec.id
           t == IF rec.acquired THEN rec.token ELSE rec.orig
<1>p. /\ phase = "replayFail"
      /\ i \in Deliveries
      /\ Owns(i, t)
      /\ rec \in Replay
      /\ active' = Released(i, rec.token)
      /\ UNCHANGED <<req, applied>>
  BY <1>t DEF ReplayFail, Replaying, RecoveryWork, ReplayPhases, TypeOK, Owns
<1>a. \A j \in Deliveries : active'[j] = None
  BY <1>t, <1>r, <1>p, OnlyReplayHolds, ReleasedEntry
<1>n. NoLeakedClaim'
  BY <1>a DEF NoLeakedClaim
<1>1. CASE row' = Marked(i, t, "failed") /\ phase' = "recover" /\ UNCHANGED rec
  <2>1. row'[i].status = "failed" /\ \A j \in Deliveries \ {i} : row'[j] = row[j]
    BY <1>t, <1>p, <1>1, MarkedRow
  <2>2. Replaying'
    BY <1>1 DEF Replaying
  <2>3. RecoveryWork'
    <3>1. \A x \in rec.todo : x.id \in Deliveries /\ x.id # i
      BY <1>t, <1>p DEF RecoveryWork, ReplayPhases, Replay
    <3> QED BY <1>t, <1>p, <1>1, <2>1, <3>1 DEF RecoveryWork, ReplayPhases
  <2>4. ExactlyOnce'
    BY <1>t, <1>p, <2>1 DEF ExactlyOnce, Owns
  <2> QED BY <1>r, <1>n, <2>2, <2>3, <2>4, RecoverAlone, RecoveryTypeOK DEF IInv
<1>2. CASE phase' = "down" /\ UNCHANGED row
  <2>1. Replaying' /\ RecoveryWork'
    BY <1>2 DEF Replaying, RecoveryWork, ReplayPhases
  <2>2. ExactlyOnce'
    BY <1>t, <1>p, <1>2 DEF ExactlyOnce
  <2> QED BY <1>r, <1>n, <2>1, <2>2, RecoverAlone, RecoveryTypeOK DEF IInv
<1> QED BY <1>1, <1>2 DEF ReplayFail

\* A crash empties the memory and ends every fiber.
LEMMA CrashIInv ==
    ASSUME IInv, Crash
    PROVE  IInv'
<1>t. TypeOK /\ Served /\ CleanupsFinished /\ ExactlyOnce
  BY DEF IInv
<1>p. /\ phase' = "down"
      /\ \A j \in Deliveries : active'[j] = None /\ cleanup'[j] = None
      /\ UNCHANGED <<row, applied>>
  BY DEF Crash
<1>1. ASSUME NEW r \in Requests
      PROVE  /\ req'[r].pc \in {"new", "done", "lost"}
             /\ req'[r].pc = "new" <=> req[r].pc = "new"
             /\ req[r].pc = "done" => req'[r].pc = "done"
             /\ req'[r].id = req[r].id /\ req'[r].payload = req[r].payload
             /\ req'[r].held = req[r].held
             /\ req[r].held \in Requests \cup {None}
  BY <1>t DEF Crash, TypeOK, Request
<1>2. Served'
  BY <1>t, <1>1 DEF Served, InFlight
<1>3. Replaying' /\ RecoveryWork'
  BY <1>p DEF Replaying, RecoveryWork, ReplayPhases
<1>4. CleanupsFinished'
  BY <1>t, <1>p, <1>1 DEF CleanupsFinished
<1>5. ExactlyOnce'
  BY <1>t, <1>p DEF ExactlyOnce
<1>6. LiveClaimHeld'
  BY <1>1 DEF LiveClaimHeld
<1>7. NoLeakedClaim'
  BY <1>p DEF NoLeakedClaim
<1> QED BY <1>2, <1>3, <1>4, <1>5, <1>6, <1>7, RecoveryTypeOK DEF IInv

-----------------------------------------------------------------------------
\* The invariant is inductive.
LEMMA NextIInv == IInv /\ [Next]_vars => IInv'
<1> SUFFICES ASSUME IInv, [Next]_vars PROVE IInv'
  OBVIOUS
<1>1. ASSUME NEW r \in Requests, Arrive(r) PROVE IInv'
  BY <1>1, ArriveIInv
<1>2. ASSUME NEW r \in Requests, Handle(r) \/ Interrupt(r) PROVE IInv'
  BY <1>2, TakeFailedCleanupIInv, ResetFailedIInv, ClaimIInv, ProcessIInv,
     ProcessFailsIInv, ReleaseIInv, MarkFailedIInv DEF Handle
<1>3. CASE Recover
  BY <1>3, BootIInv, NextReplayIInv, ServeIInv, ReplayClaimIInv,
     ReplayProcessIInv, ReplayFailIInv DEF Recover
<1>4. CASE Crash
  BY <1>4, CrashIInv
<1>5. CASE UNCHANGED vars
  BY <1>5 DEF IInv, vars, TypeOK, Served, Replaying, RecoveryWork, CleanupsFinished,
              ExactlyOnce, LiveClaimHeld, NoLeakedClaim, Owns
<1> QED BY <1>1, <1>2, <1>3, <1>4, <1>5 DEF Next

\* The inductive invariant holds in every reachable state.
THEOREM Invariance == Spec => []IInv
  BY InitIInv, NextIInv, PTL DEF Spec

\* Every variable keeps its type.
THEOREM TypeCorrect == Spec => []TypeOK
<1>1. IInv => TypeOK
  BY DEF IInv
<1> QED BY <1>1, Invariance, PTL

\* Whatever is redelivered, retried, replayed or lost in a crash, the effects of
\* a delivery are committed at most once.
THEOREM DeliveredOnce == Spec => []ExactlyOnce
<1>1. IInv => ExactlyOnce
  BY DEF IInv
<1> QED BY <1>1, Invariance, PTL

\* A request that is processing a delivery still owns it.
THEOREM ClaimsAreHeld == Spec => []LiveClaimHeld
<1>1. IInv => LiveClaimHeld
  BY DEF IInv
<1> QED BY <1>1, Invariance, PTL

\* No claim outlives the fiber that took it.
THEOREM ClaimsAreReleased == Spec => []NoLeakedClaim
<1>1. IInv => NoLeakedClaim
  BY DEF IInv
<1> QED BY <1>1, Invariance, PTL

\* HTTP is served only when startup recovery has settled every pending row.
THEOREM RecoveryIsComplete == Spec => RecoverySettles
<1>1. ASSUME IInv, [Next]_vars
      PROVE  [phase = "recover" /\ phase' = "serving" =>
                \A i \in Deliveries : row[i].status # "pending"]_vars
  <2> SUFFICES ASSUME Next, phase = "recover", phase' = "serving"
               PROVE  \A i \in Deliveries : row[i].status # "pending"
    BY <1>1
  <2>1. ASSUME NEW r \in Requests, Arrive(r) \/ Handle(r) \/ Interrupt(r)
        PROVE  FALSE
    BY <1>1, <2>1, RequestFrame DEF Arrive
  <2>2. Serve
    BY <2>1 DEF Next, Recover, Boot, NextReplay, ReplayClaim, ReplayProcess,
                ReplayFail, RetryReplay, Crash
  <2>3. rec.todo = {}
    BY <2>2 DEF Serve
  <2> QED BY <1>1, <2>3 DEF IInv, RecoveryWork, ReplayPhases
<1> QED BY <1>1, Invariance, PTL DEF Spec, RecoverySettles
=============================================================================
