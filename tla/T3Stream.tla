------------------------------ MODULE T3Stream ------------------------------
(***************************************************************************)
(* How the T3 driver follows a thread (src/src/drivers/t3: subscribeOnce   *)
(* and the pump of driver.ts, the event mapper of mapping.ts, the streams  *)
(* of rpc-client.ts).  A subscription begins after the last sequence       *)
(* applied, or with a snapshot, and dies with its socket; what was         *)
(* received before is applied before the failure is seen.  The driver      *)
(* subscribes again until a number of subscriptions in a row have brought  *)
(* nothing.  It implements the promise of T3Thread.                        *)
(***************************************************************************)
EXTENDS T3Thread

CONSTANTS MaxLosses,   \* bound: subscriptions that are lost or refused
          MaxAttempts  \* maxReconnectAttempts

ASSUME AttemptsAssumption == MaxAttempts \in Nat

VARIABLES
  sub,         \* the subscription of the pump
  views,       \* the mapper's status of each run
  started,     \* the runs whose start it has shown
  held,        \* the mapper's runs that hold the queue
  failures, progressed,  \* the pump's reconnect budget
  losses

streamVars == <<log, feed, sub, views, started, held, failures, progressed, losses>>

NoSub == [on |-> "off", snap |-> -1, pos |-> 1, upto |-> 0]
Lose == losses < MaxLosses /\ losses' = losses + 1

-----------------------------------------------------------------------------
(* The event mapper: snapshots and events go through the same transitions. *)

\* The statuses and the questions of a snapshot, or the one of an event.
Deliver(status, question) ==
  LET is(S) == {r \in DOMAIN status : status[r] \in S}
      asking(q) == {r \in DOMAIN question : question[r] = q}
      asks == {k \in Keys("asks", asking("asks")) : <<k[1], "answered">> \notin shown}
      answers == {k \in Keys("answered", asking("answered")) : <<k[1], "asks">> \in shown}
  IN /\ views' = [r \in Runs |-> IF r \in DOMAIN status THEN status[r] ELSE views[r]]
     /\ started' = started \cup is({"running"})
     /\ shown' = shown \cup Keys("ended", is(Terminal)) \cup asks \cup answers
     /\ held' = (held \ DOMAIN status) \cup is({"held"})
     /\ queue' = queue \o SetToSeq(Keys("held", is({"held"}) \ held))
                       \o SetToSeq(asks \ shown) \o SetToSeq(answers \ shown)

\* Mutant of Replayed: replayed events are applied again.
ReplayedNever(n) == FALSE

Replayed(n) == n <= cursor

Received(s) ==
  /\ sub' = s
  /\ progressed' = TRUE
  /\ UNCHANGED <<log, failures, failure, losses>>

Nothing == [r \in {} |-> "none"]

\* Mutant of AfterSnapshot: a snapshot does not move the cursor.
BeforeSnapshot(n) == Max({cursor, 0})

AfterSnapshot(n) == Max({cursor, 0, n})

TakeSnapshot ==
  /\ sub.snap >= 0
  /\ cursor' = AfterSnapshot(sub.snap)
  /\ Deliver([r \in {x \in Runs : StatusAt(sub.snap, x) # "none"} |-> StatusAt(sub.snap, r)],
             [r \in {x \in Runs : QuestionAt(sub.snap, x) # "none"} |-> QuestionAt(sub.snap, r)])
  /\ Received([sub EXCEPT !.snap = -1])

Remaining == sub.pos <= (IF sub.on = "on" THEN Len(log) ELSE sub.upto)

TakeEvent ==
  /\ sub.on \in {"on", "lost"} /\ sub.snap = -1 /\ Remaining
  /\ LET e == log[sub.pos]
         change == [r \in {e.run} |-> e.what]
     IN IF Replayed(sub.pos)
        THEN UNCHANGED <<cursor, shown, queue, views, started, held>>
        ELSE /\ cursor' = sub.pos
             /\ IF e.what \in Questions THEN Deliver(Nothing, change) ELSE Deliver(change, Nothing)
  /\ Received([sub EXCEPT !.pos = @ + 1])

\* T3 says that the subscriber has all there is: that is progress too.
Synchronized ==
  /\ sub.on = "on" /\ sub.snap = -1 /\ ~Remaining /\ ~progressed
  /\ UNCHANGED <<cursor, shown, queue, views, started, held>>
  /\ Received(sub)

-----------------------------------------------------------------------------
(* The pump: subscribe, map, subscribe again from the cursor after a loss. *)

\* T3 sends what the subscriber has missed, or a snapshot when that is too
\* much; events published while a snapshot is made may come again after it.
Subscribe ==
  /\ sub.on = "off"
  /\ LET n == Len(log)
     IN \/ \E p \in {n - 1, n, n + 1} \cap 1 .. (n + 1) :
             sub' = [on |-> "on", snap |-> n, pos |-> p, upto |-> 0]
        \/ cursor >= 0 /\ sub' = [on |-> "on", snap |-> -1, pos |-> cursor + 1, upto |-> 0]
  /\ progressed' = FALSE
  /\ UNCHANGED <<log, feed, views, started, held, failures, losses>>

\* The socket is closed, errs or misses a pong, or T3 ends the subscription.
SubscriptionLost ==
  /\ sub.on = "on" /\ Lose
  /\ sub' = [sub EXCEPT !.on = "lost", !.upto = Len(log)]
  /\ UNCHANGED <<log, feed, views, started, held, failures, progressed>>

\* No connection for the subscription is a transient error as well.
SubscribeFails ==
  /\ sub.on = "off" /\ Lose
  /\ sub' = [NoSub EXCEPT !.on = "lost"]
  /\ progressed' = FALSE
  /\ UNCHANGED <<log, feed, views, started, held, failures>>

Failures == IF progressed THEN 1 ELSE failures + 1

\* The stream fails once the items received before the loss are applied.
Drained == sub.on = "lost" /\ sub.snap = -1 /\ ~Remaining

Resubscribe ==
  /\ Drained /\ Failures <= MaxAttempts
  /\ failures' = Failures
  /\ sub' = NoSub
  /\ UNCHANGED <<log, feed, views, started, held, progressed, losses>>

Exhausted ==
  /\ Drained /\ Failures > MaxAttempts
  /\ GiveUp
  /\ failures' = Failures
  /\ sub' = [NoSub EXCEPT !.on = "over"]
  /\ UNCHANGED <<views, started, held, progressed, losses>>

\* An item that does not match the wire schema is not transient.
BadItem ==
  /\ sub.on = "on" /\ Lose
  /\ GiveUp
  /\ sub' = [NoSub EXCEPT !.on = "over"]
  /\ UNCHANGED <<views, started, held, failures, progressed>>

-----------------------------------------------------------------------------
StreamInit ==
  /\ Empty
  /\ sub = NoSub
  /\ views = [r \in Runs |-> "none"]
  /\ started = {} /\ held = {}
  /\ failures = 0 /\ progressed = FALSE
  /\ losses = 0

StreamPump == TakeSnapshot \/ TakeEvent \/ Subscribe \/ Resubscribe \/ Exhausted

StreamNext ==
  \/ StreamPump \/ Synchronized \/ SubscriptionLost \/ SubscribeFails \/ BadItem
  \/ (Thread \/ Take) /\ UNCHANGED <<sub, views, started, held, failures, progressed, losses>>

\* The fiber of the pump runs, and its delays pass.
StreamSpec == StreamInit /\ [][StreamNext]_streamVars /\ WF_streamVars(StreamPump)

-----------------------------------------------------------------------------
(* Properties.                                                             *)

\* Every variable keeps its type, and a transition is waiting for the adapter
\* at most once.
StreamTypeOK ==
  /\ log \in Seq([run : Runs, what : RunStatuses \cup Questions])
  /\ cursor \in -1 .. Len(log)
  /\ shown \subseteq Runs \X ({"ended"} \cup Questions)
  /\ queue \in Seq((Runs \cup {None}) \X (Questions \cup {"held", "fail"}))
  /\ IsInjective(queue)
  /\ sub \in [on : {"off", "on", "lost", "over"}, snap : -1 .. Len(log),
              pos : 1 .. Len(log) + 1, upto : 0 .. Len(log)]
  /\ views \in [Runs -> RunStatuses \cup {"none"}]
  /\ started \subseteq Runs /\ held \subseteq Runs
  /\ failures \in 0 .. MaxAttempts + 1
  /\ {failure, progressed} \subseteq BOOLEAN
  /\ failure <=> sub.on = "over"

\* The mapper shows the thread as it was at its cursor, across snapshots,
\* replays and lost subscriptions: a status never goes back to an older one,
\* an end is shown exactly for the runs that have ended, and a question that
\* was shown is withdrawn when it is answered.
ViewAtCursor ==
  \A r \in Runs :
    /\ views[r] = StatusAt(cursor, r)
    /\ r \in held <=> views[r] = "held"
    /\ <<r, "ended">> \in shown <=> views[r] \in Terminal
    /\ <<r, "answered">> \in shown
         <=> <<r, "asks">> \in shown /\ QuestionAt(cursor, r) = "answered"

\* The driver keeps the promise of T3Thread: every step moves the cursor
\* forward and shows just the transitions that are new there, gives up, or
\* shows nothing.
KeepsPromise == Feed

\* Every event of the thread is shown in the end, however often the
\* subscription is lost, unless the driver has said that it gave up.
CaughtUp == []<>(cursor = Len(log) \/ failure)
=============================================================================
