------------------------------ MODULE T3Thread ------------------------------
(***************************************************************************)
(* One thread of a T3 daemon, as a log of domain events, and what a        *)
(* session of the gateway's driver promises to show of it: the thread as   *)
(* it was at a cursor that only moves forward, every transition once, in   *)
(* the order of the log, until the driver gives the thread up.  How the    *)
(* driver keeps that promise over sockets that come and go is T3Stream;    *)
(* T3Driver builds on it.                                                  *)
(***************************************************************************)
EXTENDS Integers, Sequences, FiniteSets, FiniteSetsExt, SequencesExt

CONSTANTS Runs,   \* the runs of the thread
          None,   \* no run
          MaxLog  \* bound: the events the thread has of itself

ASSUME ThreadAssumption == IsFiniteSet(Runs)

Terminal == {"completed", "stopped"}  \* stopped: failed, cancelled, interrupted
Waiting == {"queued", "held"}
RunStatuses == Waiting \cup {"running"} \cup Terminal
Questions == {"asks", "answered"}

VARIABLES
  log,     \* the thread's events: a run, and what became of it or of its question
  cursor,  \* the last sequence shown; -1 before the first
  shown,   \* the keys of the transitions shown
  queue,   \* those the adapter acts on and has not taken yet
  failure  \* the driver has given the thread up

feed == <<cursor, shown, queue, failure>>

\* What the last of some events of the log, given by their indices, says.
Latest(I) == IF I = {} THEN "none" ELSE log[Max(I)].what

\* What the first n events of the thread say of a run, and of its question.
StatusAt(n, r) == Latest({i \in 1 .. n : log[i].run = r /\ log[i].what \in RunStatuses})
QuestionAt(n, r) == Latest({i \in 1 .. n : log[i].run = r /\ log[i].what \in Questions})
Status(r) == StatusAt(Len(log), r)
Question(r) == QuestionAt(Len(log), r)

ActiveRun == {r \in Runs : Status(r) = "running"}
Once(what) == \A i \in DOMAIN log : log[i].what # what
Happens(r, what) == log' = Append(log, [run |-> r, what |-> what])

\* T3 runs one turn of a thread at a time.  Its log is bounded, with one
\* question and one hold of the queue.
Goes(r, what) == Len(log) < MaxLog /\ Happens(r, what)
Queues(r) == Status(r) = "none" /\ Goes(r, "queued")
Starts(r) == Status(r) = "queued" /\ ActiveRun = {} /\ Goes(r, "running")
Ends(r) == Status(r) = "running" /\ \E s \in Terminal : Goes(r, s)
Holds(r) == Status(r) = "queued" /\ Once("held") /\ Goes(r, "held")
Releases(r) == Status(r) = "held" /\ Goes(r, "queued")
Asks(r) == Status(r) = "running" /\ Once("asks") /\ Goes(r, "asks")
Settles(r) == Question(r) = "asks" /\ Happens(r, "answered")

Keys(what, S) == {<<r, what>> : r \in S}

\* The transitions that show once the thread is seen as it was after n events.
Transitions(n) ==
  LET is(S) == {r \in Runs : StatusAt(n, r) \in S}
      asking(q) == {r \in Runs : QuestionAt(n, r) = q}
  IN (Keys("ended", is(Terminal))
        \cup {k \in Keys("asks", asking("asks")) : <<k[1], "answered">> \notin shown}
        \cup {k \in Keys("answered", asking("answered")) : <<k[1], "asks">> \in shown}) \ shown

NewlyHeld(n) == {r \in Runs : StatusAt(n, r) = "held" /\ StatusAt(cursor, r) # "held"}

Advance ==
  /\ ~failure
  /\ \E n \in cursor + 1 .. Len(log) :
       LET of(what) == SetToSeq({k \in Transitions(n) : k[2] = what})
       IN /\ cursor' = n
          /\ shown' = shown \cup Transitions(n)
          /\ queue' = queue \o SetToSeq(Keys("held", NewlyHeld(n))) \o of("asks") \o of("answered")
  /\ UNCHANGED <<log, failure>>

\* Mutant of GiveUp: only the stream of events is told.
GiveUpQuietly ==
  /\ ~failure
  /\ queue' = Append(queue, <<None, "fail">>)
  /\ UNCHANGED <<log, cursor, shown, failure>>

\* The end of the stream is an event of the queue as well.
GiveUp ==
  /\ ~failure
  /\ failure' = TRUE
  /\ queue' = Append(queue, <<None, "fail">>)
  /\ UNCHANGED <<log, cursor, shown>>

Take ==
  /\ queue # <<>>
  /\ queue' = Tail(queue)
  /\ UNCHANGED <<log, cursor, shown, failure>>

Empty ==
  /\ log = <<>>
  /\ cursor = -1 /\ shown = {} /\ queue = <<>> /\ failure = FALSE

Thread ==
  /\ \E r \in Runs : Queues(r) \/ Starts(r) \/ Ends(r) \/ Holds(r) \/ Releases(r)
                     \/ Asks(r) \/ Settles(r)
  /\ UNCHANGED feed

Feed == Empty /\ [][Thread \/ Advance \/ GiveUp \/ Take]_<<log, feed>>
=============================================================================
