------------------------------ MODULE T3Proofs ------------------------------
(***************************************************************************)
(* Proofs about T3Stream and T3Driver, for any turns, runs and bounds.     *)
(* The stream keeps the promise of T3Thread: whatever snapshots, replays   *)
(* and losses there are, the driver shows the thread as it was at a cursor *)
(* that moves forward.  And however requests and answers are lost, a turn  *)
(* is not sent to T3 twice, and none that the authority has ticked off is  *)
(* missing there.                                                          *)
(***************************************************************************)
EXTENDS T3Stream, T3Driver, FiniteSetTheorems, WellFoundedInduction, TLAPS

-----------------------------------------------------------------------------
(* The thread's log: what its first events say of a run, and how that      *)
(* changes with one more event.                                            *)

Event == [run : Runs, what : RunStatuses \cup Questions]
LogOK == log \in Seq(Event)

\* The first n events on a run that are of some kinds, by their indices.
Telling(n, r, kinds) == {i \in 1 .. n : log[i].run = r /\ log[i].what \in kinds}

Less == {ss \in Nat \X Nat : ss[1] < ss[2]}

\* Some of the numbers up to n have a greatest one.
LEMMA MaxIsMax ==
  ASSUME NEW n \in Int, NEW I, I \subseteq 1 .. n, I # {}
  PROVE  Max(I) \in I /\ \A i \in I : Max(I) >= i
<1> DEFINE D == {n - i : i \in I}
<1>1. IsWellFoundedOn(Less, Nat)
  BY NatLessThanWellFounded DEF OpToRel, Less
<1>2. D \subseteq Nat /\ D # {}
  <2>1. \A i \in I : n - i \in Nat
    OBVIOUS
  <2> QED BY <2>1
<1>3. PICK d \in D : \A c \in D : <<c, d>> \notin Less
  BY <1>1, <1>2, WFMin
<1>4. PICK x \in I : d = n - x
  OBVIOUS
<1>5. ASSUME NEW i \in I PROVE x >= i
  <2>1. n - i \in D /\ d \in Nat
    BY <1>2
  <2>2. ~(n - i < d)
    BY <1>2, <1>3, <2>1 DEF Less
  <2> QED BY <1>4, <2>2
<1> QED BY <1>5 DEF Max

\* What the last of some events says is said by one of them.
LEMMA LatestIsSaid ==
  ASSUME NEW n \in Int, NEW I, I \subseteq 1 .. n, I # {}
  PROVE  Max(I) \in I /\ Latest(I) = log[Max(I)].what
BY MaxIsMax DEF Latest

\* One more event says something of its run, and nothing of the others.
LEMMA OneMore ==
  ASSUME LogOK, NEW n \in Nat, n < Len(log), NEW r, NEW kinds
  PROVE  Latest(Telling(n + 1, r, kinds)) =
           IF log[n + 1].run = r /\ log[n + 1].what \in kinds
           THEN log[n + 1].what ELSE Latest(Telling(n, r, kinds))
<1>1. CASE ~(log[n + 1].run = r /\ log[n + 1].what \in kinds)
  <2>1. Telling(n + 1, r, kinds) = Telling(n, r, kinds)
    BY <1>1 DEF Telling
  <2> QED BY <1>1, <2>1
<1>2. CASE log[n + 1].run = r /\ log[n + 1].what \in kinds
  <2> DEFINE I == Telling(n + 1, r, kinds)
  <2>1. n + 1 \in Int /\ I \subseteq 1 .. n + 1 /\ n + 1 \in I
    BY <1>2 DEF Telling
  <2> HIDE DEF I
  <2>2. Max(I) \in I /\ Max(I) >= n + 1 /\ Latest(I) = log[Max(I)].what
    BY <2>1, MaxIsMax DEF Latest
  <2>3. Max(I) = n + 1
    <3> DEFINE m == Max(I)
    <3>1. m \in 1 .. n + 1 /\ m >= n + 1
      BY <2>1, <2>2
    <3> HIDE DEF m
    <3>2. m = n + 1
      BY <3>1
    <3> QED BY <3>2 DEF m
  <2> QED BY <1>2, <2>2, <2>3 DEF I
<1> QED BY <1>1, <1>2

\* The same for the status and the question of a run.
LEMMA OneMoreEvent ==
  ASSUME LogOK, NEW n \in Nat, n < Len(log), NEW r
  PROVE  /\ StatusAt(n + 1, r) =
              IF log[n + 1].run = r /\ log[n + 1].what \in RunStatuses
              THEN log[n + 1].what ELSE StatusAt(n, r)
         /\ QuestionAt(n + 1, r) =
              IF log[n + 1].run = r /\ log[n + 1].what \in Questions
              THEN log[n + 1].what ELSE QuestionAt(n, r)
<1>1. \A kinds : Latest(Telling(n + 1, r, kinds)) =
                   IF log[n + 1].run = r /\ log[n + 1].what \in kinds
                   THEN log[n + 1].what ELSE Latest(Telling(n, r, kinds))
  BY OneMore
<1>2. \A m : /\ StatusAt(m, r) = Latest(Telling(m, r, RunStatuses))
             /\ QuestionAt(m, r) = Latest(Telling(m, r, Questions))
  BY DEF StatusAt, QuestionAt, Telling
<1> QED BY <1>1, <1>2

\* The status and the question of a run are of their kinds.
LEMMA Said ==
  ASSUME LogOK, NEW n \in -1 .. Len(log), NEW r
  PROVE  /\ StatusAt(n, r) \in RunStatuses \cup {"none"}
         /\ QuestionAt(n, r) \in Questions \cup {"none"}
<1>1. ASSUME NEW kinds PROVE Latest(Telling(n, r, kinds)) \in kinds \cup {"none"}
  <2> DEFINE I == Telling(n, r, kinds)
  <2>1. n \in Int /\ I \subseteq 1 .. n /\ \A i \in I : log[i].what \in kinds
    BY DEF Telling, LogOK
  <2> HIDE DEF I
  <2>2. I # {} => Max(I) \in I /\ Latest(I) = log[Max(I)].what
    BY <2>1, LatestIsSaid
  <2>3. Latest(I) \in kinds \cup {"none"}
    BY <2>1, <2>2 DEF Latest
  <2> QED BY <2>3 DEF I
<1> QED BY <1>1 DEF StatusAt, QuestionAt, Telling

\* No events say nothing.
LEMMA NothingSaid ==
  ASSUME NEW n \in {-1, 0}, NEW r
  PROVE  StatusAt(n, r) = "none" /\ QuestionAt(n, r) = "none"
BY DEF StatusAt, QuestionAt, Latest

\* The log keeps the events it has.
Lengthened == LogOK' /\ Len(log) <= Len(log') /\ \A i \in 1 .. Len(log) : log'[i] = log[i]

\* Events that are appended change nothing of what the others say.
LEMMA Stable ==
  ASSUME LogOK, Lengthened, NEW n \in -1 .. Len(log), NEW r
  PROVE  /\ StatusAt(n, r)' = StatusAt(n, r)
         /\ QuestionAt(n, r)' = QuestionAt(n, r)
<1>1. \A i \in 1 .. n : log'[i] = log[i]
  BY DEF LogOK, Lengthened
<1>2. ASSUME NEW kinds PROVE Latest(Telling(n, r, kinds))' = Latest(Telling(n, r, kinds))
  <2> DEFINE I == Telling(n, r, kinds)
  <2>1. I' = I /\ I \subseteq 1 .. n
    BY <1>1 DEF Telling
  <2>2. I # {} => Max(I) \in 1 .. n
    <3>1. n \in Int
      BY DEF LogOK
    <3> HIDE DEF I
    <3> QED BY <2>1, <3>1, MaxIsMax
  <2>3. Latest(I)' = IF I' = {} THEN "none" ELSE log'[Max(I')].what
    BY DEF Latest
  <2> QED BY <1>1, <2>1, <2>2, <2>3 DEF Latest
<1> QED BY <1>2 DEF StatusAt, QuestionAt, Telling

\* The same, of all events and runs at once, now and after a step.
Steps ==
  \A n \in Nat, r \in Runs : n < Len(log) =>
    /\ StatusAt(n + 1, r) =
         IF log[n + 1].run = r /\ log[n + 1].what \in RunStatuses
         THEN log[n + 1].what ELSE StatusAt(n, r)
    /\ QuestionAt(n + 1, r) =
         IF log[n + 1].run = r /\ log[n + 1].what \in Questions
         THEN log[n + 1].what ELSE QuestionAt(n, r)

LEMMA LogSteps == LogOK => Steps
BY OneMoreEvent DEF Steps

LEMMA LogStepsNext == LogOK' => Steps'
BY LogSteps, PTL

-----------------------------------------------------------------------------
(* What the thread can do to its log.                                      *)

\* From one point of the log to a later one a run does not leave its end, and
\* a question that was answered is not asked again.
Grows(m, n) ==
  \A r \in Runs :
    /\ StatusAt(m, r) \in Terminal => StatusAt(n, r) = StatusAt(m, r)
    /\ StatusAt(m, r) # "none" => StatusAt(n, r) # "none"
    /\ QuestionAt(m, r) = "answered" => QuestionAt(n, r) = "answered"
    /\ QuestionAt(m, r) # "none" => QuestionAt(n, r) # "none"

History ==
  /\ LogOK
  /\ \A n \in -1 .. Len(log) : \A m \in -1 .. n : Grows(m, n)
  /\ \A r \in Runs : Question(r) # "none" => ~Once("asks")

\* The log grows by one event, which its thread could have at that point.
Grown(r, what) ==
  /\ log' = Append(log, [run |-> r, what |-> what])
  /\ what \in RunStatuses => Status(r) \notin Terminal
  /\ what \in {"held", "asks"} => Once(what)
  /\ what = "answered" => Question(r) = "asks"

LEMMA ThreadGrows ==
  ASSUME Thread
  PROVE  \E r \in Runs, what \in RunStatuses \cup Questions : Grown(r, what)
<1>1. PICK r \in Runs : \/ Queues(r) \/ Starts(r) \/ Ends(r) \/ Holds(r) \/ Releases(r)
                        \/ Asks(r) \/ Settles(r)
  BY DEF Thread
<1>2. Ends(r) => \E s \in Terminal : Grown(r, s)
  BY DEF Ends, Goes, Happens, Grown, Terminal
<1>3. Queues(r) \/ Releases(r) => Grown(r, "queued")
  BY DEF Queues, Releases, Goes, Happens, Grown, Terminal
<1>4. Starts(r) => Grown(r, "running")
  BY DEF Starts, Goes, Happens, Grown, Terminal
<1>5. Holds(r) => Grown(r, "held")
  BY DEF Holds, Goes, Happens, Grown, Terminal
<1>6. Asks(r) => Grown(r, "asks")
  BY DEF Asks, Goes, Happens, Grown, Terminal, RunStatuses, Waiting
<1>7. Settles(r) => Grown(r, "answered")
  BY DEF Settles, Happens, Grown, Terminal, RunStatuses, Waiting
<1>8. {"queued", "held", "running", "asks", "answered"} \cup Terminal
         \subseteq RunStatuses \cup Questions
  BY DEF RunStatuses, Waiting, Questions
<1> QED BY <1>1, <1>2, <1>3, <1>4, <1>5, <1>6, <1>7, <1>8

LEMMA HistoryKept ==
  ASSUME History, NEW a \in Runs, NEW what \in RunStatuses \cup Questions, Grown(a, what)
  PROVE  History'
<1> DEFINE e == [run |-> a, what |-> what]
           N == Len(log)
<1>1. LogOK /\ N \in Nat /\ e \in Event /\ log' = Append(log, e)
  BY DEF History, LogOK, Event, Grown
<1>2. LogOK' /\ Len(log') = N + 1 /\ log'[N + 1] = e /\ Lengthened
  BY <1>1 DEF LogOK, Lengthened
<1>3. PICK n \in Nat : n = N
  BY <1>1
<1> HIDE DEF e, N
<1>4. ASSUME NEW m \in -1 .. n, NEW r \in Runs
      PROVE  StatusAt(m, r)' = StatusAt(m, r) /\ QuestionAt(m, r)' = QuestionAt(m, r)
  BY <1>1, <1>2, <1>3, Stable DEF N
<1>5. ASSUME NEW r \in Runs
      PROVE  /\ StatusAt(n + 1, r)' =
                   IF a = r /\ what \in RunStatuses THEN what ELSE StatusAt(n, r)
             /\ QuestionAt(n + 1, r)' =
                   IF a = r /\ what \in Questions THEN what ELSE QuestionAt(n, r)
  <2>1. Steps'
    BY <1>2, LogStepsNext
  <2>2. log'[n + 1] = e /\ e.run = a /\ e.what = what /\ n < Len(log')
    BY <1>2, <1>3 DEF e
  <2>3. StatusAt(n, r)' = StatusAt(n, r) /\ QuestionAt(n, r)' = QuestionAt(n, r)
    BY <1>4
  <2> QED BY <2>1, <2>2, <2>3 DEF Steps
<1>6. Status(a) = StatusAt(n, a) /\ Question(a) = QuestionAt(n, a)
  BY <1>3 DEF Status, Question, N
<1>7. ASSUME NEW k \in -1 .. n + 1, NEW m \in -1 .. k
      PROVE  Grows(m, k)'
  <2>1. CASE k <= n
    <3>1. Grows(m, k)
      BY <1>3, <2>1 DEF History, N
    <3>2. k \in -1 .. n /\ m \in -1 .. n
      BY <2>1
    <3> QED BY <1>4, <3>1, <3>2 DEF Grows
  <2>2. CASE m = n + 1
    BY <2>2 DEF Grows
  <2>3. CASE k = n + 1 /\ m <= n
    <3>1. Grows(m, n) /\ m \in -1 .. n
      BY <1>3, <2>3 DEF History, N
    <3>2. ASSUME NEW r \in Runs
          PROVE  /\ StatusAt(m, r)' \in Terminal => StatusAt(k, r)' = StatusAt(m, r)'
                 /\ StatusAt(m, r)' # "none" => StatusAt(k, r)' # "none"
      <4>1. StatusAt(m, r)' = StatusAt(m, r)
        BY <1>4, <3>1
      <4>2. /\ StatusAt(m, r) \in Terminal => StatusAt(n, r) = StatusAt(m, r)
            /\ StatusAt(m, r) # "none" => StatusAt(n, r) # "none"
        BY <3>1 DEF Grows
      <4>3. StatusAt(k, r)' = IF a = r /\ what \in RunStatuses THEN what ELSE StatusAt(n, r)
        BY <1>5, <2>3
      <4> QED
        BY <1>6, <4>1, <4>2, <4>3 DEF Grown, RunStatuses, Waiting, Terminal
    <3>3. ASSUME NEW r \in Runs
          PROVE  /\ QuestionAt(m, r)' = "answered" => QuestionAt(k, r)' = "answered"
                 /\ QuestionAt(m, r)' # "none" => QuestionAt(k, r)' # "none"
      <4>1. QuestionAt(m, r)' = QuestionAt(m, r)
        BY <1>4, <3>1
      <4>2. /\ QuestionAt(m, r) = "answered" => QuestionAt(n, r) = "answered"
            /\ QuestionAt(m, r) # "none" => QuestionAt(n, r) # "none"
        BY <3>1 DEF Grows
      <4>3. QuestionAt(k, r)' = IF a = r /\ what \in Questions THEN what ELSE QuestionAt(n, r)
        BY <1>5, <2>3
      <4>4. a = r /\ what = "asks" => QuestionAt(n, r) = "none"
        BY <1>6 DEF Grown, History
      <4> QED
        BY <4>1, <4>2, <4>3, <4>4 DEF Questions
    <3> QED BY <3>2, <3>3 DEF Grows
  <2> QED BY <1>3, <2>1, <2>2, <2>3
<1>8. ASSUME NEW r \in Runs, Question(r)' # "none"
      PROVE  ~Once("asks")'
  <2>1. QuestionAt(n + 1, r)' # "none"
    BY <1>2, <1>3, <1>8 DEF Question
  <2>2. CASE a = r /\ what = "asks"
    <3>1. N + 1 \in DOMAIN log' /\ log'[N + 1].what = "asks"
      BY <1>1, <1>2, <2>2 DEF e, LogOK
    <3> QED BY <3>1 DEF Once
  <2>3. CASE ~(a = r /\ what = "asks")
    <3>1. Question(r) # "none"
      <4>1. Question(r) = QuestionAt(n, r)
        BY <1>3 DEF Question, N
      <4>2. QuestionAt(n + 1, r)' = IF a = r /\ what \in Questions THEN what ELSE QuestionAt(n, r)
        BY <1>5
      <4> QED BY <1>6, <2>1, <2>3, <4>1, <4>2 DEF Grown, Questions
    <3>2. PICK i \in DOMAIN log : log[i].what = "asks"
      BY <3>1 DEF History, Once
    <3>3. i \in DOMAIN log' /\ log'[i] = log[i]
      BY <1>1 DEF LogOK
    <3> QED BY <3>2, <3>3 DEF Once
  <2> QED BY <2>2, <2>3
<1> QED BY <1>2, <1>3, <1>7, <1>8 DEF History

\* A log that grows from its old end on has grown all along.
LEMMA LongerHistory ==
  ASSUME History, Lengthened,
         \A k \in Len(log) .. Len(log') : \A m \in Len(log) .. k : Grows(m, k)',
         \A r \in Runs : Question(r)' # "none" => ~Once("asks")'
  PROVE  History'
<1>1. PICK N \in Nat, M \in Nat : N = Len(log) /\ M = Len(log') /\ N <= M
  BY DEF History, LogOK, Lengthened
<1>2. ASSUME NEW m \in -1 .. N, NEW n \in m .. N PROVE Grows(m, n)'
  <2>1. Grows(m, n) /\ m \in -1 .. Len(log) /\ n \in -1 .. Len(log)
    BY <1>1 DEF History
  <2>2. LogOK
    BY DEF History
  <2>3. \A r \in Runs : /\ StatusAt(m, r)' = StatusAt(m, r) /\ QuestionAt(m, r)' = QuestionAt(m, r)
                        /\ StatusAt(n, r)' = StatusAt(n, r) /\ QuestionAt(n, r)' = QuestionAt(n, r)
    BY <2>1, <2>2, Stable
  <2> QED BY <2>1, <2>3 DEF Grows
<1>3. ASSUME NEW k \in -1 .. M, NEW m \in -1 .. k PROVE Grows(m, k)'
  <2>1. CASE k <= N
    BY <1>2, <2>1
  <2>2. CASE m >= N
    BY <1>1, <2>2
  <2>3. CASE m <= N /\ N <= k
    <3>1. Grows(m, N)' /\ Grows(N, k)'
      BY <1>1, <1>2, <2>3
    <3> QED BY <3>1 DEF Grows
  <2> QED BY <1>1, <2>1, <2>2, <2>3
<1> QED BY <1>1, <1>3 DEF History, Lengthened

LEMMA EmptyHistory == Empty => History
<1> SUFFICES ASSUME Empty PROVE History
  OBVIOUS
<1>1. LogOK /\ Len(log) = 0 /\ DOMAIN log = {}
  BY DEF Empty, LogOK
<1>2. \A n \in {-1, 0} : \A r \in Runs : StatusAt(n, r) = "none" /\ QuestionAt(n, r) = "none"
  BY NothingSaid
<1> QED BY <1>1, <1>2 DEF History, Grows, Question, Terminal

LEMMA HistoryNext ==
  ASSUME History, Thread \/ UNCHANGED log
  PROVE  History'
<1>1. CASE Thread
  BY <1>1, ThreadGrows, HistoryKept
<1>2. CASE UNCHANGED log
  <2>1. ASSUME NEW n, NEW r
        PROVE  StatusAt(n, r)' = StatusAt(n, r) /\ QuestionAt(n, r)' = QuestionAt(n, r)
    BY <1>2 DEF StatusAt, QuestionAt, Latest
  <2>2. \A r : Question(r)' = Question(r)
    BY <1>2 DEF Question, QuestionAt, Latest
  <2> QED BY <1>2, <2>1, <2>2 DEF History, LogOK, Grows, Once
<1> QED BY <1>1, <1>2

-----------------------------------------------------------------------------
(* The stream.                                                             *)

Waits == (Runs \cup {None}) \X (Questions \cup {"held", "fail"})

Subscription == [on : {"off", "on", "lost", "over"}, snap : Int, pos : Int, upto : Int]

StreamTypes ==
  /\ cursor \in -1 .. Len(log)
  /\ shown \subseteq Runs \X ({"ended"} \cup Questions)
  /\ queue \in Seq(Waits)
  /\ sub \in Subscription
  /\ views \in [Runs -> RunStatuses \cup {"none"}]
  /\ started \subseteq Runs /\ held \subseteq Runs
  /\ failure \in BOOLEAN
  /\ failure <=> sub.on = "over"

\* A question that was shown was asked before the cursor, and one that is open
\* there has been shown.
QuestionsShown ==
  \A r \in Runs :
    /\ <<r, "asks">> \in shown => QuestionAt(cursor, r) \in Questions
    /\ QuestionAt(cursor, r) = "asks" => <<r, "asks">> \in shown

\* A snapshot is not older than the cursor, and what follows it, or comes
\* without one, leaves no gap.
NoGap ==
  /\ sub.snap \in -1 .. Len(log) /\ sub.upto \in 0 .. Len(log) /\ sub.pos \in 1 .. Len(log) + 1
  /\ sub.on \in {"off", "over"} => sub.snap = -1
  /\ sub.snap >= 0 => cursor <= sub.snap /\ sub.pos <= sub.snap + 1
  /\ sub.snap = -1 /\ (sub.on = "on" \/ (sub.on = "lost" /\ sub.pos <= sub.upto))
        => sub.pos <= cursor + 1

StreamInv == History /\ StreamTypes /\ ViewAtCursor /\ QuestionsShown /\ NoGap

-----------------------------------------------------------------------------
(* Catching up: the driver shows the thread as it was after n events.      *)

Of(n, what) == {k \in Transitions(n) : k[2] = what}

CatchesUp(n) ==
  /\ views' = [r \in Runs |-> StatusAt(n, r)]
  /\ held' = {r \in Runs : StatusAt(n, r) = "held"}
  /\ shown' = shown \cup Transitions(n)
  /\ queue' = queue \o SetToSeq(Keys("held", NewlyHeld(n)))
                    \o SetToSeq(Of(n, "asks")) \o SetToSeq(Of(n, "answered"))

\* The transitions that show after n events, one by one.
LEMMA TransitionsAre ==
  ASSUME NEW n
  PROVE  /\ Transitions(n) \subseteq Runs \X ({"ended"} \cup Questions)
         /\ \A r \in Runs :
              /\ <<r, "ended">> \in Transitions(n)
                   <=> StatusAt(n, r) \in Terminal /\ <<r, "ended">> \notin shown
              /\ <<r, "asks">> \in Transitions(n)
                   <=> /\ QuestionAt(n, r) = "asks"
                       /\ <<r, "answered">> \notin shown /\ <<r, "asks">> \notin shown
              /\ <<r, "answered">> \in Transitions(n)
                   <=> /\ QuestionAt(n, r) = "answered"
                       /\ <<r, "asks">> \in shown /\ <<r, "answered">> \notin shown
BY DEF Transitions, Keys, Questions

\* What the mapper does with a snapshot or an event: the runs and the questions
\* that are in it are as they were after n events, and the others have not
\* changed since the cursor.
LEMMA DeliverCatchesUp ==
  ASSUME StreamInv, NEW n \in -1 .. Len(log),
         NEW status, NEW question, Deliver(status, question),
         DOMAIN status \subseteq Runs, DOMAIN question \subseteq Runs,
         \A r \in DOMAIN status : status[r] = StatusAt(n, r),
         \A r \in DOMAIN question : question[r] = QuestionAt(n, r),
         \A r \in Runs \ DOMAIN status : StatusAt(n, r) = StatusAt(cursor, r),
         \A r \in Runs \ DOMAIN question : QuestionAt(n, r) = QuestionAt(cursor, r)
  PROVE  CatchesUp(n)
<1> DEFINE holding == {r \in DOMAIN status : status[r] \in {"held"}}
           over == {r \in DOMAIN status : status[r] \in Terminal}
           open == {r \in DOMAIN question : question[r] = "asks"}
           settled == {r \in DOMAIN question : question[r] = "answered"}
           asks == {k \in Keys("asks", open) : <<k[1], "answered">> \notin shown}
           answers == {k \in Keys("answered", settled) : <<k[1], "asks">> \in shown}
           ended == Keys("ended", over)
           T == Transitions(n)
<1>1. \A r \in Runs : /\ views[r] = StatusAt(cursor, r)
                      /\ r \in held <=> StatusAt(cursor, r) = "held"
                      /\ <<r, "ended">> \in shown <=> StatusAt(cursor, r) \in Terminal
                      /\ <<r, "answered">> \in shown
                           <=> <<r, "asks">> \in shown /\ QuestionAt(cursor, r) = "answered"
                      /\ QuestionAt(cursor, r) = "asks" => <<r, "asks">> \in shown
  BY DEF StreamInv, ViewAtCursor, QuestionsShown
<1>2. views' = [r \in Runs |-> StatusAt(n, r)]
  BY <1>1 DEF Deliver
<1>3. held' = {r \in Runs : StatusAt(n, r) = "held"}
  BY <1>1 DEF Deliver, StreamInv, StreamTypes
<1>4. holding \ held = NewlyHeld(n)
  BY <1>1 DEF NewlyHeld
<1>5. /\ shown' = shown \cup ended \cup asks \cup answers
      /\ queue' = queue \o SetToSeq(Keys("held", holding \ held))
                        \o SetToSeq(asks \ shown) \o SetToSeq(answers \ shown)
  BY DEF Deliver
<1>6. /\ \A k : k \in asks <=> \E r \in open : k = <<r, "asks">> /\ <<r, "answered">> \notin shown
      /\ \A k : k \in answers <=> \E r \in settled : k = <<r, "answered">> /\ <<r, "asks">> \in shown
      /\ \A k : k \in ended <=> \E r \in over : k = <<r, "ended">>
  <2>1. ASSUME NEW k
        PROVE  k \in asks <=> \E r \in open : k = <<r, "asks">> /\ <<r, "answered">> \notin shown
    <3>1. k \in Keys("asks", open) <=> \E r \in open : k = <<r, "asks">>
      BY Zenon DEF Keys
    <3>2. \A r : k = <<r, "asks">> => k[1] = r
      OBVIOUS
    <3> HIDE DEF open
    <3> QED BY <3>1, <3>2
  <2>2. ASSUME NEW k
        PROVE  k \in answers <=> \E r \in settled : k = <<r, "answered">> /\ <<r, "asks">> \in shown
    <3>1. k \in Keys("answered", settled) <=> \E r \in settled : k = <<r, "answered">>
      BY Zenon DEF Keys
    <3>2. \A r : k = <<r, "answered">> => k[1] = r
      OBVIOUS
    <3> HIDE DEF settled
    <3> QED BY <3>1, <3>2
  <2>3. ASSUME NEW k
        PROVE  k \in ended <=> \E r \in over : k = <<r, "ended">>
    BY Zenon DEF Keys
  <2> QED BY <2>1, <2>2, <2>3
<1>7. /\ T \subseteq Runs \X {"ended", "asks", "answered"}
      /\ \A r \in Runs :
           /\ <<r, "asks">> \in T
                <=> r \in open /\ <<r, "answered">> \notin shown /\ <<r, "asks">> \notin shown
           /\ <<r, "answered">> \in T
                <=> r \in settled /\ <<r, "asks">> \in shown /\ <<r, "answered">> \notin shown
           /\ <<r, "ended">> \in T <=> r \in over /\ <<r, "ended">> \notin shown
  BY <1>1, TransitionsAre DEF Questions
<1>8. open \subseteq Runs /\ settled \subseteq Runs /\ over \subseteq Runs
  OBVIOUS
<1> HIDE DEF holding, over, open, settled, asks, answers, ended, T
<1>9. ASSUME NEW k \in T
      PROVE  \/ \E r \in Runs : k = <<r, "ended">> /\ k[2] = "ended"
             \/ \E r \in Runs : k = <<r, "asks">> /\ k[2] = "asks"
             \/ \E r \in Runs : k = <<r, "answered">> /\ k[2] = "answered"
  <2>1. PICK r \in Runs, what \in {"ended", "asks", "answered"} : k = <<r, what>>
    BY <1>7
  <2> QED BY <2>1
<1>10. asks \ shown = {k \in T : k[2] = "asks"}
  <2>1. ASSUME NEW k \in asks, k \notin shown PROVE k \in T /\ k[2] = "asks"
    <3>1. PICK r \in open : k = <<r, "asks">> /\ <<r, "answered">> \notin shown
      BY <2>1, <1>6
    <3>2. r \in Runs /\ <<r, "asks">> \notin shown /\ k[2] = "asks"
      BY <2>1, <3>1, <1>8
    <3> QED BY <3>1, <3>2, <1>7
  <2>2. ASSUME NEW k \in T, k[2] = "asks" PROVE k \in asks /\ k \notin shown
    <3>1. PICK r \in Runs : k = <<r, "asks">>
      BY <2>2, <1>9
    <3> QED BY <3>1, <1>6, <1>7
  <2> QED BY <2>1, <2>2
<1>11. answers \ shown = {k \in T : k[2] = "answered"}
  <2>1. ASSUME NEW k \in answers, k \notin shown PROVE k \in T /\ k[2] = "answered"
    <3>1. PICK r \in settled : k = <<r, "answered">> /\ <<r, "asks">> \in shown
      BY <2>1, <1>6
    <3>2. r \in Runs /\ <<r, "answered">> \notin shown /\ k[2] = "answered"
      BY <2>1, <3>1, <1>8
    <3> QED BY <3>1, <3>2, <1>7
  <2>2. ASSUME NEW k \in T, k[2] = "answered" PROVE k \in answers /\ k \notin shown
    <3>1. PICK r \in Runs : k = <<r, "answered">>
      BY <2>2, <1>9
    <3> QED BY <3>1, <1>6, <1>7
  <2> QED BY <2>1, <2>2
<1>12. shown \cup ended \cup asks \cup answers = shown \cup T
  <2>1. ASSUME NEW k \in ended, k \notin shown PROVE k \in T
    <3>1. PICK r \in over : k = <<r, "ended">>
      BY <2>1, <1>6
    <3>2. r \in Runs /\ <<r, "ended">> \notin shown
      BY <2>1, <3>1, <1>8
    <3> QED BY <3>1, <3>2, <1>7
  <2>2. ASSUME NEW k \in T PROVE k \in ended \cup asks \cup answers
    <3>1. CASE \E r \in Runs : k = <<r, "ended">>
      <4>1. PICK r \in Runs : k = <<r, "ended">>
        BY <3>1
      <4> QED BY <2>2, <4>1, <1>6, <1>7
    <3>2. CASE k[2] \in {"asks", "answered"}
      BY <3>2, <1>10, <1>11
    <3> QED BY <1>9, <3>1, <3>2
  <2> QED BY <2>1, <2>2, <1>10, <1>11
<1> QED BY <1>2, <1>3, <1>4, <1>5, <1>10, <1>11, <1>12 DEF CatchesUp, Of, T

-----------------------------------------------------------------------------
(* The queue: a finite set as a sequence.                                  *)

LEMMA SetToSeqIsSeq ==
  ASSUME NEW T, NEW S \in SUBSET T, IsFiniteSet(S)
  PROVE  SetToSeq(S) \in Seq(T)
<1>1. Cardinality(S) \in Nat /\ ExistsBijection(1 .. Cardinality(S), S)
  BY FS_CardinalityType
<1>2. \E f \in [1 .. Cardinality(S) -> S] : IsInjective(f)
  BY <1>1 DEF ExistsBijection, Bijection, Injection
<1>3. SetToSeq(S) \in [1 .. Cardinality(S) -> S]
  BY <1>2 DEF SetToSeq
<1> QED BY <1>1, <1>3

LEMMA EmptySetToSeq == SetToSeq({}) = <<>>
<1>1. SetToSeq({}) \in Seq({})
  BY SetToSeqIsSeq, FS_EmptySet
<1> QED BY <1>1

LEMMA KeysAreFinite ==
  ASSUME NEW S, S \subseteq Runs \X ({"ended", "held"} \cup Questions)
  PROVE  IsFiniteSet(S)
<1>1. IsFiniteSet({"ended", "held", "asks", "answered"})
  <2>1. IsFiniteSet({"ended"} \cup {"held"} \cup {"asks"} \cup {"answered"})
    BY FS_Singleton, FS_Union
  <2> QED BY <2>1
<1>2. {"ended", "held"} \cup Questions = {"ended", "held", "asks", "answered"}
  BY DEF Questions
<1> QED BY <1>1, <1>2, ThreadAssumption, FS_Product, FS_Subset

-----------------------------------------------------------------------------
(* What holds once the driver has caught up.                               *)

LEMMA AdvanceTyped ==
  ASSUME NEW n
  PROVE  /\ SetToSeq(Keys("held", NewlyHeld(n))) \in Seq(Waits)
         /\ \A what \in Questions : SetToSeq(Of(n, what)) \in Seq(Waits)
<1> DEFINE h == Keys("held", NewlyHeld(n))
<1>1. h \subseteq Runs \X {"held"} /\ \A what : Of(n, what) \subseteq Runs \X {what}
  <2>1. h \subseteq Runs \X {"held"}
    BY DEF Keys, NewlyHeld
  <2>2. ASSUME NEW what, NEW k \in Of(n, what)
        PROVE  k \in Runs \X {what}
    <3>1. k \in Runs \X ({"ended"} \cup Questions) /\ k[2] = what
      BY TransitionsAre DEF Of
    <3> QED BY <3>1
  <2> QED BY <2>1, <2>2
<1> HIDE DEF h
<1>2. ASSUME NEW S, NEW what \in Questions \cup {"held"}, S \subseteq Runs \X {what}
      PROVE  SetToSeq(S) \in Seq(Waits)
  <2>1. S \in SUBSET Waits /\ IsFiniteSet(S)
    BY <1>2, KeysAreFinite DEF Waits
  <2> QED BY <2>1, SetToSeqIsSeq
<1>3. SetToSeq(h) \in Seq(Waits)
  BY <1>1, <1>2
<1>4. ASSUME NEW what \in Questions PROVE SetToSeq(Of(n, what)) \in Seq(Waits)
  BY <1>1, <1>2
<1> QED BY <1>3, <1>4 DEF h

LEMMA WaitsTyped ==
  ASSUME StreamInv, NEW n, CatchesUp(n)
  PROVE  queue' \in Seq(Waits)
BY AdvanceTyped DEF CatchesUp, StreamInv, StreamTypes, Questions

LEMMA CaughtUpView ==
  ASSUME StreamInv, NEW n \in -1 .. Len(log), cursor <= n, CatchesUp(n), cursor' = n, log' = log
  PROVE  /\ ViewAtCursor' /\ QuestionsShown'
         /\ shown' \subseteq Runs \X ({"ended"} \cup Questions)
         /\ views' \in [Runs -> RunStatuses \cup {"none"}]
         /\ held' \subseteq Runs
<1>1. Len(log) \in Nat /\ cursor \in -1 .. n /\ Grows(cursor, n)
  BY DEF StreamInv, History, LogOK, StreamTypes
<1>2. \A r : StatusAt(cursor, r)' = StatusAt(n, r) /\ QuestionAt(cursor, r)' = QuestionAt(n, r)
  BY DEF StatusAt, QuestionAt, Latest
<1>3. ASSUME NEW r \in Runs
      PROVE  /\ StatusAt(n, r) \in RunStatuses \cup {"none"}
             /\ QuestionAt(n, r) \in Questions \cup {"none"}
  BY Said DEF StreamInv, History
<1>4. ASSUME NEW r \in Runs
      PROVE  /\ views'[r] = StatusAt(n, r)
             /\ r \in held' <=> views'[r] = "held"
             /\ <<r, "ended">> \in shown' <=> views'[r] \in Terminal
             /\ <<r, "answered">> \in shown'
                  <=> <<r, "asks">> \in shown' /\ QuestionAt(n, r) = "answered"
             /\ <<r, "asks">> \in shown' => QuestionAt(n, r) \in Questions
             /\ QuestionAt(n, r) = "asks" => <<r, "asks">> \in shown'
  <2>1. views'[r] = StatusAt(n, r) /\ (r \in held' <=> views'[r] = "held")
    BY DEF CatchesUp
  <2>2. shown' = shown \cup Transitions(n)
    BY DEF CatchesUp
  <2>3. /\ <<r, "ended">> \in shown <=> StatusAt(cursor, r) \in Terminal
        /\ <<r, "answered">> \in shown
             <=> <<r, "asks">> \in shown /\ QuestionAt(cursor, r) = "answered"
        /\ <<r, "asks">> \in shown => QuestionAt(cursor, r) \in Questions
        /\ QuestionAt(cursor, r) = "asks" => <<r, "asks">> \in shown
    BY DEF StreamInv, ViewAtCursor, QuestionsShown
  <2>4. <<r, "ended">> \in shown' <=> views'[r] \in Terminal
    BY <1>1, <2>1, <2>2, <2>3, TransitionsAre DEF Grows
  <2>5. /\ QuestionAt(cursor, r) = "answered" => QuestionAt(n, r) = "answered"
        /\ QuestionAt(cursor, r) # "none" => QuestionAt(n, r) # "none"
    BY <1>1 DEF Grows
  <2>6. /\ <<r, "asks">> \in shown'
             <=> \/ <<r, "asks">> \in shown
                 \/ (QuestionAt(n, r) = "asks" /\ <<r, "answered">> \notin shown)
        /\ <<r, "answered">> \in shown'
             <=> \/ <<r, "answered">> \in shown
                 \/ (QuestionAt(n, r) = "answered" /\ <<r, "asks">> \in shown)
    BY <2>2, TransitionsAre
  <2> QED BY <1>3, <2>1, <2>3, <2>4, <2>5, <2>6 DEF Questions
<1>5. /\ shown' \subseteq Runs \X ({"ended"} \cup Questions)
      /\ views' \in [Runs -> RunStatuses \cup {"none"}]
      /\ held' \subseteq Runs
  BY <1>3, TransitionsAre DEF CatchesUp, StreamInv, StreamTypes
<1>6. ViewAtCursor' /\ QuestionsShown'
  BY <1>2, <1>4 DEF ViewAtCursor, QuestionsShown
<1> QED BY <1>5, <1>6

\* A snapshot catches up with the log as it was when it was made.
LEMMA SnapshotCatchesUp ==
  ASSUME StreamInv, TakeSnapshot
  PROVE  /\ sub.snap \in 0 .. Len(log) /\ cursor <= sub.snap
         /\ CatchesUp(sub.snap) /\ cursor' = sub.snap
<1>1. sub.snap \in 0 .. Len(log) /\ cursor <= sub.snap /\ cursor \in -1 .. Len(log)
  BY DEF TakeSnapshot, StreamInv, NoGap, StreamTypes
<1>2. cursor' = sub.snap
  <2> DEFINE n == sub.snap
  <2>1. cursor' = Max({cursor, 0, n})
    BY DEF TakeSnapshot, AfterSnapshot
  <2>2. n \in {cursor, 0, n} /\ \A y \in {cursor, 0, n} : n >= y
    BY <1>1
  <2>3. \A x \in {cursor, 0, n} : (\A y \in {cursor, 0, n} : x >= y) => x = n
    BY <1>1
  <2> HIDE DEF n
  <2>4. Max({cursor, 0, n}) = n
    BY <2>2, <2>3 DEF Max
  <2> QED BY <2>1, <2>4 DEF n
<1> DEFINE status == [r \in {x \in Runs : StatusAt(sub.snap, x) # "none"} |-> StatusAt(sub.snap, r)]
           question == [r \in {x \in Runs : QuestionAt(sub.snap, x) # "none"}
                           |-> QuestionAt(sub.snap, r)]
<1>3. Deliver(status, question)
  BY DEF TakeSnapshot
<1>4. Grows(cursor, sub.snap)
  BY <1>1 DEF StreamInv, History, LogOK
<1>5. /\ DOMAIN status \subseteq Runs /\ DOMAIN question \subseteq Runs
      /\ \A r \in DOMAIN status : status[r] = StatusAt(sub.snap, r)
      /\ \A r \in DOMAIN question : question[r] = QuestionAt(sub.snap, r)
      /\ \A r \in Runs \ DOMAIN status : StatusAt(sub.snap, r) = StatusAt(cursor, r)
      /\ \A r \in Runs \ DOMAIN question : QuestionAt(sub.snap, r) = QuestionAt(cursor, r)
  BY <1>4 DEF Grows
<1> HIDE DEF status, question
<1>6. sub.snap \in -1 .. Len(log)
  BY <1>1
<1>7. CatchesUp(sub.snap)
  BY <1>3, <1>5, <1>6, DeliverCatchesUp
<1> QED BY <1>1, <1>2, <1>7

\* An event that is not a replay is the first after the cursor.
LEMMA EventCatchesUp ==
  ASSUME StreamInv, TakeEvent, ~Replayed(sub.pos)
  PROVE  /\ cursor + 1 \in 1 .. Len(log) /\ sub.pos = cursor + 1
         /\ CatchesUp(cursor + 1) /\ cursor' = cursor + 1
<1>1. cursor \in -1 .. Len(log) /\ Len(log) \in Nat /\ LogOK
  BY DEF StreamInv, History, StreamTypes, LogOK
<1>2. /\ sub.pos \in 1 .. Len(log) /\ sub.pos <= cursor + 1
  BY <1>1 DEF StreamInv, NoGap, TakeEvent, Remaining
<1>3. sub.pos = cursor + 1 /\ cursor \in Nat /\ cursor < Len(log)
  BY <1>1, <1>2 DEF Replayed
<1> DEFINE e == log[sub.pos]
           change == [r \in {e.run} |-> e.what]
<1>4. /\ cursor' = sub.pos
      /\ IF e.what \in Questions THEN Deliver(Nothing, change) ELSE Deliver(change, Nothing)
  BY DEF TakeEvent
<1>5. e.run \in Runs /\ e.what \in RunStatuses \cup Questions
  <2>1. e \in Event
    BY <1>1, <1>2 DEF LogOK
  <2> HIDE DEF e
  <2> QED BY <2>1 DEF Event
<1>6. \A r \in Runs :
        /\ StatusAt(cursor + 1, r) =
             IF e.run = r /\ e.what \in RunStatuses THEN e.what ELSE StatusAt(cursor, r)
        /\ QuestionAt(cursor + 1, r) =
             IF e.run = r /\ e.what \in Questions THEN e.what ELSE QuestionAt(cursor, r)
  BY <1>1, <1>3, LogSteps DEF Steps
<1>7. /\ DOMAIN Nothing = {} /\ DOMAIN change = {e.run}
      /\ change[e.run] = e.what /\ cursor + 1 \in -1 .. Len(log)
  BY <1>1, <1>3 DEF Nothing
<1>8. e.what \in Questions => e.what \notin RunStatuses
  BY DEF Questions, RunStatuses, Waiting, Terminal
<1> HIDE DEF e, change
<1>9. CatchesUp(cursor + 1)
  <2>1. CASE e.what \in Questions
    <3>1. Deliver(Nothing, change)
      BY <1>4, <2>1
    <3>2. \A r \in Runs \ DOMAIN Nothing : StatusAt(cursor + 1, r) = StatusAt(cursor, r)
      BY <1>6, <1>8, <2>1
    <3>3. /\ \A r \in DOMAIN change : change[r] = QuestionAt(cursor + 1, r)
          /\ \A r \in Runs \ DOMAIN change : QuestionAt(cursor + 1, r) = QuestionAt(cursor, r)
      BY <1>5, <1>6, <1>7, <2>1
    <3>4. /\ DOMAIN Nothing \subseteq Runs /\ DOMAIN change \subseteq Runs
          /\ \A r \in DOMAIN Nothing : Nothing[r] = StatusAt(cursor + 1, r)
      BY <1>5, <1>7
    <3> QED BY <1>7, <3>1, <3>2, <3>3, <3>4, DeliverCatchesUp
  <2>2. CASE e.what \notin Questions
    <3>1. Deliver(change, Nothing)
      BY <1>4, <2>2
    <3>2. \A r \in Runs \ DOMAIN Nothing : QuestionAt(cursor + 1, r) = QuestionAt(cursor, r)
      BY <1>6, <2>2
    <3>3. /\ \A r \in DOMAIN change : change[r] = StatusAt(cursor + 1, r)
          /\ \A r \in Runs \ DOMAIN change : StatusAt(cursor + 1, r) = StatusAt(cursor, r)
      BY <1>5, <1>6, <1>7, <2>2
    <3>4. /\ DOMAIN Nothing \subseteq Runs /\ DOMAIN change \subseteq Runs
          /\ \A r \in DOMAIN Nothing : Nothing[r] = QuestionAt(cursor + 1, r)
      BY <1>5, <1>7
    <3> QED BY <1>7, <3>1, <3>2, <3>3, <3>4, DeliverCatchesUp
  <2> QED BY <2>1, <2>2
<1> QED BY <1>1, <1>3, <1>4, <1>9

\* To catch up is to advance as the promise says, or to show nothing when
\* there is nothing new.
LEMMA CatchingUpAdvances ==
  ASSUME StreamInv, ~failure, NEW n \in -1 .. Len(log), cursor <= n, CatchesUp(n), cursor' = n,
         UNCHANGED <<log, failure>>
  PROVE  Advance \/ UNCHANGED <<log, feed>>
<1>1. cursor \in Int /\ Len(log) \in Nat
  BY DEF StreamInv, StreamTypes, History, LogOK
<1>2. CASE n # cursor
  <2>1. n \in cursor + 1 .. Len(log)
    BY <1>1, <1>2
  <2>2. Advance
    BY <2>1 DEF CatchesUp, Of, Advance
  <2> QED BY <2>2
<1>3. CASE n = cursor
  <2>1. ASSUME NEW k \in Transitions(cursor) PROVE FALSE
    <3>1. PICK r \in Runs, what \in {"ended", "asks", "answered"} : k = <<r, what>>
      BY TransitionsAre DEF Questions
    <3>2. /\ <<r, "ended">> \in shown <=> StatusAt(cursor, r) \in Terminal
          /\ <<r, "answered">> \in shown
               <=> <<r, "asks">> \in shown /\ QuestionAt(cursor, r) = "answered"
          /\ QuestionAt(cursor, r) = "asks" => <<r, "asks">> \in shown
      BY DEF StreamInv, ViewAtCursor, QuestionsShown
    <3> QED BY <3>1, <3>2, TransitionsAre
  <2>2. Transitions(cursor) = {} /\ NewlyHeld(cursor) = {}
    BY <2>1 DEF NewlyHeld
  <2>3. Of(cursor, "asks") = {} /\ Of(cursor, "answered") = {} /\ Keys("held", NewlyHeld(cursor)) = {}
    BY <2>2 DEF Of, Keys
  <2>4. queue' = queue \o <<>> \o <<>> \o <<>> /\ shown' = shown
    BY <1>3, <2>2, <2>3, EmptySetToSeq DEF CatchesUp
  <2>5. queue' = queue
    BY <2>4 DEF StreamInv, StreamTypes
  <2> QED BY <1>3, <2>4, <2>5 DEF feed
<1> QED BY <1>2, <1>3

-----------------------------------------------------------------------------
(* The steps of the stream: each preserves the inductive invariant, and is *)
(* one that the promise of T3Thread allows.                                *)

Promised == Thread \/ Advance \/ GiveUp \/ Take \/ UNCHANGED <<log, feed>>

LEMMA CatchingUpStep ==
  ASSUME StreamInv, ~failure, NEW n \in -1 .. Len(log), cursor <= n, CatchesUp(n), cursor' = n,
         UNCHANGED <<log, failure>>, started' \subseteq Runs,
         sub' \in Subscription, sub'.on # "over", NoGap'
  PROVE  StreamInv' /\ Promised
<1>1. Promised
  BY CatchingUpAdvances DEF Promised
<1>2. History'
  BY HistoryNext DEF StreamInv
<1>3. queue' \in Seq(Waits)
  BY WaitsTyped
<1>4. /\ ViewAtCursor' /\ QuestionsShown'
      /\ shown' \subseteq Runs \X ({"ended"} \cup Questions)
      /\ views' \in [Runs -> RunStatuses \cup {"none"}]
      /\ held' \subseteq Runs
  BY CaughtUpView
<1>5. StreamTypes'
  <2>1. failure' \in BOOLEAN /\ failure' = FALSE /\ cursor' \in -1 .. Len(log')
    BY DEF StreamInv, StreamTypes
  <2> QED BY <1>3, <1>4, <2>1 DEF StreamTypes
<1> QED BY <1>1, <1>2, <1>4, <1>5 DEF StreamInv

LEMMA TakeSnapshotStep == StreamInv /\ TakeSnapshot => StreamInv' /\ Promised
<1> SUFFICES ASSUME StreamInv, TakeSnapshot PROVE StreamInv' /\ Promised
  OBVIOUS
<1>1. /\ sub.snap \in 0 .. Len(log) /\ cursor <= sub.snap
      /\ CatchesUp(sub.snap) /\ cursor' = sub.snap
  BY SnapshotCatchesUp
<1>2. /\ sub \in Subscription /\ NoGap /\ started \subseteq Runs
      /\ Len(log) \in Nat /\ failure \in BOOLEAN /\ (failure <=> sub.on = "over")
  BY DEF StreamInv, StreamTypes, History, LogOK
<1>3. sub' = [sub EXCEPT !.snap = -1] /\ UNCHANGED <<log, failure>>
  BY DEF TakeSnapshot, Received
<1>4. /\ sub' \in Subscription /\ sub'.snap = -1 /\ sub'.on = sub.on
      /\ sub'.pos = sub.pos /\ sub'.upto = sub.upto
  BY <1>2, <1>3 DEF Subscription
<1>5. sub.on \in {"on", "lost"} /\ ~failure
  BY <1>1, <1>2 DEF NoGap, Subscription
<1>6. NoGap'
  BY <1>1, <1>2, <1>3, <1>4 DEF NoGap
<1>7. started' \subseteq Runs
  BY <1>2 DEF TakeSnapshot, Deliver
<1>8. sub.snap \in -1 .. Len(log)
  BY <1>1
<1>9. sub'.on # "over"
  BY <1>4, <1>5
<1> QED BY <1>1, <1>3, <1>4, <1>5, <1>6, <1>7, <1>8, <1>9, CatchingUpStep

\* A step that leaves the cursor and the mapper alone.
LEMMA KeptStep ==
  ASSUME StreamInv, UNCHANGED <<cursor, shown, views, started, held>>, Thread \/ UNCHANGED log,
         queue' \in Seq(Waits), failure' \in BOOLEAN,
         sub' \in Subscription, failure' <=> sub'.on = "over", NoGap'
  PROVE  StreamInv'
<1>1. History' /\ History
  BY HistoryNext DEF StreamInv
<1>2. Len(log') \in Nat /\ Len(log) \in Nat /\ Lengthened
  <2>1. CASE Thread
    <3>1. PICK r \in Runs, what \in RunStatuses \cup Questions : Grown(r, what)
      BY <2>1, ThreadGrows
    <3> QED BY <1>1, <3>1 DEF Grown, History, LogOK, Lengthened
  <2> QED BY <1>1, <2>1 DEF History, LogOK, Lengthened
<1>3. StreamTypes'
  BY <1>2 DEF Lengthened, StreamInv, StreamTypes
<1>4. ASSUME NEW r \in Runs
      PROVE  /\ StatusAt(cursor, r)' = StatusAt(cursor, r)
             /\ QuestionAt(cursor, r)' = QuestionAt(cursor, r)
  <2>1. PICK n \in -1 .. Len(log) : n = cursor /\ n = cursor'
    BY DEF StreamInv, StreamTypes
  <2>2. StatusAt(n, r)' = StatusAt(n, r) /\ QuestionAt(n, r)' = QuestionAt(n, r)
    BY <1>1, <1>2, Stable DEF History
  <2>3. /\ StatusAt(cursor, r)' = StatusAt(n, r)' /\ QuestionAt(cursor, r)' = QuestionAt(n, r)'
    BY <2>1
  <2> QED BY <2>1, <2>2, <2>3
<1>5. ViewAtCursor' /\ QuestionsShown'
  BY <1>4 DEF StreamInv, ViewAtCursor, QuestionsShown
<1> QED BY <1>1, <1>3, <1>5 DEF StreamInv

\* A step of the subscription alone.
LEMMA QuietStep ==
  ASSUME StreamInv, UNCHANGED <<log, feed, views, started, held>>,
         sub' \in Subscription, sub'.on = "over" <=> sub.on = "over", NoGap'
  PROVE  StreamInv' /\ Promised
<1>1. queue' \in Seq(Waits) /\ failure' \in BOOLEAN /\ (failure' <=> sub'.on = "over")
  BY DEF StreamInv, StreamTypes, feed
<1> QED BY <1>1, KeptStep DEF Promised, feed

LEMMA TakeEventStep == StreamInv /\ TakeEvent => StreamInv' /\ Promised
<1> SUFFICES ASSUME StreamInv, TakeEvent PROVE StreamInv' /\ Promised
  OBVIOUS
<1>1. /\ sub \in Subscription /\ NoGap /\ started \subseteq Runs
      /\ Len(log) \in Nat /\ failure \in BOOLEAN /\ (failure <=> sub.on = "over")
      /\ cursor \in -1 .. Len(log)
  BY DEF StreamInv, StreamTypes, History, LogOK
<1>2. /\ sub.on \in {"on", "lost"} /\ sub.snap = -1
      /\ IF sub.on = "on" THEN sub.pos <= Len(log) ELSE sub.pos <= sub.upto
      /\ sub' = [sub EXCEPT !.pos = @ + 1] /\ UNCHANGED <<log, failure>>
  BY DEF TakeEvent, Remaining, Received
<1>3. /\ sub' \in Subscription /\ sub'.snap = -1 /\ sub'.on = sub.on
      /\ sub'.pos = sub.pos + 1 /\ sub'.upto = sub.upto
  BY <1>1, <1>2 DEF Subscription
<1>4. CASE Replayed(sub.pos)
  <2>1. UNCHANGED <<feed, views, started, held>>
    BY <1>2, <1>4 DEF TakeEvent, feed
  <2>2. sub'.pos <= cursor' + 1 /\ sub'.pos \in 1 .. Len(log) + 1
    BY <1>1, <1>2, <1>3, <1>4, <2>1 DEF Replayed, NoGap, Subscription, feed
  <2>3. NoGap'
    BY <1>1, <1>2, <1>3, <2>1, <2>2 DEF NoGap
  <2> QED BY <1>2, <1>3, <2>1, <2>3, QuietStep
<1>5. CASE ~Replayed(sub.pos)
  <2>1. /\ cursor + 1 \in 1 .. Len(log) /\ sub.pos = cursor + 1
        /\ CatchesUp(cursor + 1) /\ cursor' = cursor + 1
    BY <1>5, EventCatchesUp
  <2>2. NoGap'
    BY <1>1, <1>2, <1>3, <2>1 DEF NoGap
  <2>3. started' \subseteq Runs
    <3>1. log[sub.pos] \in Event
      BY <1>1, <2>1 DEF StreamInv, History, LogOK
    <3> QED BY <1>1, <1>5, <3>1 DEF TakeEvent, Deliver, Event, Nothing
  <2>4. cursor + 1 \in -1 .. Len(log) /\ cursor <= cursor + 1 /\ ~failure /\ sub'.on # "over"
    BY <1>1, <1>2, <1>3, <2>1
  <2> QED BY <1>2, <1>3, <2>1, <2>2, <2>3, <2>4, CatchingUpStep
<1> QED BY <1>4, <1>5

LEMMA SubscriptionSteps ==
  ASSUME StreamInv, Subscribe \/ SubscriptionLost \/ SubscribeFails \/ Resubscribe
  PROVE  StreamInv' /\ Promised
<1>1. /\ sub \in Subscription /\ NoGap /\ Len(log) \in Nat /\ cursor \in -1 .. Len(log)
  BY DEF StreamInv, StreamTypes, History, LogOK
<1>2. CASE Subscribe
  <2> DEFINE n == Len(log)
  <2>1. PICK s \in -1 .. n, p \in 1 .. n + 1 :
          /\ sub' = [on |-> "on", snap |-> s, pos |-> p, upto |-> 0]
          /\ s = n \/ (s = -1 /\ p = cursor + 1)
    <3>1. CASE \E p \in {n - 1, n, n + 1} \cap 1 .. (n + 1) :
                 sub' = [on |-> "on", snap |-> n, pos |-> p, upto |-> 0]
      BY <1>1, <3>1
    <3>2. CASE cursor >= 0 /\ sub' = [on |-> "on", snap |-> -1, pos |-> cursor + 1, upto |-> 0]
      BY <1>1, <3>2
    <3> QED BY <1>2, <3>1, <3>2 DEF Subscribe
  <2>2. UNCHANGED <<log, feed, views, started, held>> /\ sub.on = "off"
    BY <1>2 DEF Subscribe
  <2>3. /\ sub' \in Subscription /\ sub'.on = "on" /\ sub'.snap = s
        /\ sub'.pos = p /\ sub'.upto = 0
    BY <1>1, <2>1 DEF Subscription
  <2>4. NoGap'
    BY <1>1, <2>1, <2>2, <2>3 DEF NoGap, feed
  <2> QED BY <2>2, <2>3, <2>4, QuietStep
<1>3. CASE SubscriptionLost
  <2>1. /\ sub.on = "on" /\ sub' = [sub EXCEPT !.on = "lost", !.upto = Len(log)]
        /\ UNCHANGED <<log, feed, views, started, held>>
    BY <1>3 DEF SubscriptionLost
  <2>2. /\ sub' \in Subscription /\ sub'.on = "lost" /\ sub'.snap = sub.snap
        /\ sub'.pos = sub.pos /\ sub'.upto = Len(log)
    <3>1. sub' = [on |-> "lost", snap |-> sub.snap, pos |-> sub.pos, upto |-> Len(log)]
      BY <1>1, <2>1 DEF Subscription
    <3>2. sub.snap \in Int /\ sub.pos \in Int /\ Len(log) \in Int
      BY <1>1 DEF Subscription
    <3> QED BY <3>1, <3>2 DEF Subscription
  <2>3. NoGap'
    BY <1>1, <2>1, <2>2 DEF NoGap, feed
  <2> QED BY <2>1, <2>2, <2>3, QuietStep
<1>4. CASE SubscribeFails \/ Resubscribe
  <2>1. PICK on \in {"off", "lost"} : sub' = [on |-> on, snap |-> -1, pos |-> 1, upto |-> 0]
    BY <1>4 DEF SubscribeFails, Resubscribe, NoSub
  <2>2. UNCHANGED <<log, feed, views, started, held>> /\ sub.on # "over"
    BY <1>4 DEF SubscribeFails, Resubscribe, Drained
  <2>3. /\ sub' \in Subscription /\ sub'.on = on /\ sub'.snap = -1
        /\ sub'.pos = 1 /\ sub'.upto = 0
    BY <2>1 DEF Subscription
  <2>4. NoGap'
    BY <1>1, <2>2, <2>3 DEF NoGap, feed
  <2> QED BY <2>2, <2>3, <2>4, QuietStep
<1> QED BY <1>2, <1>3, <1>4

LEMMA GivingUpStep ==
  ASSUME StreamInv, Exhausted \/ BadItem
  PROVE  StreamInv' /\ Promised
<1>1. /\ GiveUp /\ UNCHANGED <<views, started, held>>
      /\ sub' = [on |-> "over", snap |-> -1, pos |-> 1, upto |-> 0]
  BY DEF Exhausted, BadItem, NoSub
<1>2. /\ UNCHANGED <<log, cursor, shown>> /\ failure' = TRUE
      /\ queue' = Append(queue, <<None, "fail">>)
  BY <1>1 DEF GiveUp
<1>3. queue' \in Seq(Waits)
  BY <1>2 DEF StreamInv, StreamTypes, Waits
<1>4. sub' \in Subscription /\ sub'.on = "over" /\ sub'.snap = -1 /\ sub'.pos = 1 /\ sub'.upto = 0
  BY <1>1 DEF Subscription
<1>5. NoGap'
  BY <1>2, <1>4 DEF NoGap, StreamInv, History, LogOK
<1> QED BY <1>1, <1>2, <1>3, <1>4, <1>5, KeptStep DEF Promised

LEMMA ThreadOrTakeStep ==
  ASSUME StreamInv, Thread \/ Take,
         UNCHANGED <<sub, views, started, held, failures, progressed, losses>>
  PROVE  StreamInv' /\ Promised
<1>1. Promised
  BY DEF Promised
<1>2. UNCHANGED <<cursor, shown, failure>> /\ (Thread \/ UNCHANGED log)
  BY DEF Thread, Take, feed
<1>3. queue' \in Seq(Waits)
  BY DEF Thread, Take, feed, StreamInv, StreamTypes
<1>4. Len(log) \in Nat /\ Len(log') \in Nat /\ Len(log) <= Len(log')
  <2>1. CASE Thread
    <3>1. PICK r \in Runs, what \in RunStatuses \cup Questions : Grown(r, what)
      BY <2>1, ThreadGrows
    <3> QED BY <3>1 DEF Grown, StreamInv, History, LogOK
  <2> QED BY <1>2, <2>1 DEF StreamInv, History, LogOK
<1>5. NoGap'
  BY <1>2, <1>4 DEF StreamInv, NoGap
<1>6. /\ sub' \in Subscription /\ failure' \in BOOLEAN /\ (failure' <=> sub'.on = "over")
  BY <1>2 DEF StreamInv, StreamTypes
<1> QED BY <1>1, <1>2, <1>3, <1>5, <1>6, KeptStep

LEMMA StreamNextStep == StreamInv /\ [StreamNext]_streamVars => StreamInv' /\ Promised
<1> SUFFICES ASSUME StreamInv, [StreamNext]_streamVars PROVE StreamInv' /\ Promised
  OBVIOUS
<1>1. CASE TakeSnapshot
  BY <1>1, TakeSnapshotStep
<1>2. CASE TakeEvent
  BY <1>2, TakeEventStep
<1>3. CASE Subscribe \/ SubscriptionLost \/ SubscribeFails \/ Resubscribe
  BY <1>3, SubscriptionSteps
<1>4. CASE Exhausted \/ BadItem
  BY <1>4, GivingUpStep
<1>5. CASE (Thread \/ Take) /\ UNCHANGED <<sub, views, started, held, failures, progressed, losses>>
  BY <1>5, ThreadOrTakeStep
<1>6. CASE UNCHANGED streamVars
  <2>1. NoGap' /\ sub' \in Subscription
    BY <1>6 DEF streamVars, feed, StreamInv, StreamTypes, NoGap
  <2> QED BY <1>6, <2>1, QuietStep DEF streamVars
<1>7. CASE Synchronized
  <2>1. UNCHANGED <<log, feed, views, started, held, sub>>
    BY <1>7 DEF Synchronized, Received, feed
  <2>2. NoGap' /\ sub' \in Subscription
    BY <2>1 DEF feed, StreamInv, StreamTypes, NoGap
  <2> QED BY <2>1, <2>2, QuietStep
<1> QED BY <1>1, <1>2, <1>3, <1>4, <1>5, <1>6, <1>7 DEF StreamNext, StreamPump

LEMMA StreamInitInv == StreamInit => StreamInv
<1> SUFFICES ASSUME StreamInit PROVE StreamInv
  OBVIOUS
<1>1. History
  BY EmptyHistory DEF StreamInit
<1>2. /\ log = <<>> /\ Len(log) = 0 /\ cursor = -1 /\ shown = {} /\ queue = <<>> /\ failure = FALSE
      /\ sub = [on |-> "off", snap |-> -1, pos |-> 1, upto |-> 0]
      /\ views = [r \in Runs |-> "none"] /\ started = {} /\ held = {}
  BY DEF StreamInit, Empty, NoSub
<1>3. <<>> \in Seq(Waits)
  OBVIOUS
<1>4. StreamTypes /\ NoGap
  <2>1. sub \in Subscription /\ sub.on = "off" /\ sub.snap = -1 /\ sub.pos = 1 /\ sub.upto = 0
    BY <1>2 DEF Subscription
  <2>2. views \in [Runs -> RunStatuses \cup {"none"}]
    BY <1>2
  <2>3. StreamTypes
    <3>1. cursor \in -1 .. Len(log) /\ started \subseteq Runs /\ held \subseteq Runs
      BY <1>2
    <3>2. queue \in Seq(Waits)
      BY <1>2, <1>3
    <3>3. shown \subseteq Runs \X ({"ended"} \cup Questions)
      BY <1>2
    <3>4. failure \in BOOLEAN /\ ~failure /\ sub.on # "over"
      BY <1>2, <2>1
    <3> QED BY <2>1, <2>2, <3>1, <3>2, <3>3, <3>4 DEF StreamTypes
  <2>4. NoGap
    BY <1>2, <2>1 DEF NoGap
  <2> QED BY <2>3, <2>4
<1>5. \A r : StatusAt(cursor, r) = "none" /\ QuestionAt(cursor, r) = "none"
  BY <1>2, NothingSaid
<1>6. ViewAtCursor /\ QuestionsShown
  BY <1>2, <1>5 DEF ViewAtCursor, QuestionsShown, Terminal
<1> QED BY <1>1, <1>4, <1>6 DEF StreamInv

-----------------------------------------------------------------------------
(* What waits for the adapter waits there once.                            *)

HeldBefore(n, r) == \E m \in 1 .. n : log[m] = [run |-> r, what |-> "held"]

\* The adapter's queue has a question that was shown, a hold of the queue that
\* the mapper has seen, or the failure of the stream, each of them once.
QueueOnce ==
  /\ IsInjective(queue)
  /\ \A i \in DOMAIN queue :
       \/ queue[i] \in shown
       \/ queue[i] = <<None, "fail">> /\ failure
       \/ \E r \in Runs : queue[i] = <<r, "held">> /\ HeldBefore(cursor, r)

OneHold ==
  \A i, j \in DOMAIN log : log[i].what = "held" /\ log[j].what = "held" => i = j

Budget == failures \in 0 .. MaxAttempts + 1 /\ (failure \/ failures <= MaxAttempts)

QueueInv == QueueOnce /\ OneHold /\ Budget

\* The elements of a set, in a sequence: each of them once.
LEMMA SetToSeqOnce ==
  ASSUME NEW S, IsFiniteSet(S)
  PROVE  /\ SetToSeq(S) \in Seq(S) /\ IsInjective(SetToSeq(S))
         /\ \A i \in DOMAIN SetToSeq(S) : SetToSeq(S)[i] \in S
<1>1. Cardinality(S) \in Nat /\ ExistsBijection(1 .. Cardinality(S), S)
  BY FS_CardinalityType
<1>2. \E f \in [1 .. Cardinality(S) -> S] : IsInjective(f)
  BY <1>1 DEF ExistsBijection, Bijection, Injection
<1>3. SetToSeq(S) \in [1 .. Cardinality(S) -> S] /\ IsInjective(SetToSeq(S))
  BY <1>2 DEF SetToSeq
<1> QED BY <1>1, <1>3

\* Two sequences that have nothing in common, and nothing twice.
LEMMA ConcatOnce ==
  ASSUME NEW T, NEW s \in Seq(T), NEW t \in Seq(T), IsInjective(s), IsInjective(t),
         \A i \in DOMAIN s, j \in DOMAIN t : s[i] # t[j]
  PROVE  /\ s \o t \in Seq(T) /\ IsInjective(s \o t)
         /\ \A i \in DOMAIN (s \o t) : \/ \E j \in DOMAIN s : (s \o t)[i] = s[j]
                                      \/ \E j \in DOMAIN t : (s \o t)[i] = t[j]
<1> DEFINE u == s \o t
<1>1. /\ u \in Seq(T) /\ Len(u) = Len(s) + Len(t) /\ Len(s) \in Nat /\ Len(t) \in Nat
      /\ DOMAIN u = 1 .. Len(u) /\ DOMAIN s = 1 .. Len(s) /\ DOMAIN t = 1 .. Len(t)
  OBVIOUS
<1>2. \A i \in 1 .. Len(u) : u[i] = IF i <= Len(s) THEN s[i] ELSE t[i - Len(s)]
  OBVIOUS
<1> HIDE DEF u
<1>3. \A i \in 1 .. Len(u) :
        \/ i <= Len(s) /\ i \in DOMAIN s /\ u[i] = s[i]
        \/ i > Len(s) /\ i - Len(s) \in DOMAIN t /\ u[i] = t[i - Len(s)]
  BY <1>1, <1>2
<1>4. ASSUME NEW i \in 1 .. Len(u), NEW j \in 1 .. Len(u), u[i] = u[j]
      PROVE  i = j
  <2>1. CASE i <= Len(s) /\ j <= Len(s)
    <3>1. i \in DOMAIN s /\ j \in DOMAIN s /\ s[i] = s[j]
      BY <1>1, <1>3, <1>4, <2>1
    <3> QED BY <3>1 DEF IsInjective
  <2>2. CASE i > Len(s) /\ j > Len(s)
    <3>1. i - Len(s) \in DOMAIN t /\ j - Len(s) \in DOMAIN t /\ t[i - Len(s)] = t[j - Len(s)]
      BY <1>1, <1>3, <1>4, <2>2
    <3>2. i - Len(s) = j - Len(s)
      BY <3>1 DEF IsInjective
    <3> QED BY <1>1, <3>2
  <2>3. CASE i <= Len(s) /\ j > Len(s)
    <3>1. i \in DOMAIN s /\ j - Len(s) \in DOMAIN t /\ s[i] = t[j - Len(s)]
      BY <1>1, <1>3, <1>4, <2>3
    <3> QED BY <3>1
  <2>4. CASE i > Len(s) /\ j <= Len(s)
    <3>1. j \in DOMAIN s /\ i - Len(s) \in DOMAIN t /\ s[j] = t[i - Len(s)]
      BY <1>1, <1>3, <1>4, <2>4
    <3> QED BY <3>1
  <2> QED BY <1>1, <2>1, <2>2, <2>3, <2>4
<1>5. IsInjective(u)
  BY <1>1, <1>4 DEF IsInjective
<1> QED BY <1>1, <1>3, <1>5 DEF u

\* A run that is newly held was not held before: its hold is after the cursor.
LEMMA NewHoldIsNew ==
  ASSUME StreamInv, OneHold, NEW n \in -1 .. Len(log), cursor <= n, NEW r \in NewlyHeld(n)
  PROVE  ~HeldBefore(cursor, r) /\ HeldBefore(n, r)
<1> DEFINE I == {i \in 1 .. n : log[i].run = r /\ log[i].what \in RunStatuses}
           J == {i \in 1 .. cursor : log[i].run = r /\ log[i].what \in RunStatuses}
           m == Max(I)
<1>1. LogOK /\ Len(log) \in Nat /\ cursor \in -1 .. n
  BY DEF StreamInv, StreamTypes, History, LogOK
<1>2. r \in Runs /\ Latest(I) = "held" /\ Latest(J) # "held"
  BY DEF NewlyHeld, StatusAt
<1>3. I # {} /\ n \in Int /\ I \subseteq 1 .. n
  BY <1>2 DEF Latest
<1>4. m \in I /\ (\A i \in I : m >= i) /\ log[m].what = "held"
  <2> HIDE DEF I
  <2>1. Max(I) \in I /\ (\A i \in I : Max(I) >= i) /\ Latest(I) = log[Max(I)].what
    BY <1>3, MaxIsMax, LatestIsSaid
  <2> QED BY <1>2, <2>1
<1>5. m \in DOMAIN log /\ log[m] \in Event /\ log[m].run = r
  BY <1>1, <1>4 DEF LogOK
<1>6. log[m] = [run |-> r, what |-> "held"]
  BY <1>4, <1>5 DEF Event
<1>7. HeldBefore(n, r)
  BY <1>4, <1>6 DEF HeldBefore
<1>8. ASSUME HeldBefore(cursor, r) PROVE FALSE
  <2>1. PICK k \in 1 .. cursor : log[k] = [run |-> r, what |-> "held"]
    BY <1>8 DEF HeldBefore
  <2>2. k = m
    BY <1>1, <1>4, <1>5, <2>1 DEF OneHold, LogOK
  <2>3. m \in J /\ cursor \in Int /\ J \subseteq 1 .. cursor /\ \A i \in J : i \in I
    BY <1>1, <1>4, <2>1, <2>2
  <2> HIDE DEF J, I
  <2>4. Max(J) \in J /\ (\A i \in J : Max(J) >= i) /\ Latest(J) = log[Max(J)].what
    BY <2>3, MaxIsMax, LatestIsSaid
  <2>5. Max(J) >= m /\ m >= Max(J) /\ Max(J) \in Int /\ m \in Int
    <3> HIDE DEF m
    <3>1. Max(J) \in I /\ m \in J
      BY <2>3, <2>4
    <3>2. Max(J) \in 1 .. n /\ m \in 1 .. n
      BY <1>3, <1>4, <3>1
    <3> QED BY <1>4, <2>4, <3>1, <3>2
  <2>6. Max(J) = m
    BY <2>5
  <2> QED BY <1>2, <1>4, <2>4, <2>6
<1> QED BY <1>7, <1>8

LEMMA CatchingUpQueue ==
  ASSUME StreamInv, QueueInv, NEW n \in -1 .. Len(log), cursor <= n, CatchesUp(n), cursor' = n,
         UNCHANGED <<log, failure>>
  PROVE  QueueOnce'
<1> DEFINE h == Keys("held", NewlyHeld(n))
           a == Of(n, "asks")
           b == Of(n, "answered")
           sh == SetToSeq(h)
           sa == SetToSeq(a)
           sb == SetToSeq(b)
<1>1. /\ queue \in Seq(Waits) /\ IsInjective(queue)
      /\ shown \subseteq Runs \X ({"ended"} \cup Questions) /\ cursor \in -1 .. n
  BY DEF StreamInv, StreamTypes, QueueInv, QueueOnce, History, LogOK
<1>2. /\ \A k \in h : k[2] = "held" /\ \E r \in NewlyHeld(n) : k = <<r, "held">>
      /\ \A k \in a : k[2] = "asks" /\ k \in Transitions(n) /\ k \notin shown
      /\ \A k \in b : k[2] = "answered" /\ k \in Transitions(n) /\ k \notin shown
  BY DEF Keys, Of, Transitions
<1>3. h \subseteq Runs \X {"held"} /\ a \subseteq Runs \X {"asks"} /\ b \subseteq Runs \X {"answered"}
  <2>1. h \subseteq Runs \X {"held"}
    BY DEF Keys, NewlyHeld
  <2>2. ASSUME NEW what, NEW k \in Of(n, what)
        PROVE  k \in Runs \X {what}
    <3>1. k \in Runs \X ({"ended"} \cup Questions) /\ k[2] = what
      BY TransitionsAre DEF Of
    <3> QED BY <3>1
  <2> QED BY <2>1, <2>2
<1> HIDE DEF h, a, b
<1>4. /\ h \in SUBSET Waits /\ a \in SUBSET Waits /\ b \in SUBSET Waits
      /\ IsFiniteSet(h) /\ IsFiniteSet(a) /\ IsFiniteSet(b)
  BY <1>3, KeysAreFinite DEF Waits, Questions
<1>5. /\ sh \in Seq(Waits) /\ IsInjective(sh) /\ \A i \in DOMAIN sh : sh[i] \in h
      /\ sa \in Seq(Waits) /\ IsInjective(sa) /\ \A i \in DOMAIN sa : sa[i] \in a
      /\ sb \in Seq(Waits) /\ IsInjective(sb) /\ \A i \in DOMAIN sb : sb[i] \in b
  BY <1>4, SetToSeqIsSeq, SetToSeqOnce
<1>6. queue' = queue \o sh \o sa \o sb
  BY DEF CatchesUp, h, a, b
<1> HIDE DEF sh, sa, sb
<1>7. ASSUME NEW i \in DOMAIN queue
      PROVE  /\ queue[i] \in shown \/ queue[i][2] \in {"fail", "held"}
             /\ queue[i] \notin h
  <2>1. CASE queue[i] \in shown
    <3>1. queue[i][2] \in {"ended", "asks", "answered"}
      BY <1>1, <2>1 DEF Questions
    <3> QED BY <1>2, <2>1, <3>1
  <2>2. CASE queue[i] = <<None, "fail">>
    BY <1>2, <2>2
  <2>3. CASE \E r \in Runs : queue[i] = <<r, "held">> /\ HeldBefore(cursor, r)
    <3>1. PICK r \in Runs : queue[i] = <<r, "held">> /\ HeldBefore(cursor, r)
      BY <2>3
    <3>2. ASSUME queue[i] \in h PROVE FALSE
      <4>1. PICK x \in NewlyHeld(n) : queue[i] = <<x, "held">>
        BY <1>2, <3>2
      <4>2. x = r
        BY <3>1, <4>1
      <4> QED BY <3>1, <4>1, <4>2, NewHoldIsNew DEF QueueInv
    <3> QED BY <3>1, <3>2
  <2> QED BY <2>1, <2>2, <2>3 DEF QueueInv, QueueOnce
<1> DEFINE q1 == queue \o sh
           q2 == q1 \o sa
           q3 == q2 \o sb
<1>8. /\ q1 \in Seq(Waits) /\ IsInjective(q1)
      /\ \A i \in DOMAIN q1 : (\E j \in DOMAIN queue : q1[i] = queue[j]) \/ q1[i] \in h
  <2>1. \A i \in DOMAIN queue, j \in DOMAIN sh : queue[i] # sh[j]
    BY <1>5, <1>7
  <2>2. /\ q1 \in Seq(Waits) /\ IsInjective(q1)
        /\ \A i \in DOMAIN q1 : \/ \E j \in DOMAIN queue : q1[i] = queue[j]
                               \/ \E j \in DOMAIN sh : q1[i] = sh[j]
    <3>1. /\ queue \in Seq(Waits) /\ sh \in Seq(Waits)
          /\ IsInjective(queue) /\ IsInjective(sh)
      BY <1>1, <1>5
    <3> QED BY <2>1, <3>1, ConcatOnce
  <2> HIDE DEF q1
  <2> QED BY <1>5, <2>2
<1> HIDE DEF q1
<1>9. /\ q2 \in Seq(Waits) /\ IsInjective(q2)
      /\ \A i \in DOMAIN q2 : (\E j \in DOMAIN queue : q2[i] = queue[j]) \/ q2[i] \in h \cup a
  <2>1. \A i \in DOMAIN q1, j \in DOMAIN sa : q1[i] # sa[j]
    BY <1>2, <1>5, <1>7, <1>8
  <2>2. /\ q2 \in Seq(Waits) /\ IsInjective(q2)
        /\ \A i \in DOMAIN q2 : \/ \E j \in DOMAIN q1 : q2[i] = q1[j]
                               \/ \E j \in DOMAIN sa : q2[i] = sa[j]
    <3>1. /\ q1 \in Seq(Waits) /\ sa \in Seq(Waits)
          /\ IsInjective(q1) /\ IsInjective(sa)
      BY <1>5, <1>8
    <3> QED BY <2>1, <3>1, ConcatOnce
  <2> HIDE DEF q2
  <2> QED BY <1>5, <1>8, <2>2
<1> HIDE DEF q2
<1>10. /\ IsInjective(q3)
       /\ \A i \in DOMAIN q3 : (\E j \in DOMAIN queue : q3[i] = queue[j]) \/ q3[i] \in h \cup a \cup b
  <2>1. \A i \in DOMAIN q2, j \in DOMAIN sb : q2[i] # sb[j]
    BY <1>2, <1>5, <1>7, <1>9
  <2>2. /\ IsInjective(q3)
        /\ \A i \in DOMAIN q3 : \/ \E j \in DOMAIN q2 : q3[i] = q2[j]
                               \/ \E j \in DOMAIN sb : q3[i] = sb[j]
    <3>1. /\ q2 \in Seq(Waits) /\ sb \in Seq(Waits)
          /\ IsInjective(q2) /\ IsInjective(sb)
      BY <1>5, <1>9
    <3> QED BY <2>1, <3>1, ConcatOnce
  <2> HIDE DEF q3
  <2> QED BY <1>5, <1>9, <2>2
<1>11. queue' = q3
  BY <1>6 DEF q1, q2
<1> HIDE DEF q3
<1>12. ASSUME NEW i \in DOMAIN queue'
       PROVE  \/ queue'[i] \in shown'
              \/ queue'[i] = <<None, "fail">> /\ failure'
              \/ \E r \in Runs : queue'[i] = <<r, "held">> /\ HeldBefore(n, r)
  <2>1. shown' = shown \cup Transitions(n)
    BY DEF CatchesUp
  <2>2. CASE \E j \in DOMAIN queue : queue'[i] = queue[j]
    <3>1. \A r : HeldBefore(cursor, r) => HeldBefore(n, r)
      BY <1>1 DEF HeldBefore
    <3> QED BY <2>1, <2>2, <3>1 DEF QueueInv, QueueOnce
  <2>3. CASE queue'[i] \in h
    <3>1. PICK r \in NewlyHeld(n) : queue'[i] = <<r, "held">>
      BY <1>2, <2>3
    <3>2. r \in Runs /\ HeldBefore(n, r)
      BY NewHoldIsNew DEF NewlyHeld, QueueInv
    <3> QED BY <3>1, <3>2
  <2>4. CASE queue'[i] \in a \cup b
    BY <1>2, <2>1, <2>4
  <2> QED BY <1>10, <1>11, <2>2, <2>3, <2>4
<1>13. \A r : HeldBefore(cursor, r)' <=> HeldBefore(n, r)
  BY DEF HeldBefore
<1> QED BY <1>10, <1>11, <1>12, <1>13 DEF QueueOnce

LEMMA OneHoldStep ==
  ASSUME LogOK, OneHold, Thread \/ UNCHANGED log
  PROVE  OneHold'
<1>1. CASE Thread
  <2>1. PICK r \in Runs, what \in RunStatuses \cup Questions : Grown(r, what)
    BY <1>1, ThreadGrows
  <2> DEFINE N == Len(log)
  <2>2. /\ N \in Nat /\ DOMAIN log = 1 .. N /\ DOMAIN log' = 1 .. N + 1
        /\ \A i \in 1 .. N : log'[i] = log[i]
        /\ log'[N + 1].what = what
    BY <2>1 DEF Grown, LogOK
  <2>3. what = "held" => \A i \in 1 .. N : log[i].what # "held"
    BY <2>1, <2>2 DEF Grown, Once
  <2> HIDE DEF N
  <2> QED BY <2>2, <2>3 DEF OneHold
<1>2. CASE UNCHANGED log
  BY <1>2 DEF OneHold
<1> QED BY <1>1, <1>2

\* A step that shows nothing new.
LEMMA KeptQueue ==
  ASSUME StreamInv, QueueInv, UNCHANGED <<cursor, shown>>, Thread \/ UNCHANGED log,
         failure => failure',
         \/ queue' = queue
         \/ queue # <<>> /\ queue' = Tail(queue)
         \/ ~failure /\ failure' /\ queue' = Append(queue, <<None, "fail">>)
  PROVE  QueueOnce'
<1>1. /\ queue \in Seq(Waits) /\ IsInjective(queue) /\ cursor \in -1 .. Len(log) /\ LogOK
      /\ shown \subseteq Runs \X ({"ended"} \cup Questions)
  BY DEF StreamInv, StreamTypes, QueueInv, QueueOnce, History
<1>2. ASSUME NEW r, HeldBefore(cursor, r) PROVE HeldBefore(cursor, r)'
  <2>1. PICK m \in 1 .. cursor : log[m] = [run |-> r, what |-> "held"]
    BY <1>2 DEF HeldBefore
  <2>2. log'[m] = log[m]
    <3>1. CASE Thread
      <4>1. PICK a \in Runs, what \in RunStatuses \cup Questions : Grown(a, what)
        BY <3>1, ThreadGrows
      <4> QED BY <1>1, <4>1 DEF Grown, LogOK
    <3> QED BY <3>1
  <2> QED BY <2>1, <2>2 DEF HeldBefore
<1> DEFINE Good(k) == \/ k \in shown
                      \/ k = <<None, "fail">> /\ failure
                      \/ \E r \in Runs : k = <<r, "held">> /\ HeldBefore(cursor, r)
           GoodNext(k) == \/ k \in shown'
                          \/ k = <<None, "fail">> /\ failure'
                          \/ \E r \in Runs : k = <<r, "held">> /\ HeldBefore(cursor, r)'
<1>3. /\ \A i \in DOMAIN queue : Good(queue[i])
      /\ \A k : Good(k) => GoodNext(k)
  BY <1>2 DEF QueueInv, QueueOnce
<1>4. IsInjective(queue') /\ \A i \in DOMAIN queue' : GoodNext(queue'[i])
  <2>1. CASE queue' = queue
    BY <1>1, <1>3, <2>1
  <2>2. CASE queue # <<>> /\ queue' = Tail(queue)
    <3>1. \A i \in DOMAIN queue' : i + 1 \in DOMAIN queue /\ queue'[i] = queue[i + 1] /\ i \in Int
      BY <1>1, <2>2
    <3>2. IsInjective(queue')
      <4>1. ASSUME NEW i \in DOMAIN queue', NEW j \in DOMAIN queue', queue'[i] = queue'[j]
            PROVE  i = j
        <5>1. i + 1 = j + 1
          BY <1>1, <3>1, <4>1 DEF IsInjective
        <5> QED BY <3>1, <5>1
      <4> QED BY <4>1 DEF IsInjective
    <3> HIDE DEF Good, GoodNext
    <3> QED BY <1>3, <3>1, <3>2
  <2>3. CASE ~failure /\ failure' /\ queue' = Append(queue, <<None, "fail">>)
    <3> DEFINE N == Len(queue)
    <3>1. /\ N \in Nat /\ DOMAIN queue = 1 .. N /\ DOMAIN queue' = 1 .. N + 1
          /\ \A i \in 1 .. N : queue'[i] = queue[i]
          /\ queue'[N + 1] = <<None, "fail">>
      BY <1>1, <2>3
    <3>2. \A i \in 1 .. N : queue[i] # <<None, "fail">>
      <4>1. <<None, "fail">> \notin shown
        BY <1>1 DEF Questions
      <4>2. \A r : <<None, "fail">> # <<r, "held">>
        OBVIOUS
      <4> QED BY <1>3, <2>3, <3>1, <4>1, <4>2
    <3>3. GoodNext(<<None, "fail">>)
      BY <2>3
    <3> HIDE DEF N, Good, GoodNext
    <3>4. \A i \in DOMAIN queue' : GoodNext(queue'[i])
      <4>1. ASSUME NEW i \in 1 .. N + 1 PROVE GoodNext(queue'[i])
        <5>1. i \in 1 .. N \/ i = N + 1
          BY <3>1
        <5> QED BY <1>3, <3>1, <3>3, <5>1
      <4> QED BY <3>1, <4>1
    <3>5. IsInjective(queue')
      BY <1>1, <3>1, <3>2 DEF IsInjective
    <3> QED BY <3>4, <3>5
  <2> QED BY <2>1, <2>2, <2>3
<1> QED BY <1>4 DEF QueueOnce

\* The pump gives up after a number of subscriptions in a row that bring nothing.
LEMMA BudgetStep == StreamInv /\ QueueInv /\ [StreamNext]_streamVars => Budget'
<1> SUFFICES ASSUME StreamInv, QueueInv, [StreamNext]_streamVars PROVE Budget'
  OBVIOUS
<1>1. MaxAttempts \in Nat /\ failure \in BOOLEAN /\ Budget
  BY AttemptsAssumption DEF StreamInv, StreamTypes, QueueInv
<1>2. CASE UNCHANGED failures /\ (failure => failure')
  BY <1>1, <1>2 DEF Budget
<1>3. CASE Resubscribe
  BY <1>1, <1>3 DEF Resubscribe, Failures, Budget
<1>4. CASE Exhausted
  BY <1>1, <1>4 DEF Exhausted, GiveUp, Failures, Budget
<1>5. \/ UNCHANGED failures /\ (failure => failure')
      \/ Resubscribe \/ Exhausted
  BY DEF StreamNext, StreamPump, TakeSnapshot, TakeEvent, Synchronized, Received, Subscribe,
         SubscriptionLost, SubscribeFails, BadItem, GiveUp, Thread, Take, feed, streamVars
<1> QED BY <1>2, <1>3, <1>4, <1>5

LEMMA QueueNextStep == StreamInv /\ QueueInv /\ [StreamNext]_streamVars => QueueInv'
<1> SUFFICES ASSUME StreamInv, QueueInv, [StreamNext]_streamVars PROVE QueueInv'
  OBVIOUS
<1>1. Budget'
  BY BudgetStep
<1>2. Thread \/ UNCHANGED log
  BY DEF StreamNext, StreamPump, TakeSnapshot, TakeEvent, Synchronized, Received, Subscribe,
         SubscriptionLost, SubscribeFails, Resubscribe, Exhausted, BadItem, GiveUp, Take, streamVars
<1>3. OneHold'
  BY <1>2, OneHoldStep DEF StreamInv, History, QueueInv
<1>4. QueueOnce'
  <2>1. CASE TakeSnapshot
    <3>1. sub.snap \in -1 .. Len(log) /\ UNCHANGED <<log, failure>>
      BY <2>1, SnapshotCatchesUp DEF TakeSnapshot, Received
    <3> QED BY <2>1, <3>1, SnapshotCatchesUp, CatchingUpQueue
  <2>2. CASE TakeEvent /\ ~Replayed(sub.pos)
    <3>1. /\ cursor \in Int /\ cursor + 1 \in -1 .. Len(log) /\ cursor <= cursor + 1
          /\ UNCHANGED <<log, failure>> /\ CatchesUp(cursor + 1) /\ cursor' = cursor + 1
      BY <2>2, EventCatchesUp DEF TakeEvent, Received, StreamInv, StreamTypes, History, LogOK
    <3> QED BY <3>1, CatchingUpQueue
  <2>3. CASE UNCHANGED feed
    BY <1>2, <2>3, KeptQueue DEF feed
  <2>4. CASE GiveUp
    BY <2>4, KeptQueue DEF GiveUp
  <2>5. CASE Take
    BY <2>5, KeptQueue DEF Take
  <2>6. \/ TakeSnapshot \/ (TakeEvent /\ ~Replayed(sub.pos))
        \/ UNCHANGED feed \/ GiveUp \/ Take
    BY DEF StreamNext, StreamPump, TakeEvent, Synchronized, Received, Subscribe,
           SubscriptionLost, SubscribeFails, Resubscribe, Exhausted, BadItem, Thread, feed, streamVars
  <2> QED BY <2>1, <2>2, <2>3, <2>4, <2>5, <2>6
<1> QED BY <1>1, <1>3, <1>4 DEF QueueInv

-----------------------------------------------------------------------------
\* The inductive invariant of the stream holds for any runs and bounds.
THEOREM StreamInvariance == StreamSpec => []StreamInv
BY StreamInitInv, StreamNextStep, PTL DEF StreamSpec

\* Every variable of the stream keeps its type, and a transition is waiting for
\* the adapter at most once.
THEOREM StreamTypesHold == StreamSpec => []StreamTypeOK
<1>1. StreamInit => QueueInv
  <2> SUFFICES ASSUME StreamInit PROVE QueueInv
    OBVIOUS
  <2>1. DOMAIN log = {} /\ DOMAIN queue = {} /\ failures = 0
    BY DEF StreamInit, Empty
  <2> QED BY <2>1, AttemptsAssumption DEF QueueInv, QueueOnce, OneHold, Budget, IsInjective
<1>2. StreamInv /\ QueueInv /\ progressed \in BOOLEAN => StreamTypeOK
  <2> SUFFICES ASSUME StreamInv, QueueInv, progressed \in BOOLEAN PROVE StreamTypeOK
    OBVIOUS
  <2>1. sub \in [on : {"off", "on", "lost", "over"}, snap : -1 .. Len(log),
                 pos : 1 .. Len(log) + 1, upto : 0 .. Len(log)]
    BY DEF StreamInv, StreamTypes, NoGap, Subscription
  <2>2. log \in Seq([run : Runs, what : RunStatuses \cup Questions])
    BY DEF StreamInv, History, LogOK, Event
  <2>3. queue \in Seq((Runs \cup {None}) \X (Questions \cup {"held", "fail"})) /\ IsInjective(queue)
    BY DEF StreamInv, StreamTypes, Waits, QueueInv, QueueOnce
  <2> QED BY <2>1, <2>2, <2>3 DEF StreamTypeOK, StreamInv, StreamTypes, QueueInv, Budget
<1>3. StreamInit => progressed \in BOOLEAN
  BY DEF StreamInit
<1>4. progressed \in BOOLEAN /\ [StreamNext]_streamVars => (progressed \in BOOLEAN)'
  BY DEF StreamNext, StreamPump, TakeSnapshot, TakeEvent, Synchronized, Received, Subscribe,
         SubscriptionLost, SubscribeFails, Resubscribe, Exhausted, BadItem, streamVars
<1> QED
  BY StreamInvariance, <1>1, <1>2, <1>3, <1>4, QueueNextStep, PTL DEF StreamSpec

\* The mapper shows the thread as it was at its cursor.
THEOREM ViewHolds == StreamSpec => []ViewAtCursor
<1>1. StreamInv => ViewAtCursor
  BY DEF StreamInv
<1> QED BY StreamInvariance, <1>1, PTL

\* Every step of the stream is one that the promise of T3Thread allows.
THEOREM PromiseKept == StreamSpec => KeepsPromise
<1>1. StreamInit => Empty
  BY DEF StreamInit
<1>2. StreamInv /\ [StreamNext]_streamVars => [Thread \/ Advance \/ GiveUp \/ Take]_<<log, feed>>
  BY StreamNextStep DEF Promised
<1> QED BY StreamInvariance, <1>1, <1>2, PTL DEF StreamSpec, KeepsPromise, Feed

-----------------------------------------------------------------------------
(* The driver: the dispatch of turns.                                      *)

Frame == [id : Turns, turn : Turns, mode : Modes, target : NoRun, live : BOOLEAN]

SendRecord == [at : SendSteps, turn : Turns \cup {None}, target : NoRun,
               mode : Modes, try : 1 .. 2]

DriverTypes ==
  /\ send \in SendRecord
  /\ wire \subseteq Frame
  /\ link \in [Turns -> NoRun]
  /\ landed \in [Turns -> Nat]

\* A send is for a turn, and steers a run that there is; it returns with a
\* turn that T3 has.
Sending ==
  /\ send.at \in SendSteps \ {"idle", "failed"} => send.turn \in Turns
  /\ send.at \in {"dispatch", "wire", "reconcile"} /\ send.mode = "steer" => send.target \in Runs
  /\ send.at = "returned" => Located(send.turn)

\* Every try to send a turn carries the one id of the turn.
SameId == \A f \in wire : f.id = f.turn /\ (f.mode = "steer" => f.target \in Runs)

\* A send waits for the one live frame on the wire.
LiveFrame == \A f \in wire : f.live => send.at = "wire" /\ \A g \in wire : g.live => g = f

\* T3's receipts are the turns that landed, each of them once.
Receipts ==
  \A t \in Turns :
    /\ landed[t] = (IF t \in receipts THEN 1 ELSE 0)
    /\ Located(t) \/ t \in processed => t \in receipts

\* The inductive invariant.
DriverInv == DriverTypes /\ Sending /\ SameId /\ LiveFrame /\ Receipts

-----------------------------------------------------------------------------
\* The initial state satisfies the inductive invariant.
LEMMA DriverInitInv == Init => DriverInv
<1> SUFFICES ASSUME Init PROVE DriverInv
  OBVIOUS
<1>1. NoSend \in SendRecord
  BY DEF NoSend, SendRecord, SendSteps, Modes, NoRun
<1>2. DriverTypes
  BY <1>1 DEF Init, DriverTypes, NoRun
<1>3. Sending /\ SameId /\ LiveFrame /\ Receipts
  BY DEF Init, Sending, SameId, LiveFrame, Receipts, NoSend, SendSteps, Located
<1> QED BY <1>2, <1>3 DEF DriverInv

\* A step of a send that leaves T3, the wire and the ticks alone.
LEMMA SendStep ==
  ASSUME DriverInv, send.at # "wire", send' \in SendRecord, Sending',
         UNCHANGED <<messages, wire, processed>>
  PROVE  DriverInv'
BY DEF DriverInv, DriverTypes, Sending, SameId, LiveFrame, Receipts, Located, messages

\* A step that concerns neither the send, nor T3, nor the ticks.
LEMMA OtherStep ==
  ASSUME DriverInv, UNCHANGED <<link, landed, receipts, wire, processed, send>>
  PROVE  DriverInv'
BY DEF DriverInv, DriverTypes, Sending, SameId, LiveFrame, Receipts, Located

\* T3 takes a frame: a receipt replays, and a new message lands once.
LEMMA TakesStep ==
  ASSUME DriverInv, NEW f \in wire, T3Takes(f)
  PROVE  DriverInv'
<1>1. f \in Frame /\ f.id = f.turn /\ f.turn \in Turns /\ f.turn \in Runs /\ None \notin Runs
      /\ (f.mode = "steer" => f.target \in Runs)
  BY RunsAssumption DEF DriverInv, DriverTypes, SameId, Frame
<1>2. wire' = wire \ {f} /\ UNCHANGED processed
  BY DEF T3Takes, authority
<1>3. /\ link' \in [Turns -> NoRun] /\ landed' \in [Turns -> Nat] /\ Receipts'
      /\ \A t \in Turns : Located(t) => Located(t)'
  <2>1. CASE UNCHANGED messages
    BY <1>2, <2>1 DEF DriverInv, DriverTypes, Receipts, Located, messages
  <2>2. CASE f.id \notin receipts /\ Accepts(f)
    <3>1. /\ receipts' = receipts \cup {f.turn}
          /\ landed' = [landed EXCEPT ![f.turn] = @ + 1]
          /\ landed[f.turn] = 0
      BY <1>1, <2>2 DEF Accepts, DriverInv, Receipts
    <3>2. PICK r \in Runs : link' = [link EXCEPT ![f.turn] = r]
      BY <1>1, <2>2 DEF Accepts
    <3>3. link' \in [Turns -> NoRun] /\ landed' \in [Turns -> Nat]
      BY <1>1, <3>1, <3>2 DEF DriverInv, DriverTypes, NoRun
    <3>4. \A t \in Turns :
            /\ link'[t] = (IF t = f.turn THEN r ELSE link[t])
            /\ landed'[t] = (IF t = f.turn THEN 1 ELSE landed[t])
      BY <1>1, <3>1, <3>2 DEF DriverInv, DriverTypes
    <3>5. r # None
      BY <1>1
    <3> QED BY <1>1, <1>2, <3>1, <3>3, <3>4, <3>5 DEF DriverInv, Receipts, Located
  <2> QED BY <2>1, <2>2 DEF T3Takes
<1>4. CASE f.live
  <2>1. send.at = "wire" /\ send.turn \in Turns /\ \A g \in wire' : ~g.live
    BY <1>2, <1>4 DEF DriverInv, LiveFrame, Sending, SendSteps
  <2>2. send' = [send EXCEPT !.at = "after"] \/ send' = [send EXCEPT !.at = "failed"]
    BY <1>4 DEF T3Takes, Answer
  <2>3. send' \in SendRecord /\ send'.at \in {"after", "failed"} /\ send'.turn = send.turn
    <3>1. CASE send' = [send EXCEPT !.at = "after"]
      BY <3>1 DEF DriverInv, DriverTypes, SendRecord, SendSteps
    <3>2. CASE send' = [send EXCEPT !.at = "failed"]
      BY <3>2 DEF DriverInv, DriverTypes, SendRecord, SendSteps
    <3> QED BY <2>2, <3>1, <3>2
  <2>4. Sending'
    BY <2>1, <2>3 DEF Sending
  <2> QED BY <1>2, <1>3, <2>1, <2>3, <2>4 DEF DriverInv, DriverTypes, SameId, LiveFrame
<1>5. CASE ~f.live
  <2>1. send' = send
    BY <1>5 DEF T3Takes, Answer
  <2>2. Sending'
    BY <1>3, <2>1 DEF DriverInv, Sending, SendSteps, Located
  <2> QED BY <1>2, <1>3, <2>1, <2>2 DEF DriverInv, DriverTypes, SameId, LiveFrame
<1> QED BY <1>4, <1>5

\* The projection was read: the turn is adopted, or is sent in some mode.
LEMMA FetchBeforeStep == DriverInv /\ FetchBefore => DriverInv'
<1> SUFFICES ASSUME DriverInv, FetchBefore PROVE DriverInv'
  OBVIOUS
<1>1. send \in SendRecord /\ send.at = "before" /\ send.turn \in Turns
  BY DEF DriverInv, DriverTypes, Sending, SendSteps, FetchBefore
<1>2. CASE Located(send.turn)
  <2>1. send' = [send EXCEPT !.at = "returned"] /\ UNCHANGED <<messages, wire, processed>>
    BY <1>2 DEF FetchBefore, Handle, authority
  <2>2. send' \in SendRecord /\ Sending'
    BY <1>1, <1>2, <2>1 DEF SendRecord, SendSteps, Sending, Located, messages
  <2> QED BY <1>1, <2>1, <2>2, SendStep
<1>3. CASE ~Located(send.turn)
  <2> DEFINE m == Mode(ActiveRun)
             r == IF m = "steer" THEN CHOOSE x \in ActiveRun : TRUE ELSE None
  <2>1. send' = [send EXCEPT !.at = "dispatch", !.mode = m, !.target = r]
        /\ UNCHANGED <<messages, wire, processed>>
    BY <1>3 DEF FetchBefore, authority
  <2>2. m \in Modes /\ (m = "steer" => ActiveRun # {})
    BY DEF Mode, Modes
  <2>3. r \in NoRun /\ (m = "steer" => r \in Runs)
    BY <2>2 DEF ActiveRun, NoRun
  <2>4. send' \in SendRecord /\ Sending'
    <3> HIDE DEF m, r
    <3> QED BY <1>1, <2>1, <2>2, <2>3 DEF SendRecord, SendSteps, Sending
  <2> QED BY <1>1, <2>1, <2>4, SendStep
<1> QED BY <1>2, <1>3

\* A request is put on the wire.
LEMMA DispatchStep == DriverInv /\ Dispatch => DriverInv'
<1> SUFFICES ASSUME DriverInv, Dispatch PROVE DriverInv'
  OBVIOUS
<1> DEFINE f == [id |-> send.turn, turn |-> send.turn, mode |-> send.mode,
                 target |-> send.target, live |-> TRUE]
<1>1. /\ send \in SendRecord /\ send.at = "dispatch" /\ send.turn \in Turns
      /\ send.mode = "steer" => send.target \in Runs
      /\ \A g \in wire : ~g.live
  BY DEF DriverInv, DriverTypes, Sending, SendSteps, LiveFrame, Dispatch
<1>2. /\ wire' = wire \cup {f} /\ send' = [send EXCEPT !.at = "wire"]
      /\ UNCHANGED <<messages, processed>>
  BY DEF Dispatch, CommandId, authority
<1>3. f \in Frame
  BY <1>1 DEF Frame, SendRecord
<1>4. /\ f.id = send.turn /\ f.turn = send.turn /\ f.live
      /\ f.mode = send.mode /\ f.target = send.target
  OBVIOUS
<1> HIDE DEF f
<1>5. send' \in SendRecord /\ Sending'
  BY <1>1, <1>2 DEF SendRecord, SendSteps, Sending
<1>6. SameId' /\ LiveFrame'
  BY <1>1, <1>2, <1>4, <1>5 DEF DriverInv, SameId, LiveFrame, SendRecord
<1>7. DriverTypes' /\ Receipts'
  BY <1>2, <1>3, <1>5 DEF DriverInv, DriverTypes, Receipts, Located, messages
<1> QED BY <1>5, <1>6, <1>7 DEF DriverInv

\* Nobody waits for the frame any more.
LEMMA RequestLostStep == DriverInv /\ RequestLost => DriverInv'
<1> SUFFICES ASSUME DriverInv, RequestLost PROVE DriverInv'
  OBVIOUS
<1>1. /\ send \in SendRecord /\ send.at = "wire" /\ send.turn \in Turns
      /\ send.mode = "steer" => send.target \in Runs
  BY DEF DriverInv, DriverTypes, Sending, SendSteps, RequestLost
<1>2. send' \in SendRecord /\ Sending'
  BY <1>1 DEF RequestLost, Unanswered, SendRecord, SendSteps, Sending
<1>3. \A g \in wire' : \E f \in wire : g = [f EXCEPT !.live = FALSE]
  BY DEF RequestLost, Abandoned
<1>4. wire' \subseteq Frame /\ SameId' /\ LiveFrame'
  BY <1>3 DEF DriverInv, DriverTypes, Frame, SameId, LiveFrame
<1> QED BY <1>2, <1>4 DEF RequestLost, DriverInv, DriverTypes, Receipts, Located, messages, authority

\* The session is gone, and so is whoever waited for a frame.
LEMMA CloseStep == DriverInv /\ Close => DriverInv'
<1> SUFFICES ASSUME DriverInv, Close PROVE DriverInv'
  OBVIOUS
<1>1. send' \in SendRecord /\ Sending'
  BY DEF Close, NoSend, SendRecord, SendSteps, Modes, NoRun, Sending
<1>2. \A g \in wire' : \E f \in wire : g = [f EXCEPT !.live = FALSE]
  BY DEF Close, Abandoned
<1>3. wire' \subseteq Frame /\ SameId' /\ LiveFrame'
  BY <1>2 DEF DriverInv, DriverTypes, Frame, SameId, LiveFrame
<1> QED BY <1>1, <1>3 DEF Close, DriverInv, DriverTypes, Receipts, Located, messages

\* The other steps of a send, and a reply that comes too late.
LEMMA QuietSendStep ==
  ASSUME DriverInv, \/ \E t \in Turns : Send(t)
               \/ Reconcile \/ FetchAfter \/ SendFails \/ Respond
  PROVE  DriverInv'
<1> USE DEF authority, adapter
<1>1. send \in SendRecord
  BY DEF DriverInv, DriverTypes
<1>2. CASE \E t \in Turns : Send(t)
  <2>1. PICK t \in Turns : Send(t)
    BY <1>2
  <2>2. Delivery \in Modes
    BY DEF Delivery, Modes
  <2>3. send' = [at |-> "before", turn |-> t, target |-> None, mode |-> Delivery, try |-> 1]
    BY <2>1 DEF Send, NoSend
  <2>4. send' \in SendRecord /\ Sending'
    BY <2>2, <2>3 DEF SendRecord, SendSteps, NoRun, Sending
  <2> QED BY <2>1, <2>4, SendStep DEF Send
<1>3. CASE Reconcile
  <2>1. /\ send.at = "reconcile" /\ send.turn \in Turns
        /\ send.mode = "steer" => send.target \in Runs
    BY <1>3 DEF Reconcile, DriverInv, Sending, SendSteps
  <2>2. \/ send' = [send EXCEPT !.at = "after"]
        \/ send' = [send EXCEPT !.at = "dispatch", !.try = 2]
    BY <1>3 DEF Reconcile
  <2>3. send' \in SendRecord /\ Sending'
    <3>1. CASE send' = [send EXCEPT !.at = "after"]
      BY <1>1, <2>1, <3>1 DEF SendRecord, SendSteps, Sending
    <3>2. CASE send' = [send EXCEPT !.at = "dispatch", !.try = 2]
      <4>1. send' = [at |-> "dispatch", turn |-> send.turn, target |-> send.target,
                     mode |-> send.mode, try |-> 2]
        BY <1>1, <3>2 DEF SendRecord
      <4> QED BY <1>1, <2>1, <4>1 DEF SendRecord, SendSteps, Sending
    <3> QED BY <2>2, <3>1, <3>2
  <2> QED BY <1>3, <2>3, SendStep DEF Reconcile
<1>4. CASE FetchAfter
  <2>1. send.turn \in Turns
    BY <1>4 DEF FetchAfter, DriverInv, Sending, SendSteps
  <2>2. \/ send' = [send EXCEPT !.at = "failed"]
        \/ send' = [send EXCEPT !.at = "returned"] /\ Located(send.turn)
    BY <1>4 DEF FetchAfter, Handle
  <2>3. UNCHANGED <<messages, wire, processed>>
    BY <1>4 DEF FetchAfter
  <2>4. send' \in SendRecord /\ Sending'
    BY <1>1, <2>1, <2>2, <2>3 DEF SendRecord, SendSteps, Sending, Located, messages
  <2> QED BY <1>4, <2>3, <2>4, SendStep DEF FetchAfter
<1>5. CASE SendFails
  <2>1. send' \in SendRecord /\ Sending'
    BY <1>1, <1>5 DEF SendFails, SendRecord, SendSteps, Sending
  <2> QED BY <1>5, <2>1, SendStep DEF SendFails
<1>6. CASE Respond
  <2>1. send' = send \/ send' = [send EXCEPT !.at = "failed"]
    BY <1>6 DEF Respond
  <2>2. /\ send.at = "idle"
        /\ UNCHANGED <<messages, wire, processed>>
    BY <1>6 DEF Respond
  <2>3. send' \in SendRecord /\ Sending'
    BY <1>1, <2>1, <2>2 DEF SendRecord, SendSteps, Sending
  <2> QED BY <2>2, <2>3, SendStep
<1> QED BY <1>2, <1>3, <1>4, <1>5, <1>6

\* The authority ticks a turn off: T3 has it.
LEMMA MarkStep == DriverInv /\ MarkProcessed => DriverInv'
<1> SUFFICES ASSUME DriverInv, MarkProcessed PROVE DriverInv'
  OBVIOUS
<1>1. send.turn \in Turns /\ send.turn \in receipts
  BY DEF MarkProcessed, DriverInv, Sending, Receipts, SendSteps
<1>2. send' \in SendRecord /\ Sending'
  BY DEF MarkProcessed, NoSend, SendRecord, SendSteps, Modes, NoRun, Sending
<1> QED
  BY <1>1, <1>2
  DEF MarkProcessed, DriverInv, DriverTypes, SameId, LiveFrame, Receipts, Located, messages

\* Every step preserves the inductive invariant.
LEMMA DriverNextStep == DriverInv /\ [Next]_vars => DriverInv'
<1> SUFFICES ASSUME DriverInv, [Next]_vars PROVE DriverInv'
  OBVIOUS
<1> USE DEF messages, adapter, authority
<1>1. CASE External
  <2>1. CASE \E f \in wire : T3Takes(f)
    BY <2>1, TakesStep
  <2>2. CASE \E r \in Runs : T3Runs(r) \/ \E c \in Restarts : T3Restarts(r, c)
    BY <2>2, OtherStep DEF T3Runs, T3Restarts
  <2> QED BY <1>1, <2>1, <2>2 DEF External
<1>2. CASE Sends
  BY <1>2, QuietSendStep, FetchBeforeStep, DispatchStep, RequestLostStep, MarkStep DEF Sends
<1>3. CASE Gateway
  <2>1. CASE Stream
    BY <2>1, OtherStep DEF Stream
  <2>2. CASE Pump
    BY <2>2, OtherStep DEF Pump
  <2>3. CASE Stall
    BY <2>3, OtherStep DEF Stall
  <2>4. CASE \E t \in Turns : Watches(t)
    BY <2>4, OtherStep DEF Watches, WatcherReads, WatcherLeaves, WatcherTells, WatcherFails
  <2> QED BY <1>3, <2>1, <2>2, <2>3, <2>4 DEF Gateway
<1>4. CASE Open \/ Abort
  BY <1>4, OtherStep DEF Open, Abort
<1>5. CASE Respond
  BY <1>5, QuietSendStep
<1>6. CASE Close
  BY <1>6, CloseStep
<1>7. CASE UNCHANGED vars
  BY <1>7, OtherStep DEF vars
<1> QED BY <1>1, <1>2, <1>3, <1>4, <1>5, <1>6, <1>7 DEF Next

\* The inductive invariant holds in every reachable state, for any turns, runs
\* and bounds on faults, attempts and the thread.
THEOREM DriverInvariance == Spec => []DriverInv
BY DriverInitInv, DriverNextStep, PTL DEF Spec

\* A turn reaches T3 at most once, through lost requests and answers, frames
\* that arrive late, second tries and later attempts of the authority; and one
\* that is marked as processed has reached it (driver.ts sendTurn, the receipts
\* by deterministic ids).
THEOREM TurnsLandOnce == Spec => []OneTurn
<1>1. DriverInv => OneTurn
  BY DEF DriverInv, Receipts, OneTurn
<1> QED BY DriverInvariance, <1>1, PTL

-----------------------------------------------------------------------------
(* The driver: the runs of its thread.                                     *)

\* A run comes from a turn that T3 accepted, or continues another run.
Unused ==
  \A r \in Runs :
    /\ r \in Turns \ receipts => Status(r) = "none"
    /\ r \in Restarts /\ cont[r] = None => Status(r) = "none"

\* Once a run shows as stopped, the one that continues it shows as well.
Succeeds(c, r) ==
  /\ Status(r) = "stopped"
  /\ \A n \in -1 .. Len(log) : StatusAt(n, r) = "stopped" => StatusAt(n, c) # "none"

\* A run that T3 continues is the run of a turn, and is continued in one other.
Continued ==
  \A c \in Restarts : cont[c] # None =>
    /\ cont[c] \in Turns /\ Succeeds(c, cont[c])
    /\ \A d \in Restarts : cont[d] = cont[c] => d = c

ThreadInv ==
  /\ History
  /\ cursor \in -1 .. Len(log) /\ queue \in Seq(Waits)
  /\ cont \in [Restarts -> Turns \cup {None}]
  /\ Unused /\ Continued

\* What no step undoes: the log, the run of a turn, and how T3 continued a run.
Onward ==
  /\ Lengthened
  /\ \A t \in Turns : Located(t) => link'[t] = link[t]
  /\ \A c \in Restarts : cont'[c] = cont[c] \/ (cont[c] = None /\ Status(cont'[c]) = "running")

\* An end is for good, and a run that shows goes on showing.
LEMMA StatusKept ==
  ASSUME History, History', Lengthened, NEW r \in Runs
  PROVE  /\ \A n \in -1 .. Len(log) : StatusAt(n, r)' = StatusAt(n, r)
         /\ Status(r) \in Terminal => Status(r)' = Status(r)
         /\ Status(r) # "none" => \A n \in Len(log) .. Len(log') : StatusAt(n, r)' # "none"
<1>1. PICK N \in Nat, M \in Nat : N = Len(log) /\ M = Len(log') /\ N <= M
  BY DEF History, LogOK, Lengthened
<1>2. \A n \in -1 .. Len(log) : StatusAt(n, r)' = StatusAt(n, r)
  BY Stable DEF History
<1>3. Status(r) = StatusAt(N, r) /\ Status(r)' = StatusAt(M, r)' /\ StatusAt(N, r)' = StatusAt(N, r)
  BY <1>1, <1>2 DEF Status
<1>4. \A n \in N .. M : Grows(N, n)'
  BY <1>1 DEF History
<1> QED BY <1>1, <1>2, <1>3, <1>4 DEF Grows

LEMMA SucceedsStill ==
  ASSUME History, History', Lengthened, NEW c \in Runs, NEW r \in Runs, Succeeds(c, r)
  PROVE  Succeeds(c, r)'
<1>1. PICK N \in Nat, M \in Nat : N = Len(log) /\ M = Len(log') /\ N <= M
  BY DEF History, LogOK, Lengthened
<1>2. Status(c) # "none"
  BY <1>1 DEF Succeeds, Status
<1>3. Status(r)' = "stopped"
  BY StatusKept DEF Succeeds, Terminal
<1>4. ASSUME NEW n \in -1 .. M, StatusAt(n, r)' = "stopped"
      PROVE  StatusAt(n, c)' # "none"
  <2>1. CASE n <= N
    <3>1. StatusAt(n, r)' = StatusAt(n, r) /\ StatusAt(n, c)' = StatusAt(n, c)
      BY <1>1, <2>1, StatusKept
    <3> QED BY <1>1, <1>4, <2>1, <3>1 DEF Succeeds
  <2>2. CASE n >= N
    BY <1>1, <1>2, <2>2, StatusKept
  <2> QED BY <1>1, <2>1, <2>2
<1> QED BY <1>1, <1>3, <1>4 DEF Succeeds

\* The thread says nothing new of a run that it does not have.
Says(r, what) ==
  /\ Grown(r, what)
  /\ what \in RunStatuses => Status(r) # "none" \/ r \in Turns \cap receipts'

LEMMA SaysStep ==
  ASSUME ThreadInv, UNCHANGED log \/ \E r \in Runs, what \in RunStatuses \cup Questions : Says(r, what)
  PROVE  /\ History' /\ Lengthened
         /\ \A r \in Runs : \/ Status(r)' = Status(r)
                            \/ Status(r) # "none" \/ r \in Turns \cap receipts'
<1>1. CASE UNCHANGED log
  <2>1. History'
    BY <1>1, HistoryNext DEF ThreadInv
  <2> QED BY <1>1, <2>1 DEF ThreadInv, History, LogOK, Lengthened, Status, StatusAt, Latest
<1>2. ASSUME NEW a \in Runs, NEW what \in RunStatuses \cup Questions, Says(a, what)
      PROVE  /\ History' /\ Lengthened
             /\ \A r \in Runs : \/ Status(r)' = Status(r)
                                \/ Status(r) # "none" \/ r \in Turns \cap receipts'
  <2>1. History /\ History'
    BY <1>2, HistoryKept DEF Says, ThreadInv
  <2>2. PICK n \in Nat : n = Len(log)
    BY <2>1 DEF History, LogOK
  <2>3. /\ Lengthened /\ Len(log') = n + 1 /\ log'[n + 1] = [run |-> a, what |-> what]
    BY <1>2, <2>1, <2>2 DEF Says, Grown, History, LogOK, Lengthened
  <2>4. ASSUME NEW r \in Runs
        PROVE  /\ Status(r) = StatusAt(n, r) /\ Status(r)' = StatusAt(n + 1, r)'
               /\ StatusAt(n, r)' = StatusAt(n, r)
               /\ StatusAt(n + 1, r)' = IF a = r /\ what \in RunStatuses THEN what
                                        ELSE StatusAt(n, r)'
    <3>1. StatusAt(n, r)' = StatusAt(n, r)
      BY <2>1, <2>2, <2>3, StatusKept
    <3>2. Steps'
      BY <2>1, LogStepsNext DEF History
    <3>3. n < Len(log') /\ log'[n + 1].run = a /\ log'[n + 1].what = what
      BY <2>3
    <3>4. StatusAt(n + 1, r)' = IF a = r /\ what \in RunStatuses THEN what
                                ELSE StatusAt(n, r)'
      BY <3>2, <3>3 DEF Steps
    <3> QED BY <2>2, <2>3, <3>1, <3>4 DEF Status
  <2> QED BY <1>2, <2>1, <2>3, <2>4 DEF Says
<1> QED BY <1>1, <1>2

LEMMA ThreadKept ==
  ASSUME ThreadInv,
         UNCHANGED log \/ \E r \in Runs, what \in RunStatuses \cup Questions : Says(r, what),
         UNCHANGED cont, receipts \subseteq receipts',
         \A t \in Turns : Located(t) => link'[t] = link[t],
         cursor' \in -1 .. Len(log), queue' \in Seq(Waits)
  PROVE  ThreadInv' /\ Onward
<1>1. /\ History /\ History' /\ Lengthened
      /\ \A r \in Runs : \/ Status(r)' = Status(r)
                         \/ Status(r) # "none" \/ r \in Turns \cap receipts'
  BY SaysStep DEF ThreadInv
<1>2. Unused'
  BY <1>1, RunsAssumption DEF ThreadInv, Unused
<1>3. Continued'
  BY <1>1, SucceedsStill, RunsAssumption DEF ThreadInv, Continued
<1>4. cursor' \in -1 .. Len(log')
  BY <1>1 DEF Lengthened, History, LogOK
<1> QED BY <1>1, <1>2, <1>3, <1>4 DEF ThreadInv, Onward

\* T3 continues a run in a new one, and stops it.
LEMMA RestartStep ==
  ASSUME ThreadInv, NEW r \in Runs, NEW c \in Restarts, T3Restarts(r, c)
  PROVE  ThreadInv' /\ Onward
<1>1. PICK N \in Nat : N = Len(log)
  BY DEF ThreadInv, History, LogOK
<1>2. /\ r \in Turns /\ Status(r) = "running" /\ cont[c] = None
      /\ \A d \in Restarts : cont[d] # r
      /\ cont' = [cont EXCEPT ![c] = r]
      /\ UNCHANGED <<link, receipts, cursor, queue>>
  BY DEF T3Restarts, feed
<1>3. c \in Runs /\ c # r /\ r # None
  BY <1>2, RunsAssumption
<1>4. Status(c) = "none"
  BY <1>2, <1>3 DEF ThreadInv, Unused
<1>5. /\ Lengthened /\ Len(log') = N + 2
      /\ log'[N + 1] = [run |-> c, what |-> "queued"]
      /\ log'[N + 2] = [run |-> r, what |-> "stopped"]
  <2>1. [run |-> c, what |-> "queued"] \in Event /\ [run |-> r, what |-> "stopped"] \in Event
    BY <1>3 DEF Event, RunStatuses, Waiting, Terminal
  <2>2. log \in Seq(Event)
    BY DEF ThreadInv, History, LogOK
  <2> HIDE DEF Event
  <2>3. log' = log \o <<[run |-> c, what |-> "queued"], [run |-> r, what |-> "stopped"]>>
    BY DEF T3Restarts
  <2>4. log' \in Seq(Event)
    BY <2>1, <2>2, <2>3
  <2> QED BY <1>1, <2>2, <2>3, <2>4 DEF LogOK, Lengthened
<1>6. ASSUME NEW x \in Runs
      PROVE  /\ Status(x) = StatusAt(N, x) /\ Question(x) = QuestionAt(N, x)
             /\ Status(x)' = StatusAt(N + 2, x)' /\ Question(x)' = QuestionAt(N + 2, x)'
             /\ \A n \in -1 .. N : /\ StatusAt(n, x)' = StatusAt(n, x)
                                   /\ QuestionAt(n, x)' = QuestionAt(n, x)
             /\ StatusAt(N + 1, x)' = IF x = c THEN "queued" ELSE StatusAt(N, x)
             /\ StatusAt(N + 2, x)' = IF x = c THEN "queued"
                                      ELSE IF x = r THEN "stopped" ELSE StatusAt(N, x)
             /\ QuestionAt(N + 1, x)' = QuestionAt(N, x)
             /\ QuestionAt(N + 2, x)' = QuestionAt(N, x)
  <2>1. /\ Status(x) = StatusAt(N, x) /\ Question(x) = QuestionAt(N, x)
        /\ Status(x)' = StatusAt(N + 2, x)' /\ Question(x)' = QuestionAt(N + 2, x)'
    BY <1>1, <1>5 DEF Status, Question
  <2>2. \A n \in -1 .. N : /\ StatusAt(n, x)' = StatusAt(n, x)
                           /\ QuestionAt(n, x)' = QuestionAt(n, x)
    BY <1>1, <1>5, Stable DEF ThreadInv, History
  <2>3. Steps'
    BY <1>5, LogStepsNext DEF Lengthened
  <2>4. /\ "queued" \in RunStatuses /\ "stopped" \in RunStatuses
        /\ "queued" \notin Questions /\ "stopped" \notin Questions
    BY DEF RunStatuses, Waiting, Terminal, Questions
  <2>5. /\ StatusAt(N + 1, x)' = IF x = c THEN "queued" ELSE StatusAt(N, x)'
        /\ QuestionAt(N + 1, x)' = QuestionAt(N, x)'
    <3>1. N < Len(log') /\ log'[N + 1].run = c /\ log'[N + 1].what = "queued"
      BY <1>5
    <3> QED BY <2>3, <2>4, <3>1 DEF Steps
  <2>6. /\ StatusAt(N + 2, x)' = IF x = r THEN "stopped" ELSE StatusAt(N + 1, x)'
        /\ QuestionAt(N + 2, x)' = QuestionAt(N + 1, x)'
    <3>1. PICK m \in Nat : m = N + 1
      OBVIOUS
    <3>2. m < Len(log') /\ log'[m + 1].run = r /\ log'[m + 1].what = "stopped" /\ m + 1 = N + 2
      BY <1>5, <3>1
    <3>3. /\ StatusAt(m + 1, x)' = IF x = r THEN "stopped" ELSE StatusAt(m, x)'
          /\ QuestionAt(m + 1, x)' = QuestionAt(m, x)'
      BY <2>3, <2>4, <3>2 DEF Steps
    <3> QED BY <3>1, <3>2, <3>3
  <2> QED BY <1>3, <2>1, <2>2, <2>5, <2>6
<1>7. History'
  <2>1. ASSUME NEW k \in N .. N + 2, NEW m \in N .. k
        PROVE  Grows(m, k)'
    <3>1. ASSUME NEW x \in Runs
          PROVE  /\ StatusAt(m, x)' \in Terminal => StatusAt(k, x)' = StatusAt(m, x)'
                 /\ StatusAt(m, x)' # "none" => StatusAt(k, x)' # "none"
                 /\ QuestionAt(k, x)' = QuestionAt(m, x)'
      <4>1. /\ StatusAt(N, x)' = StatusAt(N, x)
            /\ StatusAt(N + 1, x)' = IF x = c THEN "queued" ELSE StatusAt(N, x)
            /\ StatusAt(N + 2, x)' = IF x = c THEN "queued"
                                     ELSE IF x = r THEN "stopped" ELSE StatusAt(N, x)
            /\ QuestionAt(N + 1, x)' = QuestionAt(N, x)'
            /\ QuestionAt(N + 2, x)' = QuestionAt(N, x)'
        BY <1>6
      <4>2. /\ x = c => StatusAt(N, x) = "none"
            /\ x = r => StatusAt(N, x) = "running"
        BY <1>2, <1>4, <1>6
      <4>3. CASE m = k
        BY <4>3
      <4>4. CASE m = N /\ k \in {N + 1, N + 2}
        BY <4>1, <4>2, <4>4 DEF Terminal
      <4>5. CASE m = N + 1 /\ k = N + 2
        BY <4>1, <4>2, <4>5 DEF Terminal
      <4> QED BY <4>3, <4>4, <4>5
    <3> QED BY <3>1 DEF Grows
  <2>2. ASSUME NEW x \in Runs, Question(x)' # "none" PROVE ~Once("asks")'
    <3>1. Question(x) # "none"
      BY <1>6, <2>2
    <3>2. PICK i \in DOMAIN log : log[i].what = "asks"
      BY <3>1 DEF ThreadInv, History, Once
    <3>3. i \in DOMAIN log' /\ log'[i] = log[i]
      BY <1>5, <1>1 DEF Lengthened, LogOK, ThreadInv, History
    <3> QED BY <3>2, <3>3 DEF Once
  <2> QED BY <1>1, <1>5, <2>1, <2>2, LongerHistory DEF ThreadInv
<1>8. /\ cont' \in [Restarts -> Turns \cup {None}]
      /\ \A d \in Restarts : cont'[d] = IF d = c THEN r ELSE cont[d]
  BY <1>2 DEF ThreadInv
<1>9. Unused'
  <2>1. ASSUME NEW x \in Runs, x # c, Status(x) = "none" PROVE Status(x)' = "none"
    BY <1>2, <1>6, <2>1
  <2> QED BY <1>2, <1>3, <1>8, <2>1, RunsAssumption DEF ThreadInv, Unused
<1>10. Succeeds(c, r)'
  <2>1. Status(r)' = "stopped"
    BY <1>3, <1>6
  <2>2. ASSUME NEW n \in -1 .. N + 2, StatusAt(n, r)' = "stopped"
        PROVE  StatusAt(n, c)' # "none"
    <3>1. CASE n <= N
      <4>1. StatusAt(n, r) = "stopped" /\ Grows(n, N)
        BY <1>1, <1>6, <2>2, <3>1 DEF ThreadInv, History
      <4> QED BY <1>2, <1>6, <4>1 DEF Grows, Terminal
    <3>2. CASE n \in {N + 1, N + 2}
      BY <1>6, <1>3, <3>2
    <3> QED BY <3>1, <3>2
  <2> QED BY <1>5, <2>1, <2>2 DEF Succeeds
<1>11. Continued'
  <2>1. ASSUME NEW d \in Restarts, d # c, cont[d] # None
        PROVE  /\ cont[d] \in Turns /\ Succeeds(d, cont[d])'
               /\ \A e \in Restarts : cont'[e] = cont[d] => e = d
    <3>1. PICK x \in Turns : x = cont[d]
      BY <2>1 DEF ThreadInv, Continued
    <3>2. Succeeds(d, x) /\ \A e \in Restarts : cont[e] = x => e = d
      BY <2>1, <3>1 DEF ThreadInv, Continued
    <3>3. Succeeds(d, x)'
      BY <1>5, <1>7, <3>2, SucceedsStill, RunsAssumption DEF ThreadInv
    <3>4. UNCHANGED x
      OBVIOUS
    <3>5. Succeeds(d, cont[d])' <=> Succeeds(d, x)'
      BY <1>8, <2>1, <3>1
    <3> QED BY <1>2, <1>8, <2>1, <3>1, <3>2, <3>3, <3>5
  <2>2. Succeeds(c, cont[c])'
    BY <1>8, <1>10
  <2> QED BY <1>2, <1>3, <1>8, <2>1, <2>2 DEF Continued
<1>12. cursor' \in -1 .. Len(log') /\ queue' \in Seq(Waits)
  BY <1>1, <1>2, <1>5 DEF ThreadInv
<1>13. Onward
  BY <1>2, <1>5, <1>8 DEF Onward
<1> QED BY <1>7, <1>8, <1>9, <1>11, <1>12, <1>13 DEF ThreadInv

\* What a run of the thread says of itself, it says as a run that it has.
LEMMA RunSays ==
  ASSUME History, NEW r \in Runs,
         \/ Starts(r) \/ Ends(r) \/ Holds(r) \/ Releases(r) \/ Asks(r) \/ Settles(r)
         \/ (Status(r) = "running" /\ Happens(r, "stopped"))
  PROVE  \E what \in RunStatuses \cup Questions : Says(r, what)
<1>1. {"queued", "held", "running", "asks", "answered"} \cup Terminal
         \subseteq RunStatuses \cup Questions
  BY DEF RunStatuses, Waiting, Questions
<1>2. Ends(r) => \E s \in Terminal : Says(r, s)
  BY DEF Ends, Goes, Happens, Says, Grown, Terminal
<1>3. Starts(r) => Says(r, "running")
  BY DEF Starts, Goes, Happens, Says, Grown, Terminal
<1>4. Holds(r) => Says(r, "held")
  BY DEF Holds, Goes, Happens, Says, Grown, Terminal
<1>5. Releases(r) => Says(r, "queued")
  BY DEF Releases, Goes, Happens, Says, Grown, Terminal
<1>6. Asks(r) => Says(r, "asks")
  BY DEF Asks, Goes, Happens, Says, Grown, Terminal
<1>7. Settles(r) => Says(r, "answered")
  BY DEF Settles, Happens, Says, Grown, Terminal, RunStatuses, Waiting
<1>8. Status(r) = "running" /\ Happens(r, "stopped") => Says(r, "stopped") /\ "stopped" \in Terminal
  BY DEF Happens, Says, Grown, Terminal
<1> QED BY <1>1, <1>2, <1>3, <1>4, <1>5, <1>6, <1>7, <1>8

\* T3 accepts a message: a run is queued for a turn that had none.
LEMMA TakesThread ==
  ASSUME DriverInv, ThreadInv, NEW f \in wire, T3Takes(f)
  PROVE  ThreadInv' /\ Onward /\ cursor' = cursor
<1>1. f.turn \in Turns /\ f.id = f.turn /\ f.turn \in Runs
  BY RunsAssumption DEF DriverInv, DriverTypes, SameId, Frame
<1>2. UNCHANGED <<cursor, queue>>
  BY DEF T3Takes, feed
<1>3. CASE UNCHANGED <<log, messages>>
  BY <1>2, <1>3, ThreadKept DEF messages, ThreadInv
<1>4. CASE f.id \notin receipts /\ Accepts(f)
  <2>1. /\ receipts' = receipts \cup {f.turn} /\ UNCHANGED cont
        /\ \E r : link' = [link EXCEPT ![f.turn] = r]
    BY <1>1, <1>4 DEF Accepts
  <2>2. \A t \in Turns : Located(t) => t # f.turn
    BY <1>1, <1>4 DEF DriverInv, Receipts
  <2>3. \A t \in Turns : Located(t) => link'[t] = link[t]
    BY <2>1, <2>2 DEF DriverInv, DriverTypes
  <2>4. Status(f.turn) = "none"
    BY <1>1, <1>4 DEF ThreadInv, Unused
  <2>5. UNCHANGED log \/ Says(f.turn, "queued")
    BY <1>1, <1>4, <2>1, <2>4 DEF Accepts, Goes, Happens, Says, Grown, Terminal
  <2>6. "queued" \in RunStatuses \cup Questions
    BY DEF RunStatuses, Waiting
  <2> QED BY <1>1, <1>2, <2>1, <2>3, <2>5, <2>6, ThreadKept DEF ThreadInv
<1> QED BY <1>2, <1>3, <1>4 DEF T3Takes

\* The driver sees more of the thread, or gives it up.
LEMMA StreamThread ==
  ASSUME ThreadInv, Stream
  PROVE  ThreadInv' /\ Onward /\ cursor <= cursor'
<1>1. UNCHANGED <<log, messages>>
  BY DEF Stream, Advance, GiveUp
<1>2. cursor' \in -1 .. Len(log) /\ queue' \in Seq(Waits) /\ cursor <= cursor'
  <2>1. CASE Advance
    <3>1. PICK n \in cursor + 1 .. Len(log) :
             /\ cursor' = n
             /\ queue' = queue \o SetToSeq(Keys("held", NewlyHeld(n)))
                               \o SetToSeq(Of(n, "asks")) \o SetToSeq(Of(n, "answered"))
      BY <2>1 DEF Advance, Of
    <3>2. n \in -1 .. Len(log) /\ cursor <= n
      BY DEF ThreadInv, History, LogOK
    <3>3. queue' \in Seq(Waits)
      BY <3>1, AdvanceTyped DEF ThreadInv, Questions
    <3> QED BY <3>1, <3>2, <3>3
  <2>2. CASE GiveUp
    <3>1. queue' = Append(queue, <<None, "fail">>) /\ <<None, "fail">> \in Waits /\ cursor' = cursor
      BY <2>2 DEF GiveUp, Waits
    <3> QED BY <3>1 DEF ThreadInv, History, LogOK
  <2> QED BY <2>1, <2>2 DEF Stream
<1> QED BY <1>1, <1>2, ThreadKept DEF messages

\* The thread is interrupted, or a question of it is answered.
LEMMA InterruptedThread ==
  ASSUME ThreadInv, UNCHANGED <<cursor, queue, messages>>,
         \/ UNCHANGED log
         \/ \E r \in Runs : Settles(r) \/ (Status(r) = "running" /\ Happens(r, "stopped"))
  PROVE  ThreadInv' /\ Onward /\ cursor' = cursor
BY RunSays, ThreadKept DEF ThreadInv, messages

AdapterTypes ==
  /\ awaiting \in BOOLEAN /\ {owned, asking} \subseteq NoRun
  /\ watch \in [Turns -> {"off", "wait", "busy", "alone", "over"}]
  /\ phase \in {"closed", "aborting", "open"}

\* The driver's steps keep the thread and what is known of its runs.
LEMMA ThreadNextStep ==
  DriverInv /\ ThreadInv /\ AdapterTypes /\ [Next]_vars
    => ThreadInv' /\ Onward /\ (Close \/ cursor <= cursor')
<1> SUFFICES ASSUME DriverInv, ThreadInv, AdapterTypes, [Next]_vars
             PROVE  ThreadInv' /\ Onward /\ (Close \/ cursor <= cursor')
  OBVIOUS
<1>1. cursor \in Int /\ cursor <= cursor
  BY DEF ThreadInv, History, LogOK
<1>2. CASE \E f \in wire : T3Takes(f)
  BY <1>1, <1>2, TakesThread
<1>3. CASE \E r \in Runs : T3Runs(r)
  <2>1. PICK r \in Runs : T3Runs(r)
    BY <1>3
  <2>2. \E what \in RunStatuses \cup Questions : Says(r, what)
    BY <2>1, RunSays DEF T3Runs, ThreadInv
  <2>3. UNCHANGED <<cursor, queue, cont, receipts, link>>
    BY <2>1 DEF T3Runs, feed, messages
  <2> QED BY <1>1, <2>2, <2>3, ThreadKept DEF ThreadInv
<1>4. CASE \E r \in Runs, c \in Restarts : T3Restarts(r, c)
  BY <1>1, <1>4, RestartStep DEF T3Restarts, feed
<1>5. CASE Stream
  BY <1>5, StreamThread
<1>6. CASE Pump
  <2>1. UNCHANGED <<log, cursor, messages>> /\ queue # <<>> /\ queue' = Tail(queue)
    BY <1>6 DEF Pump, Take
  <2>2. queue' \in Seq(Waits)
    BY <2>1 DEF ThreadInv
  <2> QED BY <1>1, <2>1, <2>2, ThreadKept DEF ThreadInv, messages
<1>7. CASE Stall \/ Abort \/ Respond
  <2>1. UNCHANGED <<cursor, queue, messages>>
    BY <1>7 DEF Stall, Abort, Respond, feed
  <2>2. CASE Stall
    BY <1>1, <2>1, <2>2, InterruptedThread DEF Stall, ActiveRun
  <2>3. CASE Abort
    BY <1>1, <2>1, <2>3, InterruptedThread DEF Abort, ActiveRun
  <2>4. CASE Respond
    <3>1. asking \in Runs /\ (Settles(asking) \/ UNCHANGED log)
      BY <2>4 DEF Respond, AdapterTypes, NoRun
    <3> QED BY <1>1, <2>1, <3>1, InterruptedThread
  <2> QED BY <1>7, <2>2, <2>3, <2>4
<1>8. CASE Close
  <2>1. UNCHANGED <<log, messages>> /\ cursor' = -1 /\ queue' = <<>>
    BY <1>8 DEF Close
  <2>2. cursor' \in -1 .. Len(log) /\ queue' \in Seq(Waits)
    BY <2>1 DEF ThreadInv, History, LogOK
  <2> QED BY <1>8, <2>1, <2>2, ThreadKept DEF messages
<1>9. CASE UNCHANGED <<log, feed, messages>>
  BY <1>1, <1>9, InterruptedThread DEF feed
<1>10. Sends \/ Open \/ (\E t \in Turns : Watches(t)) \/ UNCHANGED vars
         => UNCHANGED <<log, feed, messages>>
  BY DEF Sends, Send, FetchBefore, Dispatch, RequestLost, Reconcile, FetchAfter, SendFails,
         MarkProcessed, Open, Watches, WatcherReads, WatcherLeaves, WatcherTells, WatcherFails, vars
<1> QED BY <1>2, <1>3, <1>4, <1>5, <1>6, <1>7, <1>8, <1>9, <1>10 DEF Next, External, Gateway

-----------------------------------------------------------------------------
(* The driver: what the authority is told of a run.                        *)

\* How a run has ended for good; no other run goes on from there.
Outcome(r, how) ==
  /\ how \in Terminal /\ Status(r) = how
  /\ how = "stopped" => \A c \in Restarts : cont[c] # r

\* A run that shows as stopped ends with the one that continues it.
FinalRuns ==
  \A r \in Runs :
    /\ Final(r) \in Runs
    /\ Seen(r) # "stopped" \/ (\A c \in Restarts : cont[c] # r) => Final(r) = r
    /\ \A c \in Restarts : Seen(r) = "stopped" /\ cont[c] = r => Final(r) = c

LEMMA FinalRunsAre == ThreadInv => FinalRuns
<1> SUFFICES ASSUME ThreadInv, NEW r \in Runs
             PROVE  /\ Final(r) \in Runs
                    /\ Seen(r) # "stopped" \/ (\A c \in Restarts : cont[c] # r) => Final(r) = r
                    /\ \A c \in Restarts : Seen(r) = "stopped" /\ cont[c] = r => Final(r) = c
  BY DEF FinalRuns
<1> DEFINE next == {c \in Restarts : cont[c] = r /\ Seen(c) # "none"}
<1>1. Final(r) = IF Seen(r) = "stopped" /\ next # {} THEN CHOOSE c \in next : TRUE ELSE r
  BY DEF Final
<1>2. next # {} => (CHOOSE c \in next : TRUE) \in next
  OBVIOUS
<1>3. next \subseteq Runs
  BY RunsAssumption
<1>4. ASSUME NEW c \in Restarts, Seen(r) = "stopped", cont[c] = r
      PROVE  c \in next /\ \A d \in next : d = c
  <2>1. r # None
    BY RunsAssumption
  <2>2. PICK n \in -1 .. Len(log) : n = cursor
    BY DEF ThreadInv
  <2>3. StatusAt(n, r) = "stopped"
    BY <1>4, <2>2 DEF Seen
  <2>4. Succeeds(c, r) /\ \A d \in Restarts : cont[d] = r => d = c
    BY <1>4, <2>1 DEF ThreadInv, Continued
  <2> QED BY <1>4, <2>2, <2>3, <2>4 DEF Succeeds, Seen
<1> HIDE DEF next
<1>5. Seen(r) # "stopped" \/ (\A c \in Restarts : cont[c] # r) => Final(r) = r
  <2>1. next # {} => \E c \in Restarts : cont[c] = r
    BY DEF next
  <2> QED BY <1>1, <2>1
<1> QED BY <1>1, <1>2, <1>3, <1>4, <1>5

LEMMA FinalRunsNext == ThreadInv' => FinalRuns'
BY FinalRunsAre, PTL

\* What has ended where the driver sees it has ended for good.
LEMMA SeenEnd ==
  ASSUME ThreadInv, NEW r \in Runs, Seen(r) \in Terminal
  PROVE  Status(r) = Seen(r)
<1>1. PICK n \in -1 .. Len(log) : n = cursor
  BY DEF ThreadInv
<1>2. Grows(n, Len(log)) /\ Seen(r) = StatusAt(n, r)
  BY <1>1 DEF ThreadInv, History, LogOK, Seen
<1> QED BY <1>2 DEF Grows, Status

LEMMA ResolvedOutcome ==
  ASSUME ThreadInv, NEW t \in Turns, link[t] \in Runs, Resolved(t)
  PROVE  /\ Final(link[t]) \in Runs
         /\ Outcome(Final(link[t]), Seen(Final(link[t])))
<1>1. PICK r \in Runs : r = link[t]
  OBVIOUS
<1>2. FinalRuns
  BY FinalRunsAre
<1>3. PICK f \in Runs : f = Final(r)
  BY <1>2 DEF FinalRuns
<1>4. Seen(f) \in Terminal /\ Status(f) = Seen(f)
  BY <1>1, <1>3, SeenEnd DEF Resolved
<1>5. ASSUME Seen(f) = "stopped", NEW c \in Restarts
      PROVE  cont[c] # f
  <2>1. CASE \E d \in Restarts : cont[d] = r /\ Seen(r) = "stopped"
    <3>1. f \in Restarts /\ f \notin Turns /\ f # None
      BY <1>2, <1>3, <2>1, RunsAssumption DEF FinalRuns
    <3> QED BY <3>1 DEF ThreadInv
  <2>2. CASE \A d \in Restarts : ~(cont[d] = r /\ Seen(r) = "stopped")
    <3>1. f = r
      BY <1>2, <1>3, <2>2 DEF FinalRuns
    <3> QED BY <1>5, <2>2, <3>1
  <2> QED BY <2>1, <2>2
<1> QED BY <1>1, <1>3, <1>4, <1>5 DEF Outcome

LEMMA OutcomeStays ==
  ASSUME ThreadInv, ThreadInv', Onward, NEW r \in Runs, NEW how, Outcome(r, how)
  PROVE  Outcome(r, how)'
<1>1. how \in Terminal /\ Status(r) = how /\ Status(r)' = how
  BY StatusKept DEF Outcome, ThreadInv, Onward
<1>2. ASSUME how = "stopped", NEW c \in Restarts
      PROVE  cont'[c] # r
  <2>1. cont[c] # r /\ Status(r) # "running"
    BY <1>1, <1>2 DEF Outcome, Terminal
  <2> QED BY <2>1 DEF Onward
<1> QED BY <1>1, <1>2 DEF Outcome

\* An outcome that is resolved stays so, as the driver sees more of the thread.
LEMMA ResolvedStays ==
  ASSUME ThreadInv, ThreadInv', Onward, cursor <= cursor',
         NEW t \in Turns, link[t] \in Runs, link'[t] = link[t], Resolved(t)
  PROVE  Resolved(t)'
<1>1. PICK m \in -1 .. Len(log), n \in -1 .. Len(log') : m = cursor /\ n = cursor'
  BY DEF ThreadInv
<1>2. ASSUME NEW x \in Runs, Seen(x) \in Terminal PROVE Seen(x)' = Seen(x)
  <2>1. Seen(x) = StatusAt(m, x) /\ Seen(x)' = StatusAt(n, x)'
    BY <1>1 DEF Seen
  <2>2. StatusAt(m, x)' = StatusAt(m, x)
    BY StatusKept DEF ThreadInv, Onward
  <2>3. m <= n /\ m \in Int /\ n \in Int
    BY <1>1 DEF ThreadInv, History, LogOK
  <2>4. Grows(m, n)'
    BY <2>3 DEF ThreadInv, History
  <2> QED BY <1>2, <2>1, <2>2, <2>4 DEF Grows
<1>3. PICK r \in Runs : r = link[t] /\ r = link'[t]
  OBVIOUS
<1>4. FinalRuns /\ FinalRuns'
  BY FinalRunsAre, FinalRunsNext
<1>5. PICK f \in Runs : f = Final(r) /\ Seen(f) \in Terminal
  BY <1>3, <1>4 DEF FinalRuns, Resolved
<1>6. Seen(f)' \in Terminal
  BY <1>2, <1>5
<1>7. Final(r)' = f
  <2>1. Seen(r) \in Terminal
    BY <1>4, <1>5 DEF FinalRuns, Terminal
  <2>2. Seen(r)' = Seen(r) /\ Status(r) = Seen(r)
    BY <1>2, <2>1, SeenEnd
  <2>3. ASSUME NEW c \in Restarts PROVE cont'[c] = r <=> cont[c] = r
    <3>1. Status(r) # "running" /\ r # None
      BY <2>1, <2>2, RunsAssumption DEF Terminal
    <3> QED BY <3>1 DEF Onward
  <2>4. CASE Seen(r) # "stopped" \/ \A c \in Restarts : cont[c] # r
    <3>1. Final(r) = r /\ Final(r)' = r
      BY <1>4, <2>2, <2>3, <2>4 DEF FinalRuns
    <3> QED BY <1>5, <3>1
  <2>5. CASE Seen(r) = "stopped" /\ \E c \in Restarts : cont[c] = r
    <3>1. PICK c \in Restarts : cont[c] = r /\ cont'[c] = r
      BY <2>3, <2>5
    <3>2. Final(r) = c /\ Final(r)' = c
      BY <1>4, <2>2, <2>5, <3>1 DEF FinalRuns
    <3> QED BY <1>5, <3>2
  <2> QED BY <2>4, <2>5
<1>8. Resolved(t)' <=> Seen(f)' \in Terminal
  <2>1. Resolved(t)' <=> Seen(Final(r))' \in Terminal
    BY <1>3 DEF Resolved
  <2> QED BY <1>7, <2>1 DEF Seen
<1> QED BY <1>6, <1>8

\* A live frame is what a send waits for.
WaitsForFrame == send.at = "wire" => \E f \in wire : f.live

Watching ==
  \A t \in Turns : /\ watch[t] # "off" => Located(t)
                   /\ watch[t] \in {"busy", "alone"} => Resolved(t)

Truthful ==
  \/ told \in {None, Error}
  \/ /\ told \in [how : Terminal, run : Runs]
     /\ Outcome(told.run, told.how)

\* The inductive invariant.
OutcomeInv == DriverInv /\ ThreadInv /\ AdapterTypes /\ WaitsForFrame /\ Watching /\ Truthful

\* A turn is watched once T3 has it, and its outcome is looked for once it is there.
WatchStep ==
  \A t \in Turns : \/ watch'[t] = watch[t]
                   \/ Located(t) /\ watch'[t] \in {"wait", "over"}
                   \/ Located(t) /\ Resolved(t)

\* The authority is told what the first watcher finds, or of an error.
TellStep ==
  \/ told' \in {told, Error}
  \/ \E t \in Turns : /\ watch[t] \in {"busy", "alone"}
                      /\ told' = [how |-> Seen(Final(link[t])), run |-> Final(link[t])]

LEMMA TruthStays ==
  ASSUME OutcomeInv, ThreadInv', Onward, cursor <= cursor', WatchStep, TellStep
  PROVE  Watching' /\ Truthful'
<1>1. ASSUME NEW t \in Turns, Located(t)
      PROVE  link[t] \in Runs /\ link'[t] = link[t] /\ Located(t)'
  BY <1>1 DEF OutcomeInv, DriverInv, DriverTypes, Located, NoRun, Onward
<1>2. ASSUME NEW t \in Turns, Located(t), Resolved(t)
      PROVE  Resolved(t)'
  BY <1>1, <1>2, ResolvedStays DEF OutcomeInv
<1>3. Watching'
  BY <1>1, <1>2 DEF OutcomeInv, Watching, WatchStep
<1>4. Truthful'
  <2>1. CASE told' = Error
    BY <2>1 DEF Truthful, Error
  <2>2. CASE told' = told
    <3>1. CASE told \in {None, Error}
      BY <2>2, <3>1 DEF Truthful, Error
    <3>2. CASE told \in [how : Terminal, run : Runs] /\ Outcome(told.run, told.how)
      <4>1. PICK r \in Runs, how \in Terminal : r = told.run /\ how = told.how
        BY <3>2
      <4>2. Outcome(r, how)'
        BY <3>2, <4>1, OutcomeStays DEF OutcomeInv
      <4> QED BY <2>2, <3>2, <4>1, <4>2 DEF Truthful, Outcome
    <3> QED BY <3>1, <3>2 DEF OutcomeInv, Truthful
  <2>3. ASSUME NEW t \in Turns, watch[t] \in {"busy", "alone"},
               told' = [how |-> Seen(Final(link[t])), run |-> Final(link[t])]
        PROVE  Truthful'
    <3>1. link[t] \in Runs /\ Resolved(t)
      BY <1>1, <2>3 DEF OutcomeInv, Watching
    <3>2. PICK r \in Runs, how \in Terminal :
             r = Final(link[t]) /\ how = Seen(Final(link[t])) /\ Outcome(r, how)
      BY <3>1, ResolvedOutcome DEF OutcomeInv, Outcome
    <3>3. Outcome(r, how)'
      BY <3>2, OutcomeStays DEF OutcomeInv
    <3>4. told' = [how |-> how, run |-> r]
      BY <2>3, <3>2
    <3> QED BY <3>3, <3>4 DEF Truthful, Outcome
  <2> QED BY <2>1, <2>2, <2>3 DEF TellStep
<1> QED BY <1>3, <1>4

LEMMA HandleStep ==
  ASSUME OutcomeInv, FetchBefore \/ FetchAfter
  PROVE  AdapterTypes' /\ WaitsForFrame' /\ WatchStep /\ TellStep
<1>1. send.turn \in Turns /\ send \in SendRecord
  BY DEF OutcomeInv, DriverInv, DriverTypes, Sending, SendSteps, FetchBefore, FetchAfter
<1>2. UNCHANGED phase
  BY DEF FetchBefore, FetchAfter, authority
<1>3. CASE Located(send.turn)
  <2>1. Handle(send.turn)
    BY <1>3 DEF FetchBefore, FetchAfter
  <2>2. link[send.turn] \in NoRun
    BY <1>1 DEF OutcomeInv, DriverInv, DriverTypes
  <2>3. AdapterTypes' /\ WatchStep
    BY <1>1, <1>2, <1>3, <2>1, <2>2 DEF Handle, OutcomeInv, AdapterTypes, WatchStep
  <2> QED BY <1>1, <2>1, <2>3 DEF Handle, WaitsForFrame, TellStep, SendRecord
<1>4. CASE ~Located(send.turn)
  <2>1. UNCHANGED adapter /\ send'.at # "wire"
    BY <1>1, <1>4 DEF FetchBefore, FetchAfter, SendRecord
  <2> QED
    BY <1>2, <2>1
    DEF adapter, OutcomeInv, AdapterTypes, WaitsForFrame, WatchStep, TellStep
<1> QED BY <1>3, <1>4

\* The other steps of a send, and the session's: no watcher moves.
LEMMA SendOnlyStep ==
  ASSUME OutcomeInv, UNCHANGED adapter, phase' \in {"closed", "aborting", "open"},
         \/ UNCHANGED <<send, wire>>
         \/ send'.at # "wire"
         \/ \E f \in wire' : f.live
  PROVE  AdapterTypes' /\ WaitsForFrame' /\ WatchStep /\ TellStep
BY DEF adapter, OutcomeInv, AdapterTypes, WaitsForFrame, WatchStep, TellStep

LEMMA SendsStep ==
  ASSUME OutcomeInv, Sends \/ (\E f \in wire : T3Takes(f))
  PROVE  AdapterTypes' /\ WaitsForFrame' /\ WatchStep /\ TellStep
<1>1. /\ send \in SendRecord /\ phase \in {"closed", "aborting", "open"}
      /\ \A f \in wire : f.live => send.at = "wire"
  BY DEF OutcomeInv, DriverInv, DriverTypes, AdapterTypes, LiveFrame
<1>2. CASE FetchBefore \/ FetchAfter
  BY <1>2, HandleStep
<1>3. CASE \E f \in wire : T3Takes(f)
  <2>1. PICK f \in wire : T3Takes(f)
    BY <1>3
  <2>2. UNCHANGED <<adapter, phase>> /\ wire' = wire \ {f}
    BY <2>1 DEF T3Takes, authority
  <2>3. CASE f.live
    <3>1. \/ send' = [send EXCEPT !.at = "after"]
          \/ send' = [send EXCEPT !.at = "failed"]
      BY <2>1, <2>3 DEF T3Takes, Answer
    <3> QED BY <1>1, <2>2, <3>1, SendOnlyStep DEF SendRecord
  <2>4. CASE ~f.live
    <3>1. send' = send
      BY <2>1, <2>4 DEF T3Takes, Answer
    <3>2. send'.at = "wire" => \E g \in wire' : g.live
      BY <2>2, <2>4, <3>1 DEF OutcomeInv, WaitsForFrame
    <3> QED BY <1>1, <2>2, <3>2, SendOnlyStep
  <2> QED BY <2>3, <2>4
<1>4. CASE \E t \in Turns : Send(t)
  <2>1. UNCHANGED <<adapter, phase>> /\ send'.at = "before"
    BY <1>4 DEF Send, NoSend, authority
  <2> QED BY <1>1, <2>1, SendOnlyStep
<1>5. CASE Dispatch
  <2>1. UNCHANGED <<adapter, phase>>
    BY <1>5 DEF Dispatch, authority
  <2> DEFINE f == [id |-> CommandId(send.turn, send.try), turn |-> send.turn,
                   mode |-> send.mode, target |-> send.target, live |-> TRUE]
  <2>2. f \in wire' /\ f.live
    BY <1>5 DEF Dispatch
  <2> HIDE DEF f
  <2> QED BY <1>1, <2>1, <2>2, SendOnlyStep
<1>6. CASE RequestLost \/ Reconcile \/ SendFails
  <2>1. UNCHANGED <<adapter, phase>> /\ send'.at \in {"reconcile", "failed", "after", "dispatch"}
    BY <1>1, <1>6 DEF RequestLost, Unanswered, Reconcile, SendFails, authority, SendRecord
  <2> QED BY <1>1, <2>1, SendOnlyStep
<1>7. CASE MarkProcessed
  <2>1. UNCHANGED <<adapter, phase>> /\ send'.at = "idle"
    BY <1>7 DEF MarkProcessed, NoSend
  <2> QED BY <1>1, <2>1, SendOnlyStep
<1> QED BY <1>2, <1>3, <1>4, <1>5, <1>6, <1>7 DEF Sends

LEMMA WatchesStep ==
  ASSUME OutcomeInv, NEW t \in Turns, Watches(t)
  PROVE  AdapterTypes' /\ WaitsForFrame' /\ WatchStep /\ TellStep
<1>1. UNCHANGED <<send, wire, owned, asking, phase>>
  BY DEF Watches, WatcherReads, WatcherLeaves, WatcherTells, WatcherFails, authority
<1>2. awaiting' \in BOOLEAN
  BY DEF Watches, WatcherReads, WatcherLeaves, WatcherTells, WatcherFails, OutcomeInv, AdapterTypes
<1>3. watch[t] # "off" /\ Located(t)
  BY DEF Watches, WatcherReads, WatcherLeaves, Leaves, WatcherTells, WatcherFails,
         OutcomeInv, Watching
<1>4. \/ watch' = [watch EXCEPT ![t] = "over"]
      \/ /\ watch' \in {[watch EXCEPT ![t] = "busy"], [watch EXCEPT ![t] = "alone"]}
         /\ Resolved(t)
  BY DEF Watches, WatcherReads, WatcherLeaves, WatcherTells, WatcherFails
<1>5. TellStep
  BY DEF Watches, WatcherReads, WatcherLeaves, WatcherTells, WatcherFails, Tell, TellStep
<1>6. AdapterTypes' /\ WatchStep
  BY <1>1, <1>2, <1>3, <1>4 DEF OutcomeInv, AdapterTypes, WatchStep
<1> QED BY <1>1, <1>5, <1>6 DEF OutcomeInv, WaitsForFrame

LEMMA PumpStep ==
  ASSUME OutcomeInv, Pump
  PROVE  AdapterTypes' /\ WaitsForFrame' /\ WatchStep /\ TellStep
<1>1. UNCHANGED <<send, wire, owned, watch, phase>>
  BY DEF Pump, authority
<1>2. Head(queue) \in Waits
  BY DEF Pump, Take, OutcomeInv, ThreadInv
<1>3. awaiting' \in BOOLEAN
  BY DEF Pump, Awaits, OutcomeInv, AdapterTypes
<1>4. asking' \in NoRun
  <2>1. asking' \in {Head(queue)[1], None, asking}
    BY DEF Pump
  <2>2. Head(queue)[1] \in NoRun /\ None \in NoRun /\ asking \in NoRun
    BY <1>2 DEF Waits, NoRun, OutcomeInv, AdapterTypes
  <2> QED BY <2>1, <2>2
<1>5. TellStep
  BY DEF Pump, Tell, TellStep
<1> QED
  BY <1>1, <1>3, <1>4, <1>5 DEF OutcomeInv, AdapterTypes, WaitsForFrame, WatchStep

LEMMA AdapterNextStep ==
  OutcomeInv /\ [Next]_vars /\ ~Close
    => AdapterTypes' /\ WaitsForFrame' /\ WatchStep /\ TellStep
<1> SUFFICES ASSUME OutcomeInv, [Next]_vars, ~Close
             PROVE  AdapterTypes' /\ WaitsForFrame' /\ WatchStep /\ TellStep
  OBVIOUS
<1>1. phase \in {"closed", "aborting", "open"} /\ send \in SendRecord
  BY DEF OutcomeInv, AdapterTypes, DriverInv, DriverTypes
<1>2. CASE Sends \/ \E f \in wire : T3Takes(f)
  BY <1>2, SendsStep
<1>3. CASE (\E r \in Runs : T3Runs(r) \/ \E c \in Restarts : T3Restarts(r, c))
           \/ Stream \/ Open \/ Abort \/ UNCHANGED vars
  <2>1. UNCHANGED <<adapter, send, wire>> /\ phase' \in {"closed", "aborting", "open"}
    BY <1>1, <1>3 DEF T3Runs, T3Restarts, Stream, Open, Abort, vars, authority
  <2> QED BY <2>1, SendOnlyStep
<1>4. CASE Pump
  BY <1>4, PumpStep
<1>5. CASE \E t \in Turns : Watches(t)
  BY <1>5, WatchesStep
<1>6. CASE Stall
  <2>1. UNCHANGED <<send, wire, owned, asking, watch, phase>> /\ awaiting' = FALSE
    BY <1>6 DEF Stall, authority
  <2>2. TellStep
    BY <1>6 DEF Stall, Tell, TellStep
  <2> QED BY <2>1, <2>2 DEF OutcomeInv, AdapterTypes, WaitsForFrame, WatchStep
<1>7. CASE Respond
  <2>1. UNCHANGED <<wire, awaiting, owned, watch, told, phase>> /\ asking' \in {None, asking}
    BY <1>7 DEF Respond, authority
  <2>2. send' = send \/ send'.at = "failed"
    BY <1>1, <1>7 DEF Respond, SendRecord
  <2> QED
    BY <2>1, <2>2 DEF OutcomeInv, AdapterTypes, WaitsForFrame, WatchStep, TellStep, NoRun
<1> QED BY <1>2, <1>3, <1>4, <1>5, <1>6, <1>7 DEF Next, External, Gateway

\* A session that is closed forgets what it watched and was told.
LEMMA ClosedOutcome ==
  Close => AdapterTypes' /\ WaitsForFrame' /\ Watching' /\ Truthful'
<1> SUFFICES ASSUME Close PROVE AdapterTypes' /\ WaitsForFrame' /\ Watching' /\ Truthful'
  OBVIOUS
<1>1. AdapterTypes' /\ Watching'
  BY DEF Close, AdapterTypes, Watching, NoRun
<1>2. WaitsForFrame'
  BY DEF Close, WaitsForFrame, NoSend
<1>3. Truthful'
  BY DEF Close, Truthful
<1> QED BY <1>1, <1>2, <1>3

LEMMA OutcomeNextStep == OutcomeInv /\ [Next]_vars => OutcomeInv'
<1> SUFFICES ASSUME OutcomeInv, [Next]_vars PROVE OutcomeInv'
  OBVIOUS
<1>1. DriverInv' /\ ThreadInv' /\ Onward /\ (Close \/ cursor <= cursor')
  BY DriverNextStep, ThreadNextStep DEF OutcomeInv
<1>2. CASE Close
  BY <1>1, <1>2, ClosedOutcome DEF OutcomeInv
<1>3. CASE ~Close
  BY <1>1, <1>3, AdapterNextStep, TruthStays DEF OutcomeInv
<1> QED BY <1>2, <1>3

LEMMA OutcomeInitInv == Init => OutcomeInv
<1> SUFFICES ASSUME Init PROVE OutcomeInv
  OBVIOUS
<1>1. DriverInv /\ History
  BY DriverInitInv, EmptyHistory DEF Init
<1>2. Len(log) = 0 /\ \A r \in Runs : Status(r) = "none"
  <2>1. Len(log) = 0
    BY DEF Init, Empty
  <2> QED BY <2>1, NothingSaid DEF Status
<1>3. ThreadInv
  BY <1>1, <1>2 DEF Init, Empty, ThreadInv, Unused, Continued
<1>4. AdapterTypes /\ WaitsForFrame /\ Watching /\ Truthful
  BY DEF Init, AdapterTypes, WaitsForFrame, Watching, Truthful, NoSend, NoRun
<1> QED BY <1>1, <1>3, <1>4 DEF OutcomeInv

\* The inductive invariant holds in every reachable state: besides what the
\* dispatch of turns needs, the log has a history that T3 can produce, a run
\* that T3 stops to continue it in another one shows that other one from then
\* on, and an outcome is one that T3 cannot revise.
THEOREM OutcomeInvariance == Spec => []OutcomeInv
BY OutcomeInitInv, OutcomeNextStep, PTL DEF Spec

\* Type correctness, for any turns, runs and bounds; a frame waits for T3, live,
\* exactly while its send waits for the answer, and no turn is watched that T3
\* does not have.
THEOREM DriverTypesHold == Spec => []TypeOK
<1>1. OutcomeInv => TypeOK
  <2> SUFFICES ASSUME OutcomeInv PROVE TypeOK
    OBVIOUS
  <2>1. UNION {{CommandId(t, 1), CommandId(t, 2)} : t \in Turns} = Turns
    BY DEF CommandId
  <2>2. /\ log \in Seq([run : Runs, what : RunStatuses \cup Questions])
        /\ cont \in [Restarts -> Turns \cup {None}]
    BY DEF OutcomeInv, ThreadInv, History, LogOK, Event
  <2>3. told = None \/ told \in [how : Terminal \cup {"error"}, run : NoRun]
    BY DEF OutcomeInv, Truthful, Error, NoRun
  <2>4. send.at = "wire" <=> \E f \in wire : f.live
    BY DEF OutcomeInv, WaitsForFrame, DriverInv, LiveFrame
  <2> QED
    BY <2>1, <2>2, <2>3, <2>4
    DEF TypeOK, OutcomeInv, DriverInv, DriverTypes, Frame, SendRecord, AdapterTypes, Watching
<1> QED BY OutcomeInvariance, <1>1, PTL

\* The authority is told of an end that is real and final, although the thread
\* goes on between the moment a watcher finds an outcome and the moment it has
\* read the projection (worker-adapter.ts watchTurn): neither what the driver
\* sees later nor a continuation that T3 makes can change what was found.
THEOREM OutcomesAreReal == Spec => []OutcomeIsReal
<1>1. OutcomeInv => OutcomeIsReal
  <2>1. told \in {None, Error} => OutcomeIsReal
    BY DEF OutcomeIsReal, Error
  <2>2. told \in [how : Terminal, run : Runs] /\ Outcome(told.run, told.how) => OutcomeIsReal
    BY DEF OutcomeIsReal, Outcome
  <2> QED BY <2>1, <2>2 DEF OutcomeInv, Truthful
<1> QED BY OutcomeInvariance, <1>1, PTL
=============================================================================
