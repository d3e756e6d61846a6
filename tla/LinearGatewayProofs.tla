------------------------ MODULE LinearGatewayProofs ------------------------
(***************************************************************************)
(* Proofs about LinearGateway, for any organizations, calls, callbacks and *)
(* bounds: the calls of an organization are made one at a time and in      *)
(* their order, what Linear did is asked of it again only if reading it    *)
(* back met a rate limit, and the newest token pair is the one that is     *)
(* kept.                                                                   *)
(***************************************************************************)
EXTENDS LinearGateway, TLAPS

Busy(c) == call[c].pc # "idle"

\* A call at work waits for nobody; a call that waits has before it the call
\* it waits for and those before that one; one that does not has none.
Waiting(c) ==
    /\ call[c].pc \in Working \cup {"idle"} => call[c].prev = None
    /\ Busy(c) => call[c].org \in Orgs
    /\ call[c].prev = None => call[c].before = {}
    /\ call[c].prev # None =>
         /\ Busy(call[c].prev) /\ call[call[c].prev].org = call[c].org
         /\ call[c].before = call[call[c].prev].before \cup {call[c].prev}

Waits == \A c \in Calls : Waiting(c)

\* The tail of an organization is its last call, with all others before it.
Last(o) ==
    /\ tail[o] = None => Queue(o) = {}
    /\ tail[o] # None =>
         /\ Busy(tail[o]) /\ call[tail[o]].org = o
         /\ Queue(o) = call[tail[o]].before \cup {tail[o]}

Tails == \A o \in Orgs : Last(o)

Chain == Waits /\ Tails

\* What Linear did for a call, and the call's record of it: only one that makes
\* something goes on after Linear acted, to read it back or, once that met a
\* rate limit, to try again for the last time.
Sending == {"send", "readback", "limited"}
Told(r) ==
    r.did => /\ r.pc \in Sending /\ r.op = "create"
             /\ r.pc # "readback" => r.unread /\ r.tries = 1

\* The entry of the map of refreshes is the one fiber that refreshes.
Refreshing ==
    /\ \A c \in Fibers :
         /\ Busy(c) => call[c].org \in Orgs
         /\ call[c].pc \in {"exchange", "store"} => refreshing[call[c].org] = c
         /\ call[c].on # None => call[c].pc = "await"
         /\ Told(call[c])
    /\ \A o \in Orgs : refreshing[o] # None =>
         /\ call[refreshing[o]].pc \in {"exchange", "store"}
         /\ call[refreshing[o]].org = o

Storing(o) == \E c \in Fibers : call[c].pc = "store" /\ call[c].org = o

\* While nothing was dropped and no two pairs were under way at once, the last
\* pair Linear issued is the one that is being stored, or else the stored one.
Kept(o) ==
    /\ \A c \in Fibers : call[c].pc = "store" /\ call[c].org = o =>
         call[c].seen.pair = latest[o] /\ ~Authorizing(o)
    /\ \A b \in Callbacks : callback[b].pc = "store" /\ callback[b].org = o =>
         /\ callback[b].pair = latest[o]
         /\ \A d \in Callbacks : callback[d].pc = "store" /\ callback[d].org = o => d = b
    /\ ~Storing(o) /\ ~Authorizing(o) => install[o].pair = latest[o]

Pairs == \A o \in Orgs : ~unsettled[o] => Kept(o)

\* A callback knows its organization once it has a pair.
Known == \A b \in Callbacks : callback[b].pc = "store" => callback[b].org \in Orgs

\* The inductive invariant.
IInv == TypeOK /\ Chain /\ Refreshing /\ Pairs /\ Known
-----------------------------------------------------------------------------
(* How the fibers may change.                                              *)

Refreshes == {"exchange", "store"}

\* f is call, but for what no part of the invariant depends on.
Like(f) ==
    /\ f \in [Fibers -> CallRecord]
    /\ \A d \in Fibers :
         /\ f[d].pc = "idle" <=> call[d].pc = "idle"
         /\ f[d].pc \in Refreshes <=> call[d].pc \in Refreshes
         /\ f[d].pc = "store" <=> call[d].pc = "store"
         /\ f[d].org = call[d].org /\ f[d].prev = call[d].prev
         /\ f[d].before = call[d].before /\ f[d].seen = call[d].seen
         /\ Told(f[d])
         /\ f[d].on # None => f[d].pc = "await"
         /\ f[d].pc \in Working => f[d].prev = None \/ d \notin Calls

\* What is known of the sending.
Sent(r) == <<r.op, r.did, r.unread, r.tries>>

\* A fiber that has not come to its sending has nothing done for it.
LEMMA QuietTold ==
    ASSUME NEW r, NEW s, Told(r), r.pc \notin Sending, Sent(s) = Sent(r)
    PROVE  Told(s) /\ ~s.did
BY DEF Told, Sent

LEMMA SameTold ==
    ASSUME NEW r, NEW s, Told(r), s.pc = r.pc, Sent(s) = Sent(r)
    PROVE  Told(s)
BY DEF Told, Sent

LEMMA IdleRecord ==
    /\ Idle \in CallRecord /\ NoRow \in Row /\ ~Idle.did /\ Idle.on = None
    /\ Idle.pc = "idle" /\ Told(Idle)
<1>1. NoRow \in Row
  BY GatewayAssumption DEF NoRow, Row
<1>2. Idle \in CallRecord /\ ~Idle.did /\ Idle.on = None /\ Idle.pc = "idle"
  BY <1>1 DEF Idle, CallRecord, Operations
<1> QED BY <1>1, <1>2 DEF Told

\* The updates of one record of a fiber.
Answered(r, p) == [r EXCEPT !.pc = p, !.on = None]
Deserted(r) == [r EXCEPT !.on = None]
Left(r, c) == [r EXCEPT !.prev = IF @ = c THEN None ELSE @, !.before = @ \ {c}]
Joined(r, o, op, t, q) ==
    [r EXCEPT !.pc = "queued", !.org = o, !.op = op, !.prev = t, !.before = q]

LEMMA AnsweredRecord ==
    ASSUME NEW r \in CallRecord, NEW p \in Answers
    PROVE  LET s == Answered(r, p)
           IN  /\ s \in CallRecord /\ s.pc = p /\ s.on = None
               /\ s.org = r.org /\ s.prev = r.prev /\ s.before = r.before
               /\ s.seen = r.seen /\ Sent(s) = Sent(r)
BY DEF CallRecord, Working, Answers, Answered, Sent

LEMMA DesertedRecord ==
    ASSUME NEW r \in CallRecord
    PROVE  LET s == Deserted(r)
           IN  /\ s \in CallRecord /\ s.pc = r.pc /\ s.on = None
               /\ s.org = r.org /\ s.prev = r.prev /\ s.before = r.before
               /\ s.seen = r.seen /\ Sent(s) = Sent(r)
BY DEF CallRecord, Deserted, Sent

LEMMA LeftRecord ==
    ASSUME NEW r \in CallRecord, NEW c
    PROVE  LET s == Left(r, c)
           IN  /\ s \in CallRecord /\ s.pc = r.pc /\ s.org = r.org /\ s.seen = r.seen
               /\ s.on = r.on /\ Sent(s) = Sent(r)
               /\ s.prev = (IF r.prev = c THEN None ELSE r.prev)
               /\ s.before = r.before \ {c}
BY DEF CallRecord, Left, Sent

LEMMA JoinedRecord ==
    ASSUME NEW r \in CallRecord, NEW o \in Orgs, NEW op \in Operations,
           NEW t \in Calls \cup {None}, NEW q \in SUBSET Calls
    PROVE  LET s == Joined(r, o, op, t, q)
           IN  /\ s \in CallRecord /\ s.pc = "queued" /\ s.org = o /\ s.prev = t
               /\ s.before = q /\ s.did = r.did /\ s.on = r.on
BY DEF CallRecord, Joined

\* The result of a refresh reaches those who wait for it, or nobody does.
LEMMA LikeItself == IInv => Like(call)
BY DEF IInv, TypeOK, Like, Chain, Waits, Waiting, Refreshing

LEMMA LikeResolved ==
    ASSUME IInv, NEW c \in Fibers, NEW result \in Answers
    PROVE  Like(Resolved(c, result))
<1> DEFINE f == Resolved(c, result)
<1>1. f = [d \in Fibers |-> f[d]]
  BY DEF Resolved
<1>2. ASSUME NEW d \in Fibers, call[d].on = c
      PROVE  /\ f[d] \in CallRecord /\ f[d].pc = result /\ f[d].on = None
             /\ f[d].org = call[d].org /\ f[d].prev = call[d].prev
             /\ f[d].before = call[d].before /\ f[d].seen = call[d].seen
             /\ Sent(f[d]) = Sent(call[d]) /\ call[d].pc = "await"
  <2>1. f[d] = Answered(call[d], result) /\ call[d] \in CallRecord
    BY <1>2 DEF Resolved, Answered, IInv, TypeOK
  <2>2. call[d].pc = "await"
    BY <1>2, GatewayAssumption DEF IInv, Refreshing
  <2> HIDE DEF f
  <2>3. /\ f[d] \in CallRecord /\ f[d].pc = result /\ f[d].on = None
        /\ f[d].org = call[d].org /\ f[d].prev = call[d].prev
        /\ f[d].before = call[d].before /\ f[d].seen = call[d].seen
        /\ Sent(f[d]) = Sent(call[d])
    BY <2>1, AnsweredRecord
  <2> QED BY <2>2, <2>3
<1>3. ASSUME NEW d \in Fibers, call[d].on # c PROVE f[d] = call[d] /\ f[d] \in CallRecord
  BY <1>3 DEF Resolved, IInv, TypeOK
<1> HIDE DEF f
<1>4. f \in [Fibers -> CallRecord]
  BY <1>1, <1>2, <1>3
<1>5. ASSUME NEW d \in Fibers
      PROVE  /\ f[d].pc = "idle" <=> call[d].pc = "idle"
             /\ f[d].pc \in Refreshes <=> call[d].pc \in Refreshes
             /\ f[d].pc = "store" <=> call[d].pc = "store"
             /\ f[d].org = call[d].org /\ f[d].prev = call[d].prev
             /\ f[d].before = call[d].before /\ f[d].seen = call[d].seen
             /\ Told(f[d])
             /\ f[d].on # None => f[d].pc = "await"
             /\ f[d].pc \in Working => f[d].prev = None \/ d \notin Calls
  <2>1. Told(call[d])
    BY DEF IInv, Refreshing
  <2>2. Told(f[d])
    <3>1. CASE call[d].on = c
      BY <1>2, <2>1, <3>1, QuietTold DEF Sending
    <3>2. CASE call[d].on # c
      BY <1>3, <2>1, <3>2
    <3> QED BY <3>1, <3>2
  <2> QED BY <1>2, <1>3, <2>2 DEF IInv, Chain, Waits, Waiting, Refreshing, Refreshes, Working,
          Answers
<1> QED BY <1>4, <1>5 DEF Like, f

LEMMA LikeOrphaned ==
    ASSUME IInv, NEW c \in Fibers
    PROVE  Like(Orphaned(c))
<1> DEFINE f == Orphaned(c)
<1>1. f = [d \in Fibers |-> f[d]]
  BY DEF Orphaned
<1>2. ASSUME NEW d \in Fibers, call[d].on = c
      PROVE  /\ f[d] \in CallRecord /\ f[d].pc = call[d].pc /\ f[d].on = None
             /\ f[d].org = call[d].org /\ f[d].prev = call[d].prev
             /\ f[d].before = call[d].before /\ f[d].seen = call[d].seen
             /\ Sent(f[d]) = Sent(call[d])
  <2>1. f[d] = Deserted(call[d]) /\ call[d] \in CallRecord
    BY <1>2 DEF Orphaned, Deserted, IInv, TypeOK
  <2> HIDE DEF f
  <2> QED BY <2>1, DesertedRecord
<1>3. ASSUME NEW d \in Fibers, call[d].on # c PROVE f[d] = call[d] /\ f[d] \in CallRecord
  BY <1>3 DEF Orphaned, IInv, TypeOK
<1> HIDE DEF f
<1>4. f \in [Fibers -> CallRecord]
  BY <1>1, <1>2, <1>3
<1>5. ASSUME NEW d \in Fibers
      PROVE  /\ f[d].pc = call[d].pc
             /\ f[d].org = call[d].org /\ f[d].prev = call[d].prev
             /\ f[d].before = call[d].before /\ f[d].seen = call[d].seen
             /\ Told(f[d])
             /\ f[d].on # None => f[d].pc = "await"
             /\ f[d].pc \in Working => f[d].prev = None \/ d \notin Calls
  <2>1. Told(call[d])
    BY DEF IInv, Refreshing
  <2>2. Told(f[d])
    <3>1. CASE call[d].on = c
      BY <1>2, <2>1, <3>1, SameTold
    <3>2. CASE call[d].on # c
      BY <1>3, <2>1, <3>2
    <3> QED BY <3>1, <3>2
  <2> QED BY <1>2, <1>3, <2>2 DEF IInv, Chain, Waits, Waiting, Refreshing
<1> QED BY <1>4, <1>5 DEF Like, f

\* A fiber that ends is idle, and of the others only their wait for it changes.
LEMMA EndShape ==
    ASSUME TypeOK, NEW f \in [Fibers -> CallRecord], NEW c \in Fibers, EndFrom(f, c)
    PROVE  /\ call' \in [Fibers -> CallRecord] /\ call'[c] = Idle
           /\ \A d \in Fibers \ {c} :
                /\ call'[d].pc = f[d].pc /\ call'[d].org = f[d].org
                /\ call'[d].seen = f[d].seen /\ call'[d].on = f[d].on
                /\ Sent(call'[d]) = Sent(f[d])
                /\ call'[d].prev = (IF f[d].prev = c THEN None ELSE f[d].prev)
                /\ call'[d].before = f[d].before \ {c}
           /\ tail' \in [Orgs -> Calls \cup {None}]
<1>1. call' = [d \in Fibers |-> call'[d]] /\ call'[c] = Idle
  BY DEF EndFrom, Freed
<1>2. Idle \in CallRecord
  BY IdleRecord
<1>3. ASSUME NEW d \in Fibers \ {c}
      PROVE  /\ call'[d] \in CallRecord
             /\ call'[d].pc = f[d].pc /\ call'[d].org = f[d].org
             /\ call'[d].seen = f[d].seen /\ call'[d].on = f[d].on
             /\ Sent(call'[d]) = Sent(f[d])
             /\ call'[d].prev = (IF f[d].prev = c THEN None ELSE f[d].prev)
             /\ call'[d].before = f[d].before \ {c}
  <2>1. call'[d] = Left(f[d], c)
    BY DEF EndFrom, Freed, Left
  <2>2. f[d] \in CallRecord
    OBVIOUS
  <2> QED BY <2>1, <2>2, LeftRecord
<1>4. call' \in [Fibers -> CallRecord]
  BY <1>1, <1>2, <1>3
<1>5. tail' \in [Orgs -> Calls \cup {None}]
  BY DEF EndFrom, TailAfter, TypeOK
<1> QED BY <1>1, <1>3, <1>4, <1>5

-----------------------------------------------------------------------------
(* The chain of the queue.                                                 *)

\* What a step of the fiber c leaves of the others.
Others(c) ==
    /\ call' \in [Fibers -> CallRecord]
    /\ \A d \in Fibers \ {c} :
         /\ call'[d].pc = "idle" <=> call[d].pc = "idle"
         /\ call'[d].pc \in Refreshes <=> call[d].pc \in Refreshes
         /\ call'[d].pc = "store" <=> call[d].pc = "store"
         /\ call'[d].org = call[d].org /\ call'[d].seen = call[d].seen
         /\ Told(call'[d])
         /\ call'[d].on # None => call'[d].pc = "await"

LEMMA ChainSet ==
    ASSUME IInv, NEW f, Like(f), NEW c \in Fibers, NEW r \in CallRecord,
           call' = [f EXCEPT ![c] = r], UNCHANGED tail,
           Busy(c), r.pc # "idle",
           r.org = call[c].org, r.prev = call[c].prev, r.before = call[c].before,
           r.pc \in Working /\ c \in Calls => r.prev = None
    PROVE  Chain' /\ Others(c) /\ call'[c] = r
<1>1. /\ call'[c] = r /\ call' \in [Fibers -> CallRecord]
      /\ \A d \in Fibers \ {c} : call'[d] = f[d]
  BY DEF Like
<1>2. \A d \in Fibers :
        /\ call'[d].pc = "idle" <=> call[d].pc = "idle"
        /\ call'[d].org = call[d].org /\ call'[d].prev = call[d].prev
        /\ call'[d].before = call[d].before
        /\ call'[d].pc \in Working /\ d \in Calls => call'[d].prev = None
  BY <1>1 DEF Like, Busy
<1>3. Others(c)
  BY <1>1 DEF Like, Others
<1>4. Waits'
  <2> SUFFICES ASSUME NEW d \in Calls PROVE Waiting(d)'
    BY DEF Waits
  <2>1. d \in Fibers /\ call[d] \in CallRecord /\ call[d].prev \in Calls \cup {None}
    BY DEF Fibers, IInv, TypeOK, CallRecord
  <2>2. CASE call[d].prev = None
    BY <1>2, <2>1, <2>2 DEF IInv, Chain, Waits, Waiting, Busy
  <2>3. CASE call[d].prev # None
    <3>1. call[d].prev \in Fibers /\ Busy(call[d].prev)
      BY <2>1, <2>3 DEF Fibers, IInv, Chain, Waits, Waiting
    <3> QED BY <1>2, <2>1, <2>3, <3>1 DEF IInv, Chain, Waits, Waiting, Busy
  <2> QED BY <2>2, <2>3
<1>5. Tails'
  <2>1. \A o \in Orgs : Queue(o)' = Queue(o)
    BY <1>2 DEF Queue, Fibers
  <2>2. \A o \in Orgs : tail[o] # None => tail[o] \in Fibers
    BY DEF IInv, TypeOK, Fibers
  <2> QED BY <1>2, <2>1, <2>2 DEF IInv, Chain, Tails, Last, Busy
<1> QED BY <1>1, <1>3, <1>4, <1>5 DEF Chain

LEMMA ChainEnd ==
    ASSUME IInv, NEW f, Like(f), NEW c \in Fibers, EndFrom(f, c), Busy(c),
           c \in Calls => call[c].prev = None
    PROVE  Chain' /\ Others(c) /\ call'[c] = Idle /\ tail' \in [Orgs -> Calls \cup {None}]
<1>1. /\ call' \in [Fibers -> CallRecord] /\ call'[c] = Idle
      /\ \A d \in Fibers \ {c} :
           /\ call'[d].pc = f[d].pc /\ call'[d].org = f[d].org
           /\ call'[d].seen = f[d].seen /\ call'[d].on = f[d].on
           /\ Sent(call'[d]) = Sent(f[d])
           /\ call'[d].prev = (IF f[d].prev = c THEN None ELSE f[d].prev)
           /\ call'[d].before = f[d].before \ {c}
      /\ tail' \in [Orgs -> Calls \cup {None}]
  BY EndShape DEF Like, IInv
<1>2. \A d \in Fibers \ {c} :
        /\ Busy(d)' <=> Busy(d)
        /\ call'[d].org = call[d].org
        /\ call'[d].prev = (IF call[d].prev = c THEN None ELSE call[d].prev)
        /\ call'[d].before = call[d].before \ {c}
        /\ call'[d].pc \in Working /\ d \in Calls => call[d].prev = None
  BY <1>1 DEF Like, Busy
<1>3. Others(c)
  <2>1. \A d \in Fibers \ {c} : Told(call'[d])
    BY <1>1, SameTold DEF Like
  <2> QED BY <1>1, <2>1 DEF Like, Others
<1>4. /\ Idle.pc = "idle" /\ Idle.prev = None /\ Idle.before = {}
      /\ c # None
  BY GatewayAssumption DEF Idle
<1>5. c \in Calls => call[c].before = {}
  BY DEF IInv, Chain, Waits, Waiting
<1>6. \A d \in Fibers : call[d].prev \in Calls \cup {None} /\ call[d].before \subseteq Calls
  BY DEF IInv, TypeOK, CallRecord
<1>7. Waits'
  <2> SUFFICES ASSUME NEW d \in Calls PROVE Waiting(d)'
    BY DEF Waits
  <2>1. d \in Fibers
    BY DEF Fibers
  <2>2. CASE d = c
    BY <1>1, <1>4, <2>2 DEF Busy, Waiting
  <2>3. CASE d # c /\ call[d].prev = None
    BY <1>2, <2>1, <2>3, <1>4 DEF IInv, Chain, Waits, Waiting
  <2>4. CASE d # c /\ call[d].prev = c
    <3>1. c \in Calls
      BY <1>4, <1>6, <2>1, <2>4
    <3>2. call[d].before = {c}
      BY <1>4, <1>5, <2>4, <3>1 DEF IInv, Chain, Waits, Waiting
    <3>3. call'[d].prev = None /\ call'[d].before = {}
      BY <1>2, <2>1, <2>4, <3>2
    <3> QED BY <1>2, <2>1, <2>4, <3>3 DEF IInv, Chain, Waits, Waiting
  <2>5. CASE d # c /\ call[d].prev \notin {None, c}
    <3> DEFINE e == call[d].prev
    <3>1. /\ e \in Calls /\ e \in Fibers \ {c} /\ Busy(e) /\ call[e].org = call[d].org
          /\ call[d].before = call[e].before \cup {e}
      BY <1>6, <2>1, <2>5 DEF IInv, Chain, Waits, Waiting, Fibers
    <3>2. call'[d].prev = e /\ call[d].pc # "idle" /\ call'[d].pc \notin Working \cup {"idle"}
      BY <1>2, <2>1, <2>5 DEF IInv, Chain, Waits, Waiting, Busy
    <3>3. call'[d].before = call'[e].before \cup {e}
      BY <1>2, <2>1, <2>5, <3>1
    <3> QED BY <1>2, <2>1, <2>5, <3>1, <3>2, <3>3 DEF IInv, Chain, Waits, Waiting
  <2> QED BY <2>2, <2>3, <2>4, <2>5
<1>8. Tails'
  <2> SUFFICES ASSUME NEW o \in Orgs PROVE Last(o)'
    BY DEF Tails
  <2>1. Queue(o)' = Queue(o) \ {c}
    BY <1>1, <1>2, <1>4 DEF Queue, Fibers, Busy
  <2>2. tail[o] \in Calls \cup {None}
    BY DEF IInv, TypeOK
  <2>3. CASE tail[o] = c
    <3>1. c \in Calls /\ call[c].org = o /\ Queue(o) = {c}
      BY <1>4, <1>5, <2>2, <2>3 DEF IInv, Chain, Tails, Last
    <3>2. tail'[o] = None
      BY <2>3, <3>1 DEF EndFrom, TailAfter, IInv, TypeOK
    <3> QED BY <2>1, <3>1, <3>2 DEF Last
  <2>4. CASE tail[o] # c
    <3>1. tail'[o] = tail[o]
      BY <2>4 DEF EndFrom, TailAfter, IInv, TypeOK
    <3>2. CASE tail[o] = None
      BY <2>1, <3>1, <3>2 DEF IInv, Chain, Tails, Last
    <3>3. CASE tail[o] # None
      <4>1. tail[o] \in Fibers \ {c}
        BY <2>2, <2>4, <3>3 DEF Fibers
      <4>2. /\ Busy(tail[o]) /\ call[tail[o]].org = o
            /\ Queue(o) = call[tail[o]].before \cup {tail[o]}
        BY <3>3 DEF IInv, Chain, Tails, Last
      <4>3. /\ call'[tail[o]].pc # "idle" /\ call'[tail[o]].org = o
            /\ call'[tail[o]].before = call[tail[o]].before \ {c}
        BY <1>2, <4>1, <4>2 DEF Busy
      <4>4. Queue(o)' = call'[tail[o]].before \cup {tail[o]}
        BY <2>1, <2>4, <4>2, <4>3
      <4> QED BY <3>1, <3>3, <4>3, <4>4 DEF Last, Busy
    <3> QED BY <3>2, <3>3
  <2> QED BY <2>3, <2>4
<1> QED BY <1>1, <1>3, <1>7, <1>8 DEF Chain

LEMMA ChainJoin ==
    ASSUME IInv, NEW c \in Calls, NEW o \in Orgs, NEW op \in Operations, Join(c, o, op)
    PROVE  /\ Chain' /\ Others(c) /\ call'[c].pc = "queued" /\ call'[c].org = o
           /\ ~call'[c].did /\ call'[c].on = None
           /\ tail' \in [Orgs -> Calls \cup {None}]
<1> DEFINE r == Joined(Idle, o, op, tail[o], Queue(o))
<1>1. /\ r \in CallRecord /\ r.pc = "queued" /\ r.org = o /\ r.prev = tail[o]
      /\ r.before = Queue(o) /\ ~r.did /\ r.on = None
  <2>1. Idle \in CallRecord /\ ~Idle.did /\ Idle.on = None
    BY IdleRecord
  <2>2. tail[o] \in Calls \cup {None} /\ Queue(o) \in SUBSET Calls
    BY DEF IInv, TypeOK, Queue
  <2> QED BY <2>1, <2>2, JoinedRecord
<1>2. /\ call' = [call EXCEPT ![c] = r] /\ tail' = [tail EXCEPT ![o] = c] /\ At(c, "idle")
  BY DEF Join, Joined
<1> HIDE DEF r
<1>3. /\ c \in Fibers /\ c # None /\ call' \in [Fibers -> CallRecord] /\ call'[c] = r
      /\ \A d \in Fibers \ {c} : call'[d] = call[d]
      /\ tail' \in [Orgs -> Calls \cup {None}]
  BY <1>1, <1>2, GatewayAssumption DEF IInv, TypeOK, Fibers
<1>4. Others(c)
  BY <1>3 DEF Others, IInv, Refreshing
<1>5. \A d \in Calls : call[d].prev # None =>
        call[d].prev \in Fibers \ {c}
  BY <1>2 DEF At, IInv, TypeOK, CallRecord, Fibers, Chain, Waits, Waiting, Busy
<1>6. \A p \in Orgs : tail[p] # None => tail[p] \in Fibers \ {c}
  BY <1>2 DEF At, IInv, TypeOK, Fibers, Chain, Tails, Last, Busy
<1>7. Waits'
  <2> SUFFICES ASSUME NEW d \in Calls PROVE Waiting(d)'
    BY DEF Waits
  <2>1. CASE d = c
    <3>1. CASE tail[o] = None
      BY <1>1, <1>3, <2>1, <3>1 DEF Waiting, Working, Answers, IInv, Chain, Tails, Last
    <3>2. CASE tail[o] # None
      <4>1. /\ tail[o] \in Fibers \ {c} /\ Busy(tail[o]) /\ call[tail[o]].org = o
            /\ Queue(o) = call[tail[o]].before \cup {tail[o]}
        BY <1>6, <3>2 DEF IInv, Chain, Tails, Last
      <4> QED BY <1>1, <1>3, <2>1, <3>2, <4>1 DEF Waiting, Working, Answers, Busy
    <3> QED BY <3>1, <3>2
  <2>2. CASE d # c
    BY <1>3, <1>5, <2>2 DEF Fibers, IInv, Chain, Waits, Waiting, Busy
  <2> QED BY <2>1, <2>2
<1>8. Tails'
  <2> SUFFICES ASSUME NEW p \in Orgs PROVE Last(p)'
    BY DEF Tails
  <2>1. CASE p = o
    <3>1. Queue(p)' = Queue(p) \cup {c}
      BY <1>1, <1>3, <2>1 DEF Queue, Fibers
    <3>2. tail'[p] = c
      BY <1>2, <2>1 DEF IInv, TypeOK
    <3> QED BY <1>1, <1>3, <2>1, <3>1, <3>2 DEF Last, Busy
  <2>2. CASE p # o
    <3>1. Queue(p)' = Queue(p)
      BY <1>1, <1>2, <1>3, <2>2 DEF Queue, Fibers, At
    <3>2. tail'[p] = tail[p]
      BY <1>2, <2>2 DEF IInv, TypeOK
    <3> QED BY <1>3, <1>6, <3>1, <3>2 DEF Last, Busy, IInv, Chain, Tails
  <2> QED BY <2>1, <2>2
<1> QED BY <1>1, <1>3, <1>4, <1>7, <1>8 DEF Chain

-----------------------------------------------------------------------------
(* The refresh.                                                            *)

\* What the fiber c is after its step, if it does not refresh.
Elsewhere(c) ==
    /\ call'[c].pc \notin Refreshes
    /\ call'[c].pc # "idle" => call'[c].org \in Orgs
    /\ Told(call'[c])
    /\ call'[c].on # None => call'[c].pc = "await"

\* The entry of the map goes with the refresh.
Cleared(c) ==
    IF call[c].pc \in Refreshes THEN ClearRefresh(c) ELSE UNCHANGED refreshing

LEMMA RefreshLeft ==
    ASSUME IInv, NEW c \in Fibers, Others(c), Elsewhere(c), Cleared(c)
    PROVE  Refreshing' /\ refreshing' \in [Orgs -> Fibers \cup {None}]
<1>1. refreshing \in [Orgs -> Fibers \cup {None}] /\ None \notin Fibers
  BY GatewayAssumption DEF IInv, TypeOK
<1>2. ASSUME NEW d \in Fibers
      PROVE  /\ call'[d].pc # "idle" => call'[d].org \in Orgs
             /\ call'[d].pc \in Refreshes => d # c /\ refreshing[call'[d].org] = d
             /\ call'[d].on # None => call'[d].pc = "await"
             /\ Told(call'[d])
  BY <1>2 DEF Others, Elsewhere, IInv, Refreshing, Refreshes, Busy
<1>3. ASSUME NEW o \in Orgs, refreshing[o] \notin {None, c}
      PROVE  call'[refreshing[o]].pc \in Refreshes /\ call'[refreshing[o]].org = o
  BY <1>1, <1>3 DEF Others, IInv, Refreshing, Refreshes
<1>4. CASE call[c].pc \in Refreshes
  <2>1. call[c].org \in Orgs /\ refreshing[call[c].org] = c
    BY <1>4 DEF IInv, Refreshing, Refreshes, Busy
  <2>2. refreshing' = [refreshing EXCEPT ![call[c].org] = None]
    BY <1>4 DEF Cleared, ClearRefresh
  <2>3. \A o \in Orgs : refreshing[o] = c => o = call[c].org
    BY <1>1 DEF IInv, Refreshing
  <2>4. \A d \in Fibers : call'[d].pc \in Refreshes => refreshing'[call'[d].org] = d
    BY <1>1, <1>2, <2>1, <2>2 DEF Refreshes
  <2>5. \A o \in Orgs : refreshing'[o] # None =>
          call'[refreshing'[o]].pc \in Refreshes /\ call'[refreshing'[o]].org = o
    BY <1>1, <1>3, <2>1, <2>2, <2>3
  <2> QED BY <1>1, <1>2, <2>1, <2>2, <2>4, <2>5 DEF Refreshing, Refreshes, Busy
<1>5. CASE call[c].pc \notin Refreshes
  <2>1. refreshing' = refreshing
    BY <1>5 DEF Cleared
  <2>2. \A o \in Orgs : refreshing[o] # c
    <3> SUFFICES ASSUME NEW o \in Orgs, refreshing[o] = c PROVE FALSE
      OBVIOUS
    <3>1. c # None
      BY <1>1
    <3> QED BY <3>1, <1>5 DEF IInv, Refreshing, Refreshes
  <2> QED BY <1>1, <1>2, <1>3, <2>1, <2>2 DEF Refreshing, Refreshes, Busy
<1> QED BY <1>4, <1>5

LEMMA RefreshHeld ==
    ASSUME IInv, NEW c \in Fibers, Others(c), NEW o \in Orgs,
           call'[c].pc \in Refreshes, call'[c].org = o, ~call'[c].did, call'[c].on = None,
           refreshing[o] \in {None, c}, call[c].pc \in Refreshes => call[c].org = o,
           refreshing' = [refreshing EXCEPT ![o] = c]
    PROVE  Refreshing' /\ refreshing' \in [Orgs -> Fibers \cup {None}]
<1>1. refreshing \in [Orgs -> Fibers \cup {None}] /\ None \notin Fibers
  BY GatewayAssumption DEF IInv, TypeOK
<1>2. \A p \in Orgs : refreshing[p] = c => p = o
  BY <1>1 DEF IInv, Refreshing, Refreshes
<1>3. ASSUME NEW d \in Fibers
      PROVE  /\ call'[d].pc # "idle" => call'[d].org \in Orgs
             /\ call'[d].pc \in Refreshes => refreshing'[call'[d].org] = d
             /\ call'[d].on # None => call'[d].pc = "await"
             /\ Told(call'[d])
  <2>1. CASE d = c
    BY <1>1, <2>1 DEF Told
  <2>2. CASE d # c
    <3>1. /\ call'[d].pc # "idle" => call'[d].org \in Orgs
          /\ call'[d].pc \in Refreshes => call'[d].org \in Orgs /\ refreshing[call'[d].org] = d
          /\ call'[d].on # None => call'[d].pc = "await"
          /\ Told(call'[d])
      BY <2>2 DEF Others, IInv, Refreshing, Refreshes, Busy
    <3> QED BY <1>1, <2>2, <3>1
  <2> QED BY <2>1, <2>2
<1>4. \A p \in Orgs : refreshing'[p] # None =>
        call'[refreshing'[p]].pc \in Refreshes /\ call'[refreshing'[p]].org = p
  <2> SUFFICES ASSUME NEW p \in Orgs, refreshing'[p] # None
               PROVE  call'[refreshing'[p]].pc \in Refreshes /\ call'[refreshing'[p]].org = p
    OBVIOUS
  <2>1. CASE p = o
    BY <1>1, <2>1
  <2>2. CASE p # o
    <3>1. refreshing'[p] = refreshing[p] /\ refreshing[p] \in Fibers \ {c}
      BY <1>1, <1>2, <2>2
    <3> QED BY <3>1 DEF Others, IInv, Refreshing, Refreshes
  <2> QED BY <2>1, <2>2
<1>5. refreshing' \in [Orgs -> Fibers \cup {None}]
  BY <1>1
<1> QED BY <1>3, <1>4, <1>5 DEF Refreshing, Refreshes, Busy

-----------------------------------------------------------------------------
(* The pair that is kept.                                                  *)

\* A fiber that neither had a pair nor gets one, or whose organization is
\* unsettled after its step.
LEMMA PairsLeft ==
    ASSUME IInv, NEW c \in Fibers, Others(c), UNCHANGED callback, call'[c].pc # "store",
           \A o \in Orgs : \/ unsettled'[o]
                            \/ /\ unsettled'[o] = unsettled[o]
                               /\ install'[o].pair = install[o].pair
                               /\ latest'[o] = latest[o]
                               /\ ~(call[c].pc = "store" /\ call[c].org = o)
    PROVE  Pairs' /\ Known'
<1>1. Known'
  BY DEF IInv, Known
<1>2. \A o \in Orgs : Authorizing(o)' <=> Authorizing(o)
  BY DEF Authorizing
<1>3. Pairs'
  <2> SUFFICES ASSUME NEW o \in Orgs, ~unsettled'[o]
               PROVE  Kept(o)'
    BY DEF Pairs
  <2>1. /\ ~unsettled[o] /\ latest'[o] = latest[o] /\ install'[o].pair = install[o].pair
        /\ ~(call[c].pc = "store" /\ call[c].org = o)
    OBVIOUS
  <2>2. \A d \in Fibers : call'[d].pc = "store" /\ call'[d].org = o =>
          call[d].pc = "store" /\ call[d].org = o /\ call'[d].seen = call[d].seen
    BY DEF Others
  <2>3. \A d \in Fibers : call[d].pc = "store" /\ call[d].org = o =>
          call'[d].pc = "store" /\ call'[d].org = o
    BY <2>1 DEF Others
  <2>4. Storing(o)' <=> Storing(o)
    BY <2>2, <2>3 DEF Storing
  <2> QED BY <1>2, <2>1, <2>2, <2>4 DEF IInv, Pairs, Kept
<1> QED BY <1>1, <1>3

-----------------------------------------------------------------------------
(* The steps of a fiber that does not refresh after it.                    *)

TypeRest ==
    /\ install \in [Orgs -> Row]
    /\ consent \in [Consents -> {"absent", "open", "spent"}]
    /\ callback \in [Callbacks -> [pc : {"idle", "exchange", "store"},
                                    org : Orgs \cup {None}, pair : 0..MaxTokens]]
    /\ latest \in [Orgs -> 0..MaxTokens]
    /\ unsettled \in [Orgs -> BOOLEAN]
    /\ webhooks \in 0..MaxWebhooks /\ interrupts \in 0..MaxInterrupts

Stepped(c) ==
    /\ Chain' /\ Refreshing' /\ Others(c) /\ call'[c].pc \notin Refreshes
    /\ tail' \in [Orgs -> Calls \cup {None}] /\ refreshing' \in [Orgs -> Fibers \cup {None}]

Settles(c) ==
    \A o \in Orgs : \/ unsettled'[o]
                    \/ /\ unsettled'[o] = unsettled[o]
                       /\ install'[o].pair = install[o].pair
                       /\ latest'[o] = latest[o]
                       /\ ~(call[c].pc = "store" /\ call[c].org = o)

LEMMA SteppedIInv ==
    ASSUME IInv, NEW c \in Fibers, Stepped(c), Settles(c), UNCHANGED callback, TypeRest'
    PROVE  IInv'
<1>1. Pairs' /\ Known'
  <2>1. call'[c].pc # "store"
    BY DEF Stepped, Refreshes
  <2> QED BY <2>1, PairsLeft DEF Stepped, Settles
<1>2. TypeOK'
  BY DEF Stepped, Others, TypeRest, TypeOK
<1> QED BY <1>1, <1>2 DEF Stepped, IInv

LEMMA EndSteps ==
    ASSUME IInv, NEW f, Like(f), NEW c \in Fibers, EndFrom(f, c), Busy(c),
           c \in Calls => call[c].prev = None, Cleared(c)
    PROVE  Stepped(c)
<1>1. Chain' /\ Others(c) /\ call'[c] = Idle /\ tail' \in [Orgs -> Calls \cup {None}]
  BY ChainEnd
<1>2. Idle.pc = "idle" /\ Told(Idle) /\ Idle.on = None
  BY IdleRecord
<1>3. Elsewhere(c)
  BY <1>1, <1>2 DEF Elsewhere, Refreshes
<1>4. Refreshing' /\ refreshing' \in [Orgs -> Fibers \cup {None}]
  BY <1>1, <1>3, RefreshLeft
<1> QED BY <1>1, <1>2, <1>3, <1>4 DEF Stepped, Elsewhere

LEMMA SetSteps ==
    ASSUME IInv, NEW f, Like(f), NEW c \in Fibers, NEW r \in CallRecord,
           call' = [f EXCEPT ![c] = r], UNCHANGED tail, Busy(c),
           r.pc \notin Refreshes \cup {"idle"},
           r.org = call[c].org, r.prev = call[c].prev, r.before = call[c].before, Told(r),
           r.on # None => r.pc = "await",
           r.pc \in Working /\ c \in Calls => r.prev = None, Cleared(c)
    PROVE  Stepped(c)
<1>1. Chain' /\ Others(c) /\ call'[c] = r
  BY ChainSet
<1>2. Elsewhere(c)
  BY <1>1 DEF Elsewhere, IInv, Refreshing, Busy
<1>3. Refreshing' /\ refreshing' \in [Orgs -> Fibers \cup {None}]
  BY <1>1, <1>2, RefreshLeft
<1> QED BY <1>1, <1>2, <1>3 DEF Stepped, Elsewhere, IInv, TypeOK

\* A record of a fiber moves on; what was read goes, or is kept.
Moved(r, p) == [r EXCEPT !.pc = p]
MovedWith(r, p, row) == [r EXCEPT !.pc = p, !.seen = row]

LEMMA MovedRecord ==
    ASSUME NEW r \in CallRecord, NEW p \in {"idle", "queued"} \cup Working, NEW row \in Row
    PROVE  /\ LET s == Moved(r, p)
              IN  /\ s \in CallRecord /\ s.pc = p /\ s.org = r.org /\ s.prev = r.prev
                  /\ s.before = r.before /\ s.seen = r.seen /\ Sent(s) = Sent(r) /\ s.on = r.on
           /\ LET s == MovedWith(r, p, row)
              IN  /\ s \in CallRecord /\ s.pc = p /\ s.org = r.org /\ s.prev = r.prev
                  /\ s.before = r.before /\ s.seen = row /\ Sent(s) = Sent(r) /\ s.on = r.on
BY DEF CallRecord, Moved, MovedWith, Sent

LEMMA ProceedSteps ==
    ASSUME IInv, NEW f, Like(f), NEW c \in Fibers, Proceed(f, c),
           call[c].pc \in Working, f[c].pc \notin Sending \cup {"await"}, Cleared(c)
    PROVE  Stepped(c)
<1>1. Busy(c) /\ (c \in Calls => call[c].prev = None)
  BY DEF Busy, Working, Answers, IInv, Chain, Waits, Waiting
<1>2. CASE c \in Direct
  BY <1>1, <1>2, EndSteps DEF Proceed
<1>3. CASE c \notin Direct
  <2> DEFINE r == MovedWith(f[c], "send", NoRow)
  <2>1. call' = [f EXCEPT ![c] = r] /\ UNCHANGED tail
    BY <1>3 DEF Proceed, MovedWith
  <2>2. /\ f[c] \in CallRecord /\ f[c].org = call[c].org /\ f[c].prev = call[c].prev
        /\ f[c].before = call[c].before /\ Told(f[c]) /\ f[c].on = None
    BY DEF Like
  <2>3. NoRow \in Row /\ "send" \in Working
    BY GatewayAssumption DEF NoRow, Row, Working
  <2>4. /\ r \in CallRecord /\ r.pc = "send" /\ r.org = f[c].org /\ r.prev = f[c].prev
        /\ r.before = f[c].before /\ Sent(r) = Sent(f[c]) /\ r.on = f[c].on
    BY <2>2, <2>3, MovedRecord
  <2> HIDE DEF r
  <2>5. r.pc \notin Refreshes \cup {"idle"} /\ Told(r)
    BY <2>2, <2>4, QuietTold DEF Refreshes
  <2> QED BY <1>1, <2>1, <2>2, <2>4, <2>5, SetSteps
<1> QED BY <1>2, <1>3

-----------------------------------------------------------------------------
(* The actions.                                                            *)

LEMMA InitIInv == Init => IInv
<1> SUFFICES ASSUME Init PROVE IInv
  OBVIOUS
<1>1. Idle \in CallRecord /\ NoRow \in Row /\ [NoRow EXCEPT !.pair = 1] \in Row
  <2>1. NoRow \in Row
    BY GatewayAssumption DEF NoRow, Row
  <2>2. [NoRow EXCEPT !.pair = 1] \in Row
    BY <2>1, GatewayAssumption DEF Row
  <2>3. Idle \in CallRecord
    BY IdleRecord
  <2> QED BY <2>1, <2>2, <2>3
<1>2. TypeOK
  BY <1>1, GatewayAssumption DEF Init, TypeOK, Awaiting, Row
<1>3. \A c \in Fibers : call[c] = Idle
  BY DEF Init
<1>4. /\ Idle.pc = "idle" /\ Idle.prev = None /\ Idle.before = {} /\ ~Idle.did /\ Idle.on = None
  BY DEF Idle
<1>5. Chain
  BY <1>3, <1>4 DEF Init, Chain, Waits, Waiting, Tails, Last, Queue, Busy, Fibers
<1>6. Refreshing
  BY <1>3, <1>4, IdleRecord DEF Init, Refreshing, Busy
<1>7. Pairs /\ Known
  BY <1>3, <1>4 DEF Init, Pairs, Kept, Known, Storing, Authorizing, Awaiting
<1> QED BY <1>2, <1>5, <1>6, <1>7 DEF IInv

LEMMA RestKept ==
    ASSUME IInv, UNCHANGED <<install, oauth, latest, history>>
    PROVE  /\ TypeRest' /\ UNCHANGED callback
           /\ \A c \in Fibers : call[c].pc # "store" => Settles(c)
BY DEF IInv, TypeOK, TypeRest, oauth, history, Settles

LEMMA JoinStep ==
    ASSUME IInv, NEW c \in Calls, NEW o \in Orgs, NEW op \in Operations, Join(c, o, op)
    PROVE  IInv'
<1>1. c \in Fibers /\ call[c].pc = "idle" /\ UNCHANGED refreshing
  BY DEF Fibers, At, Join
<1>2. /\ Chain' /\ Others(c) /\ call'[c].pc = "queued" /\ call'[c].org = o
      /\ ~call'[c].did /\ call'[c].on = None
      /\ tail' \in [Orgs -> Calls \cup {None}]
  BY ChainJoin
<1>3. Elsewhere(c) /\ Cleared(c)
  BY <1>1, <1>2 DEF Elsewhere, Cleared, Refreshes, Told
<1>4. Stepped(c)
  BY <1>1, <1>2, <1>3, RefreshLeft DEF Stepped, Elsewhere
<1>5. TypeRest' /\ Settles(c) /\ UNCHANGED callback
  BY <1>1, RestKept DEF Join
<1> QED BY <1>1, <1>4, <1>5, SteppedIInv

LEMMA BeginStep ==
    ASSUME IInv, NEW c \in Calls, NEW o \in Orgs, Begin(c, o)
    PROVE  IInv'
BY JoinStep DEF Begin, Operations, CreateActivity, UpdateSession, UpdateIssue, AddSessionExternalUrls,
   CreateIssueComment, CreateSessionOnIssue, ListSessionActivities, GetIssue,
   RepositorySuggestions, TeamStartedStates

LEMMA RefreshInstallationStep ==
    ASSUME IInv, NEW c \in Direct, NEW o \in Orgs, RefreshInstallation(c, o)
    PROVE  IInv'
<1>1. Idle \in CallRecord /\ ~Idle.did /\ Idle.on = None
  BY IdleRecord
<1>2. Idle.prev = None /\ Idle.before = {}
  BY DEF Idle
<1> DEFINE q == [Idle EXCEPT !.pc = "token", !.org = o]
<1>3. /\ q \in CallRecord /\ q.pc = "token" /\ q.org = o /\ ~q.did /\ q.on = None
  BY <1>1 DEF CallRecord, Working
<1>4. call' = [call EXCEPT ![c] = q] /\ call[c].pc = "idle" /\ UNCHANGED <<tail, refreshing>>
  BY DEF RefreshInstallation, At
<1> HIDE DEF q
<1>5. /\ c \in Fibers /\ c \notin Calls /\ call' \in [Fibers -> CallRecord] /\ call'[c] = q
      /\ \A d \in Fibers \ {c} : call'[d] = call[d]
  BY <1>3, <1>4, GatewayAssumption DEF IInv, TypeOK, Fibers
<1>6. Others(c)
  BY <1>5 DEF Others, IInv, Refreshing
<1>7. Chain'
  <2>1. \A d \in Calls : d \in Fibers \ {c} /\ call[d].prev \in Calls \cup {None}
    BY <1>5 DEF Fibers, IInv, TypeOK, CallRecord
  <2>2. \A d \in Calls : call'[d] = call[d]
    BY <1>5, <2>1
  <2>3. Waits'
    BY <2>1, <2>2 DEF IInv, Chain, Waits, Waiting, Busy
  <2>4. \A p \in Orgs : tail[p] \in Calls \cup {None} /\ Queue(p)' = Queue(p)
    BY <2>2 DEF IInv, TypeOK, Queue
  <2>5. Tails'
    BY <1>4, <2>2, <2>4 DEF IInv, Chain, Tails, Last, Busy
  <2> QED BY <2>3, <2>5 DEF Chain
<1>8. Elsewhere(c) /\ Cleared(c)
  BY <1>3, <1>4, <1>5 DEF Elsewhere, Cleared, Refreshes, Told
<1>9. Stepped(c)
  BY <1>4, <1>5, <1>6, <1>7, <1>8, RefreshLeft DEF Stepped, Elsewhere, IInv, TypeOK
<1>10. TypeRest' /\ Settles(c) /\ UNCHANGED callback
  BY <1>4, <1>5, RestKept DEF RefreshInstallation
<1> QED BY <1>5, <1>9, <1>10, SteppedIInv

\* The acting fiber moves on and nothing else changes.
LEMMA MoveStep ==
    ASSUME IInv, NEW c \in Fibers, NEW r \in CallRecord, call' = [call EXCEPT ![c] = r],
           UNCHANGED <<install, oauth, latest, tail, refreshing, history>>,
           Busy(c), call[c].pc \notin Refreshes, r.pc \notin Refreshes \cup {"idle"},
           r.org = call[c].org, r.prev = call[c].prev, r.before = call[c].before, Told(r),
           r.on # None => r.pc = "await",
           r.pc \in Working /\ c \in Calls => r.prev = None
    PROVE  IInv'
<1>1. Like(call) /\ Cleared(c)
  BY LikeItself DEF Cleared
<1>2. Stepped(c)
  BY <1>1, SetSteps
<1>3. TypeRest' /\ Settles(c) /\ UNCHANGED callback
  BY RestKept DEF Refreshes
<1> QED BY <1>2, <1>3, SteppedIInv

\* The acting fiber ends and nothing else changes but the tail.
LEMMA EndStep ==
    ASSUME IInv, NEW c \in Fibers, End(c), Busy(c), call[c].pc \notin Refreshes,
           c \in Calls => call[c].prev = None,
           UNCHANGED <<install, oauth, latest, refreshing, history>>
    PROVE  IInv'
<1>1. Like(call) /\ Cleared(c) /\ EndFrom(call, c)
  BY LikeItself DEF Cleared, End
<1>2. Stepped(c)
  BY <1>1, EndSteps
<1>3. TypeRest' /\ Settles(c) /\ UNCHANGED callback
  BY RestKept DEF Refreshes
<1> QED BY <1>2, <1>3, SteppedIInv

\* What every fiber at work has.
LEMMA AtWork ==
    ASSUME IInv, NEW c \in Fibers, call[c].pc \in Working
    PROVE  /\ Busy(c) /\ (c \in Calls => call[c].prev = None)
           /\ call[c] \in CallRecord /\ call[c].org \in Orgs /\ Told(call[c])
           /\ call[c].pc \notin Sending => ~call[c].did
           /\ call[c].on # None => call[c].pc = "await"
BY DEF Busy, Working, Answers, IInv, TypeOK, Chain, Waits, Waiting, Refreshing, Told

LEMMA AdmitStep ==
    ASSUME IInv, NEW c \in Calls, Admit(c)
    PROVE  IInv'
<1>1. /\ c \in Fibers /\ call[c].pc = "queued" /\ call[c].prev = None /\ Busy(c)
      /\ call[c].pc \notin Refreshes
      /\ UNCHANGED <<install, oauth, latest, refreshing, history>>
  BY DEF Fibers, Admit, At, Busy, Refreshes
<1>2. CASE call[c].stop
  BY <1>1, <1>2, EndStep DEF Admit
<1>3. CASE ~call[c].stop
  <2> DEFINE r == Moved(call[c], "token")
  <2>1. call' = [call EXCEPT ![c] = r] /\ UNCHANGED tail
    BY <1>3 DEF Admit, Goto, Moved
  <2>2. call[c] \in CallRecord /\ NoRow \in Row
    BY <1>1, GatewayAssumption DEF IInv, TypeOK, NoRow, Row
  <2>3. /\ r \in CallRecord /\ r.pc = "token" /\ r.org = call[c].org /\ r.prev = call[c].prev
        /\ r.before = call[c].before /\ Sent(r) = Sent(call[c]) /\ r.on = call[c].on
    BY <2>2, MovedRecord DEF Working
  <2> HIDE DEF r
  <2>4. r.on = None /\ r.pc \notin Refreshes \cup {"idle"}
    BY <1>1, <2>3 DEF IInv, Refreshing, Refreshes
  <2>5. Told(r)
    BY <1>1, <2>3, QuietTold DEF IInv, Refreshing, Sending
  <2> QED BY <1>1, <2>1, <2>3, <2>4, <2>5, MoveStep
<1> QED BY <1>2, <1>3

LEMMA ReadTokenStep ==
    ASSUME IInv, NEW c \in Fibers, ReadToken(c)
    PROVE  IInv'
<1>1. /\ call[c].pc = "token" /\ call[c].pc \in Working /\ call[c].pc \notin Refreshes
      /\ UNCHANGED <<install, oauth, latest, refreshing, history>>
  BY DEF ReadToken, At, Working, Refreshes
<1> DEFINE row == install[call[c].org]
<1>2. CASE row.pair = 0 \/ row.revoked
  <2>1. End(c)
    BY <1>2 DEF ReadToken
  <2> QED BY <1>1, <2>1, AtWork, EndStep
<1>3. CASE ~(row.pair = 0 \/ row.revoked)
  <2> DEFINE r == MovedWith(call[c], "decide", row)
  <2>1. call' = [call EXCEPT ![c] = r] /\ UNCHANGED tail
    BY <1>3 DEF ReadToken, MovedWith
  <2>2. row \in Row /\ call[c] \in CallRecord /\ call[c].on = None
    BY <1>1, AtWork DEF IInv, TypeOK
  <2>3. /\ r \in CallRecord /\ r.pc = "decide" /\ r.org = call[c].org /\ r.prev = call[c].prev
        /\ r.before = call[c].before /\ Sent(r) = Sent(call[c]) /\ r.on = call[c].on
    BY <2>2, MovedRecord DEF Working
  <2> HIDE DEF r
  <2>4. r.pc \notin Refreshes \cup {"idle"}
    BY <2>3 DEF Refreshes
  <2>5. Told(r)
    BY <1>1, <2>3, AtWork, QuietTold DEF Sending
  <2> QED BY <1>1, <2>1, <2>2, <2>3, <2>4, <2>5, AtWork, MoveStep
<1> QED BY <1>2, <1>3

\* One record of a fiber that joins the refresh of another.
Joining(r, d) == [r EXCEPT !.pc = "await", !.on = d, !.seen = NoRow]

LEMMA JoiningRecord ==
    ASSUME NEW r \in CallRecord, NEW d \in Fibers
    PROVE  LET s == Joining(r, d)
           IN  /\ s \in CallRecord /\ s.pc = "await" /\ s.org = r.org /\ s.prev = r.prev
               /\ s.before = r.before /\ Sent(s) = Sent(r)
<1>1. NoRow \in Row
  BY GatewayAssumption DEF NoRow, Row
<1> QED BY <1>1 DEF CallRecord, Joining, Working, Sent

LEMMA DecideStep ==
    ASSUME IInv, NEW c \in Fibers, Decide(c)
    PROVE  IInv'
<1>1. /\ call[c].pc = "decide" /\ call[c].pc \in Working /\ call[c].pc \notin Refreshes
      /\ UNCHANGED <<install, oauth, latest, history>>
  BY DEF Decide, At, Working, Refreshes
<1>2. /\ Busy(c) /\ (c \in Calls => call[c].prev = None)
      /\ call[c] \in CallRecord /\ call[c].org \in Orgs /\ Told(call[c]) /\ call[c].on = None
      /\ call[c].pc \notin Sending
  BY <1>1, AtWork DEF Sending
<1>3. TypeRest' /\ Settles(c) /\ UNCHANGED callback
  BY <1>1, RestKept
<1>4. CASE ~call[c].seen.expired /\ Proceed(call, c) /\ UNCHANGED refreshing
  <2>1. Like(call) /\ Cleared(c)
    BY <1>1, <1>4, LikeItself DEF Cleared
  <2>2. Stepped(c)
    BY <1>1, <1>2, <1>4, <2>1, ProceedSteps
  <2> QED BY <1>3, <2>2, SteppedIInv
<1>5. CASE /\ call[c].seen.expired /\ Shared(c) # None
           /\ call' = [call EXCEPT ![c].pc = "await", ![c].on = Shared(c), ![c].seen = NoRow]
           /\ UNCHANGED <<tail, refreshing>>
  <2> DEFINE r == Joining(call[c], Shared(c))
  <2>1. call' = [call EXCEPT ![c] = r]
    BY <1>5 DEF Joining
  <2>2. Shared(c) \in Fibers
    BY <1>2, <1>5 DEF Shared, IInv, TypeOK
  <2>3. /\ r \in CallRecord /\ r.pc = "await" /\ r.org = call[c].org /\ r.prev = call[c].prev
        /\ r.before = call[c].before /\ Sent(r) = Sent(call[c])
    BY <1>2, <2>2, JoiningRecord
  <2> HIDE DEF r
  <2>4. r.pc \notin Refreshes \cup {"idle"}
    BY <2>3 DEF Refreshes
  <2>5. Told(r)
    BY <1>2, <2>3, QuietTold
  <2> QED BY <1>1, <1>2, <1>5, <2>1, <2>3, <2>4, <2>5, MoveStep
<1>6. CASE /\ Shared(c) = None /\ Goto(c, "exchange") /\ UNCHANGED tail
           /\ refreshing' = [refreshing EXCEPT ![call[c].org] = c]
  <2> DEFINE r == Moved(call[c], "exchange")
  <2>1. call' = [call EXCEPT ![c] = r]
    BY <1>6 DEF Goto, Moved
  <2>2. NoRow \in Row
    BY GatewayAssumption DEF NoRow, Row
  <2>3. /\ r \in CallRecord /\ r.pc = "exchange" /\ r.org = call[c].org /\ r.prev = call[c].prev
        /\ r.before = call[c].before /\ Sent(r) = Sent(call[c]) /\ r.on = call[c].on
    BY <1>2, <2>2, MovedRecord DEF Working
  <2> HIDE DEF r
  <2>4. Chain' /\ Others(c) /\ call'[c] = r
    <3>1. Like(call) /\ r.pc # "idle" /\ (r.pc \in Working /\ c \in Calls => r.prev = None)
      BY <1>2, <2>3, LikeItself
    <3> QED BY <1>2, <1>6, <2>1, <2>3, <3>1, ChainSet
  <2>5. Refreshing' /\ refreshing' \in [Orgs -> Fibers \cup {None}]
    <3>1. ~r.did
      BY <1>2, <2>3, QuietTold
    <3> QED BY <1>1, <1>2, <1>6, <2>3, <2>4, <3>1, RefreshHeld DEF Shared, Refreshes
  <2>6. Pairs' /\ Known'
    <3>1. call'[c].pc # "store"
      BY <2>3, <2>4
    <3> QED BY <1>3, <2>4, <3>1, PairsLeft DEF Settles
  <2>7. TypeOK'
    BY <1>3, <1>6, <2>4, <2>5 DEF Others, TypeRest, TypeOK, IInv
  <2> QED BY <2>4, <2>5, <2>6, <2>7 DEF IInv
<1> QED BY <1>4, <1>5, <1>6 DEF Decide

\* A fiber that refreshes is the only one of its organization that does.
LEMMA OneRefreshes ==
    ASSUME IInv, NEW c \in Fibers, call[c].pc \in Refreshes
    PROVE  /\ call[c].org \in Orgs /\ refreshing[call[c].org] = c /\ call[c].on = None
           /\ Busy(c) /\ call[c].pc \in Working
           /\ \A d \in Fibers \ {c} : ~(call[d].pc \in Refreshes /\ call[d].org = call[c].org)
BY DEF IInv, Refreshing, Refreshes, Busy, Working

LEMMA ExchangeStep ==
    ASSUME IInv, NEW c \in Fibers, Exchange(c)
    PROVE  IInv'
<1> DEFINE o == call[c].org
           row == [call[c].seen EXCEPT !.pair = latest[o] + 1, !.expired = FALSE]
           r == MovedWith(call[c], "store", row)
<1>1. call[c].pc = "exchange" /\ call[c].pc \in Refreshes
  BY DEF Exchange, At, Refreshes
<1>2. /\ Busy(c) /\ (c \in Calls => call[c].prev = None) /\ call[c] \in CallRecord
      /\ o \in Orgs /\ Told(call[c]) /\ call[c].on = None /\ refreshing[o] = c
      /\ \A d \in Fibers \ {c} : ~(call[d].pc \in Refreshes /\ call[d].org = o)
  BY <1>1, AtWork, OneRefreshes
<1>3. /\ latest' = [latest EXCEPT ![o] = @ + 1] /\ latest[o] < MaxTokens
      /\ unsettled' = [unsettled EXCEPT ![o] = @ \/ Authorizing(o)]
      /\ call' = [call EXCEPT ![c] = r]
      /\ UNCHANGED <<install, oauth, tail, refreshing, webhooks, interrupts>>
  BY DEF Exchange, MovedWith
<1>4. latest[o] \in 0..MaxTokens /\ latest[o] + 1 \in 0..MaxTokens
  BY <1>2, <1>3, GatewayAssumption DEF IInv, TypeOK
<1>5. row \in Row /\ row.pair = latest[o] + 1
  <2>1. call[c].seen \in Row
    BY <1>2 DEF CallRecord
  <2> QED BY <1>4, <2>1 DEF Row
<1> HIDE DEF row
<1>6. /\ r \in CallRecord /\ r.pc = "store" /\ r.org = o /\ r.prev = call[c].prev
      /\ r.before = call[c].before /\ r.seen = row /\ Sent(r) = Sent(call[c]) /\ r.on = call[c].on
  BY <1>2, <1>5, MovedRecord DEF Working
<1> HIDE DEF r
<1>7. Chain' /\ Others(c) /\ call'[c] = r
  <2>1. Like(call) /\ r.pc # "idle" /\ (r.pc \in Working /\ c \in Calls => r.prev = None)
    BY <1>2, <1>6, LikeItself
  <2>2. /\ r.org = call[c].org /\ r.prev = call[c].prev /\ r.before = call[c].before
        /\ r \in CallRecord
    BY <1>6
  <2>3. call' = [call EXCEPT ![c] = r] /\ UNCHANGED tail /\ Busy(c)
    BY <1>2, <1>3
  <2>4. \A q \in CallRecord :
          /\ q = r
          /\ q.pc # "idle" /\ (q.pc \in Working /\ c \in Calls => q.prev = None)
          /\ q.org = call[c].org /\ q.prev = call[c].prev /\ q.before = call[c].before
          => Chain' /\ Others(c) /\ call'[c] = q
    BY <2>1, <2>3, ChainSet
  <2> QED BY <2>1, <2>2, <2>4
<1>8. Refreshing' /\ refreshing' \in [Orgs -> Fibers \cup {None}]
  <2>1. refreshing' = [refreshing EXCEPT ![o] = c]
    BY <1>2, <1>3 DEF IInv, TypeOK
  <2>2. call'[c].pc \in Refreshes
    BY <1>6, <1>7 DEF Refreshes
  <2>3. ~r.did
    BY <1>1, <1>2, <1>6, QuietTold DEF Sending
  <2> QED BY <1>2, <1>6, <1>7, <2>1, <2>2, <2>3, RefreshHeld
<1>9. Pairs'
  <2> SUFFICES ASSUME NEW p \in Orgs, ~unsettled'[p]
               PROVE  Kept(p)'
    BY DEF Pairs
  <2>1. callback' = callback /\ install' = install /\ (Authorizing(p)' <=> Authorizing(p))
    BY <1>3 DEF oauth, Authorizing
  <2>2. CASE p = o
    <3>1. ~Authorizing(o) /\ latest'[o] = latest[o] + 1
      BY <1>2, <1>3, <2>2 DEF IInv, TypeOK
    <3>2. \A b \in Callbacks : ~(callback[b].pc = "store" /\ callback[b].org = o)
      BY <3>1 DEF Authorizing
    <3>3. \A d \in Fibers : call'[d].pc = "store" /\ call'[d].org = o => d = c
      BY <1>2, <1>7 DEF Others, Refreshes
    <3>4. call'[c].seen.pair = latest[o] + 1 /\ Storing(o)'
      BY <1>5, <1>6, <1>7 DEF Storing
    <3>5. \A d \in Fibers : call'[d].pc = "store" /\ call'[d].org = p =>
                              call'[d].seen.pair = latest'[p] /\ ~Authorizing(p)'
      BY <2>1, <2>2, <3>1, <3>3, <3>4
    <3>6. \A b \in Callbacks : ~(callback'[b].pc = "store" /\ callback'[b].org = p)
      BY <2>1, <2>2, <3>2
    <3>7. Storing(p)'
      BY <1>6, <1>7, <2>2 DEF Storing
    <3> QED BY <3>5, <3>6, <3>7 DEF Kept
  <2>3. CASE p # o
    <3>1. ~unsettled[p] /\ latest'[p] = latest[p]
      BY <1>2, <1>3, <2>3 DEF IInv, TypeOK
    <3>2. \A d \in Fibers : /\ call'[d].pc = "store" /\ call'[d].org = p <=>
                               call[d].pc = "store" /\ call[d].org = p
                            /\ d # c => call'[d].seen = call[d].seen
      BY <1>6, <1>7, <2>3 DEF Others
    <3>3. call'[c].org # p
      BY <1>6, <1>7, <2>3
    <3>4. Storing(p)' <=> Storing(p)
      BY <3>2 DEF Storing
    <3> QED BY <2>1, <3>1, <3>2, <3>3, <3>4 DEF IInv, Pairs, Kept
  <2> QED BY <2>2, <2>3
<1>10. Known'
  BY <1>3 DEF oauth, IInv, Known
<1>11. TypeOK'
  BY <1>3, <1>4, <1>7, <1>8 DEF Others, TypeOK, IInv, oauth
<1> QED BY <1>7, <1>8, <1>9, <1>10, <1>11 DEF IInv

\* A refresh that fails leaves nothing of it but what Linear did.
LEMMA RefreshFailsSteps ==
    ASSUME IInv, NEW c \in Fibers, call[c].pc \in Refreshes, RefreshFails(c)
    PROVE  Stepped(c)
<1>1. Busy(c) /\ (c \in Calls => call[c].prev = None) /\ Cleared(c)
  BY OneRefreshes, AtWork DEF RefreshFails, Cleared
<1>2. Like(Resolved(c, "refused")) /\ EndFrom(Resolved(c, "refused"), c)
  BY LikeResolved DEF RefreshFails, Answers
<1> QED BY <1>1, <1>2, EndSteps

LEMMA ExchangeFailsStep ==
    ASSUME IInv, NEW c \in Fibers, ExchangeFails(c)
    PROVE  IInv'
<1>1. /\ call[c].pc = "exchange" /\ call[c].pc \in Refreshes /\ RefreshFails(c)
      /\ UNCHANGED <<install, oauth, webhooks, interrupts>>
  BY DEF ExchangeFails, At, Refreshes
<1>2. call[c].org \in Orgs
  BY <1>1, OneRefreshes
<1>3. CASE UNCHANGED <<latest, unsettled>>
  BY <1>1, <1>3, RefreshFailsSteps, SteppedIInv
     DEF Settles, oauth, TypeRest, IInv, TypeOK
<1>4. CASE /\ latest[call[c].org] < MaxTokens
           /\ latest' = [latest EXCEPT ![call[c].org] = @ + 1]
           /\ unsettled' = [unsettled EXCEPT ![call[c].org] = TRUE]
  <2>1. latest' \in [Orgs -> 0..MaxTokens]
    BY <1>2, <1>4, GatewayAssumption DEF IInv, TypeOK
  <2>2. unsettled' \in [Orgs -> BOOLEAN]
    BY <1>4 DEF IInv, TypeOK
  <2>3. TypeRest' /\ UNCHANGED callback
    BY <1>1, <2>1, <2>2 DEF TypeRest, IInv, TypeOK, oauth
  <2>4. Settles(c)
    BY <1>1, <1>2, <1>4 DEF Settles, IInv, TypeOK
  <2> QED BY <1>1, <2>3, <2>4, RefreshFailsSteps, SteppedIInv
<1> QED BY <1>3, <1>4 DEF ExchangeFails

LEMMA StoreFailsStep ==
    ASSUME IInv, NEW c \in Fibers, StoreFails(c)
    PROVE  IInv'
<1>1. /\ call[c].pc = "store" /\ call[c].pc \in Refreshes /\ RefreshFails(c)
      /\ unsettled' = [unsettled EXCEPT ![call[c].org] = TRUE]
      /\ UNCHANGED <<install, oauth, latest, webhooks, interrupts>>
  BY DEF StoreFails, At, Refreshes
<1>2. TypeRest' /\ UNCHANGED callback
  BY <1>1 DEF TypeRest, IInv, TypeOK, oauth
<1>3. Settles(c)
  BY <1>1 DEF Settles, IInv, TypeOK
<1> QED BY <1>1, <1>2, <1>3, RefreshFailsSteps, SteppedIInv

LEMMA StoreStep ==
    ASSUME IInv, NEW c \in Fibers, Store(c)
    PROVE  IInv'
<1> DEFINE o == call[c].org
<1>1. /\ call[c].pc = "store" /\ call[c].pc \in Refreshes
      /\ install' = [install EXCEPT ![o] = call[c].seen]
      /\ Proceed(Resolved(c, "granted"), c) /\ ClearRefresh(c)
      /\ UNCHANGED <<oauth, latest, history>>
  BY DEF Store, At, Refreshes
<1>2. /\ o \in Orgs /\ call[c].pc \in Working /\ call[c].seen \in Row
      /\ \A d \in Fibers \ {c} : ~(call[d].pc \in Refreshes /\ call[d].org = o)
  BY <1>1, OneRefreshes DEF IInv, TypeOK, CallRecord
<1>3. Stepped(c)
  <2>1. Like(Resolved(c, "granted")) /\ Cleared(c)
    BY <1>1, LikeResolved DEF Answers, Cleared
  <2>2. Resolved(c, "granted")[c].pc \notin Sending \cup {"await"}
    BY <1>1, <2>1 DEF Like, Sending
  <2> QED BY <1>1, <1>2, <2>1, <2>2, ProceedSteps
<1>4. /\ callback' = callback /\ unsettled' = unsettled /\ latest' = latest
      /\ \A p \in Orgs : Authorizing(p)' <=> Authorizing(p)
  BY <1>1 DEF oauth, history, Authorizing
<1>5. install'[o] = call[c].seen /\ \A p \in Orgs \ {o} : install'[p] = install[p]
  BY <1>1, <1>2 DEF IInv, TypeOK
<1>6. call'[c].pc # "store"
  BY <1>3 DEF Stepped, Refreshes
<1>7. Pairs'
  <2> SUFFICES ASSUME NEW p \in Orgs, ~unsettled'[p]
               PROVE  Kept(p)'
    BY DEF Pairs
  <2>1. ~unsettled[p]
    BY <1>4
  <2>2. \A d \in Fibers : call'[d].pc = "store" /\ call'[d].org = p =>
          d # c /\ call[d].pc = "store" /\ call[d].org = p /\ call'[d].seen = call[d].seen
    BY <1>3, <1>6 DEF Stepped, Others
  <2>3. CASE p = o
    <3>1. call[c].seen.pair = latest[p] /\ ~Authorizing(p)
      BY <1>1, <2>1, <2>3 DEF IInv, Pairs, Kept
    <3>2. \A d \in Fibers : ~(call'[d].pc = "store" /\ call'[d].org = p)
      BY <1>2, <2>2, <2>3 DEF Refreshes
    <3>3. \A b \in Callbacks : ~(callback'[b].pc = "store" /\ callback'[b].org = p)
      BY <1>4, <3>1 DEF Authorizing
    <3>4. install'[p].pair = latest'[p]
      BY <1>4, <1>5, <2>3, <3>1
    <3> QED BY <3>2, <3>3, <3>4 DEF Kept
  <2>4. CASE p # o
    <3>1. \A d \in Fibers : call[d].pc = "store" /\ call[d].org = p =>
            call'[d].pc = "store" /\ call'[d].org = p
      BY <1>3, <2>4 DEF Stepped, Others
    <3>2. Storing(p)' <=> Storing(p)
      BY <2>2, <3>1 DEF Storing
    <3>3. install'[p] = install[p]
      BY <1>5, <2>4
    <3> QED BY <1>4, <2>1, <2>2, <3>2, <3>3 DEF IInv, Pairs, Kept
  <2> QED BY <2>3, <2>4
<1>8. Known'
  BY <1>4 DEF IInv, Known
<1>9. TypeOK'
  <2>1. install' \in [Orgs -> Row]
    BY <1>1, <1>2 DEF IInv, TypeOK
  <2> QED BY <1>1, <1>3, <2>1 DEF Stepped, Others, TypeOK, IInv, oauth, history
<1> QED BY <1>3, <1>7, <1>8, <1>9 DEF Stepped, IInv

LEMMA ShareStep ==
    ASSUME IInv, NEW c \in Fibers, Share(c)
    PROVE  IInv'
<1>1. /\ call[c].pc \in {"granted", "refused"} /\ call[c].pc \in Working
      /\ call[c].pc \notin Refreshes /\ call[c].pc \notin Sending \cup {"await"}
      /\ UNCHANGED <<install, oauth, latest, refreshing, history>>
  BY DEF Share, At, Working, Answers, Refreshes, Sending
<1>2. CASE End(c)
  BY <1>1, <1>2, AtWork, EndStep
<1>3. CASE Proceed(call, c)
  <2>1. Like(call) /\ Cleared(c)
    BY <1>1, LikeItself DEF Cleared
  <2>2. Stepped(c)
    BY <1>1, <1>3, <2>1, ProceedSteps
  <2>3. TypeRest' /\ Settles(c) /\ UNCHANGED callback
    BY <1>1, RestKept DEF Refreshes
  <2> QED BY <2>2, <2>3, SteppedIInv
<1> QED BY <1>2, <1>3 DEF Share

LEMMA SucceedStep ==
    ASSUME IInv, NEW c \in Fibers, Succeed(c)
    PROVE  IInv'
<1>1. /\ call[c].pc \in Working /\ call[c].pc \notin Refreshes /\ End(c)
      /\ UNCHANGED <<install, oauth, latest, refreshing, history>>
  BY DEF Succeed, At, Working, Refreshes
<1> QED BY <1>1, AtWork, EndStep

\* A record of a call whose comment or activity is to be read, and of one that
\* sleeps on a rate limit.
Making(r) == [r EXCEPT !.pc = "readback", !.did = TRUE]
Sleeping(r, t, b) == [r EXCEPT !.pc = "limited", !.tries = t, !.unread = b]

LEMMA MakingRecord ==
    ASSUME NEW r \in CallRecord
    PROVE  LET s == Making(r)
           IN  /\ s \in CallRecord /\ s.pc = "readback" /\ s.org = r.org
               /\ s.prev = r.prev /\ s.before = r.before /\ s.on = r.on /\ s.op = r.op
BY DEF CallRecord, Making, Working

LEMMA SleepingRecord ==
    ASSUME NEW r \in CallRecord, NEW t \in 0..1, NEW b \in BOOLEAN
    PROVE  LET s == Sleeping(r, t, b)
           IN  /\ s \in CallRecord /\ s.pc = "limited" /\ s.org = r.org /\ s.prev = r.prev
               /\ s.before = r.before /\ s.on = r.on /\ s.op = r.op /\ s.did = r.did
               /\ s.unread = b /\ s.tries = t
BY DEF CallRecord, Sleeping, Working

LEMMA MadeStep ==
    ASSUME IInv, NEW c \in Fibers, Made(c)
    PROVE  IInv'
<1>1. /\ call[c].pc = "send" /\ call[c].pc \in Working /\ call[c].pc \notin Refreshes
      /\ call[c].op = "create"
      /\ UNCHANGED <<install, oauth, latest, tail, refreshing, history>>
  BY DEF Made, At, Working, Refreshes
<1> DEFINE r == Making(call[c])
<1>2. call' = [call EXCEPT ![c] = r]
  BY DEF Made, Making
<1>3. /\ r \in CallRecord /\ r.pc = "readback" /\ r.org = call[c].org /\ r.prev = call[c].prev
      /\ r.before = call[c].before /\ r.on = call[c].on /\ r.op = call[c].op
  <2>1. call[c] \in CallRecord
    BY <1>1, AtWork
  <2> QED BY <2>1, MakingRecord
<1> HIDE DEF r
<1>4. r.pc \notin Refreshes \cup {"idle"} /\ r.on = None /\ Told(r)
  BY <1>1, <1>3, AtWork DEF Refreshes, Told, Sending
<1> QED BY <1>1, <1>2, <1>3, <1>4, AtWork, MoveStep

LEMMA ErrorStep ==
    ASSUME IInv, NEW c \in Fibers, Error(c)
    PROVE  IInv'
<1>1. /\ call[c].pc \in {"send", "readback"} /\ call[c].pc \in Working
      /\ call[c].pc \notin Refreshes
      /\ UNCHANGED <<install, oauth, latest, refreshing, history>>
  BY DEF Error, Working, Refreshes
<1>2. CASE End(c)
  BY <1>1, <1>2, AtWork, EndStep
<1>3. ASSUME NEW error \in {"limited", "refused", "late"}, Retried(c, error),
             call' = [call EXCEPT ![c].pc = "limited", ![c].tries = @ + 1,
                                  ![c].did = @ \/ error = "late",
                                  ![c].unread = At(c, "readback") /\ error = "limited"],
             UNCHANGED tail
      PROVE  IInv'
  <2>0. PICK b \in BOOLEAN : b = At(c, "readback")
    BY DEF At
  <2> DEFINE r == Sleeping(call[c], 1, b)
  <2>1. /\ call[c] \in CallRecord /\ call[c].tries = 0 /\ error = "limited"
        /\ call[c].did \in BOOLEAN
    BY <1>1, <1>3, AtWork DEF Retried, At, CallRecord
  <2>2. call' = [call EXCEPT ![c] = r]
    <3>1. /\ call[c].tries + 1 = 1
          /\ (call[c].did \/ error = "late") = call[c].did
          /\ (At(c, "readback") /\ error = "limited") = b
      BY <2>0, <2>1
    <3>2. call[c] = [call[c] EXCEPT !.did = call[c].did]
      BY <2>1 DEF CallRecord
    <3>3. [call[c] EXCEPT !.pc = "limited", !.tries = 1, !.did = call[c].did, !.unread = b] = r
      BY <2>1 DEF CallRecord, Sleeping
    <3> HIDE DEF r
    <3>4. call' = [call EXCEPT ![c].pc = "limited", ![c].tries = 1,
                               ![c].did = call[c].did, ![c].unread = b]
      BY <1>3, <3>1
    <3>5. call' = [call EXCEPT ![c] = [call[c] EXCEPT !.pc = "limited", !.tries = 1,
                                                     !.did = call[c].did, !.unread = b]]
      BY <3>4
    <3> QED BY <3>3, <3>5
  <2>3. /\ r \in CallRecord /\ r.pc = "limited" /\ r.org = call[c].org
        /\ r.prev = call[c].prev /\ r.before = call[c].before /\ r.on = call[c].on
        /\ r.op = call[c].op /\ r.did = call[c].did /\ r.unread = b /\ r.tries = 1
    <3>1. 1 \in 0..1
      OBVIOUS
    <3>2. r \in CallRecord
      BY <2>1, <3>1, SleepingRecord
    <3>3. /\ r.pc = "limited" /\ r.org = call[c].org
        /\ r.prev = call[c].prev /\ r.before = call[c].before /\ r.on = call[c].on
        /\ r.op = call[c].op /\ r.did = call[c].did
      BY <2>1 DEF Sleeping, CallRecord
    <3>4. r.unread = b
      BY <2>1, <3>1, SleepingRecord
    <3>5. r.tries = 1
      BY <2>1, <3>1, SleepingRecord
    <3> QED BY <3>2, <3>3, <3>4, <3>5
  <2> HIDE DEF r
  <2>4. Told(call[c]) /\ call[c].on = None
    BY <1>1, AtWork
  <2>5. Told(r)
    <3>1. ~call[c].did \/ (call[c].pc = "readback" /\ call[c].op = "create")
      BY <2>1, <2>4 DEF Told
    <3>2. call[c].pc = "readback" => b
      BY <2>0 DEF At
    <3> QED BY <2>3, <3>1, <3>2 DEF Told, Sending
  <2>6. r.pc \notin Refreshes \cup {"idle"} /\ r.on = None
    BY <2>3, <2>4 DEF Refreshes
  <2> QED BY <1>1, <1>3, <2>2, <2>3, <2>5, <2>6, AtWork, MoveStep
<1> QED BY <1>2, <1>3 DEF Error

LEMMA ResumeStep ==
    ASSUME IInv, NEW c \in Fibers, Resume(c)
    PROVE  IInv'
<1>1. /\ call[c].pc = "limited" /\ call[c].pc \in Working /\ call[c].pc \notin Refreshes
      /\ UNCHANGED <<install, oauth, latest, tail, refreshing, history>>
  BY DEF Resume, At, Working, Refreshes
<1> DEFINE r == Moved(call[c], "send")
<1>2. call' = [call EXCEPT ![c] = r]
  BY DEF Resume, Goto, Moved
<1>3. call[c] \in CallRecord /\ NoRow \in Row
  BY <1>1, AtWork, GatewayAssumption DEF NoRow, Row
<1>4. /\ r \in CallRecord /\ r.pc = "send" /\ r.org = call[c].org /\ r.prev = call[c].prev
      /\ r.before = call[c].before /\ Sent(r) = Sent(call[c]) /\ r.on = call[c].on
  BY <1>3, MovedRecord DEF Working
<1> HIDE DEF r
<1>5. r.pc \notin Refreshes \cup {"idle"} /\ r.on = None /\ Told(r)
  <2>1. Told(call[c]) /\ call[c].on = None
    BY <1>1, AtWork
  <2> QED BY <1>1, <1>4, <2>1 DEF Refreshes, Told, Sent, Sending
<1> QED BY <1>1, <1>2, <1>4, <1>5, AtWork, MoveStep

\* The record of a call that is to be stopped.
Stopping(r) == [r EXCEPT !.stop = TRUE]

LEMMA StoppingRecord ==
    ASSUME NEW r \in CallRecord
    PROVE  LET s == Stopping(r)
           IN  /\ s \in CallRecord /\ s.pc = r.pc /\ s.org = r.org /\ s.prev = r.prev
               /\ s.before = r.before /\ Sent(s) = Sent(r) /\ s.on = r.on
BY DEF CallRecord, Stopping, Sent

LEMMA InterruptStep ==
    ASSUME IInv, NEW c \in Fibers, Interrupt(c)
    PROVE  IInv'
<1>1. /\ c \in Fibers /\ interrupts' = interrupts + 1 /\ interrupts < MaxInterrupts
      /\ UNCHANGED <<install, oauth, latest, webhooks>>
  BY DEF Fibers, Interrupt
<1>2. interrupts' \in 0..MaxInterrupts
  BY <1>1, GatewayAssumption DEF IInv, TypeOK
<1>3. ASSUME unsettled' \in [Orgs -> BOOLEAN] PROVE TypeRest' /\ UNCHANGED callback
  BY <1>1, <1>2, <1>3 DEF TypeRest, IInv, TypeOK, oauth
<1>4. CASE /\ At(c, "queued")
           /\ call' = [call EXCEPT ![c].stop = TRUE]
           /\ UNCHANGED <<tail, refreshing, unsettled>>
  <2> DEFINE r == Stopping(call[c])
  <2>1. call' = [call EXCEPT ![c] = r] /\ call[c].pc = "queued" /\ Busy(c)
    BY <1>4 DEF Stopping, At, Busy
  <2>2. call[c] \in CallRecord /\ Told(call[c]) /\ call[c].on = None
    BY <1>1, <2>1 DEF IInv, TypeOK, Refreshing
  <2>3. /\ r \in CallRecord /\ r.pc = "queued" /\ r.org = call[c].org
        /\ r.prev = call[c].prev /\ r.before = call[c].before /\ Told(r) /\ r.on = None
    BY <2>1, <2>2, StoppingRecord, QuietTold DEF Sending
  <2> HIDE DEF r
  <2>4. r.pc \notin Refreshes \cup Working \cup {"idle"}
    BY <2>3 DEF Refreshes, Working, Answers
  <2>5. Like(call) /\ Cleared(c)
    BY <1>4, <2>1, LikeItself DEF Cleared, Refreshes
  <2>6. Stepped(c)
    BY <1>1, <1>4, <2>1, <2>3, <2>4, <2>5, SetSteps
  <2>7. Settles(c)
    BY <1>1, <1>4, <2>1 DEF Settles
  <2>8. TypeRest' /\ UNCHANGED callback
    BY <1>3, <1>4 DEF IInv, TypeOK
  <2> QED BY <1>1, <2>6, <2>7, <2>8, SteppedIInv
<1>5. CASE /\ call[c].pc \in Working
           /\ EndFrom(Orphaned(c), c)
           /\ IF call[c].pc \in {"exchange", "store"}
              THEN /\ ClearRefresh(c)
                   /\ unsettled' = [unsettled EXCEPT ![call[c].org] = TRUE]
              ELSE UNCHANGED <<refreshing, unsettled>>
  <2>1. Like(Orphaned(c)) /\ Cleared(c)
    BY <1>1, <1>5, LikeOrphaned DEF Cleared, Refreshes
  <2>2. Stepped(c)
    BY <1>1, <1>5, <2>1, AtWork, EndSteps
  <2>3. unsettled' \in [Orgs -> BOOLEAN]
    BY <1>5 DEF IInv, TypeOK
  <2>4. Settles(c)
    BY <1>1, <1>5 DEF Settles, IInv, TypeOK
  <2> QED BY <1>1, <1>3, <2>2, <2>3, <2>4, SteppedIInv
<1> QED BY <1>4, <1>5 DEF Interrupt

-----------------------------------------------------------------------------
(* The steps of the others, which leave the fibers as they are.            *)

LEMMA FibersKept ==
    ASSUME IInv, UNCHANGED <<call, tail, refreshing>>
    PROVE  /\ Chain' /\ Refreshing'
           /\ \A o \in Orgs : Storing(o)' <=> Storing(o)
           /\ TypeRest' => TypeOK'
<1>1. Waits'
  <2> SUFFICES ASSUME NEW d \in Calls PROVE Waiting(d)'
    BY DEF Waits
  <2> QED BY DEF IInv, Chain, Waits, Waiting, Busy
<1>2. Tails'
  <2> SUFFICES ASSUME NEW o \in Orgs PROVE Last(o)'
    BY DEF Tails
  <2> QED BY DEF IInv, Chain, Tails, Last, Busy, Queue
<1>3. Refreshing'
  BY DEF IInv, Refreshing, Busy
<1> QED BY <1>1, <1>2, <1>3 DEF Chain, Storing, TypeOK, TypeRest, IInv

\* The pairs and the callbacks stay.
LEMMA QuietStep ==
    ASSUME IInv, UNCHANGED <<callback, latest, tail, refreshing, call, unsettled>>,
           \A o \in Orgs : install'[o].pair = install[o].pair, TypeRest'
    PROVE  IInv'
<1>1. \A o \in Orgs : (Authorizing(o)' <=> Authorizing(o)) /\ (Storing(o)' <=> Storing(o))
  BY FibersKept DEF Authorizing
<1>2. Pairs'
  BY <1>1 DEF IInv, Pairs, Kept
<1>3. Known'
  BY DEF IInv, Known
<1> QED BY <1>2, <1>3, FibersKept DEF IInv

LEMMA TokenExpiresStep ==
    ASSUME IInv, NEW o \in Orgs, TokenExpires(o)
    PROVE  IInv'
<1> DEFINE row == [install[o] EXCEPT !.expired = TRUE]
<1>1. /\ install' = [install EXCEPT ![o] = row]
      /\ UNCHANGED <<oauth, latest, tail, refreshing, call, history>>
  BY DEF TokenExpires
<1>2. install[o] \in Row
  BY DEF IInv, TypeOK
<1>3. row \in Row /\ row.pair = install[o].pair
  BY <1>2 DEF Row
<1> HIDE DEF row
<1>4. TypeRest' /\ \A p \in Orgs : install'[p].pair = install[p].pair
  BY <1>1, <1>3 DEF IInv, TypeOK, TypeRest, oauth, history
<1> QED BY <1>1, <1>4, QuietStep DEF oauth, history

LEMMA RevokeStep ==
    ASSUME IInv, NEW o \in Orgs, Revoke(o)
    PROVE  IInv'
<1> DEFINE row == [install[o] EXCEPT !.revoked = TRUE]
<1>1. /\ install' = [install EXCEPT ![o] = row]
      /\ webhooks < MaxWebhooks /\ webhooks' = webhooks + 1
      /\ UNCHANGED <<oauth, latest, tail, refreshing, call, unsettled, interrupts>>
  BY DEF Revoke, Webhook
<1>2. install[o] \in Row /\ webhooks' \in 0..MaxWebhooks
  BY <1>1, GatewayAssumption DEF IInv, TypeOK
<1>3. row \in Row /\ row.pair = install[o].pair
  BY <1>2 DEF Row
<1> HIDE DEF row
<1>4. TypeRest' /\ \A p \in Orgs : install'[p].pair = install[p].pair
  BY <1>1, <1>2, <1>3 DEF IInv, TypeOK, TypeRest, oauth
<1> QED BY <1>1, <1>4, QuietStep DEF oauth

LEMMA PermissionChangeStep ==
    ASSUME IInv, NEW o \in Orgs, PermissionChange(o)
    PROVE  IInv'
<1>1. PICK added, removed \in SUBSET Teams :
         install' = [install EXCEPT ![o].teams = TeamsAfter(o, added, removed)]
  BY DEF PermissionChange
<1> DEFINE teams == TeamsAfter(o, added, removed)
           row == [install[o] EXCEPT !.teams = teams]
<1>2. /\ install' = [install EXCEPT ![o] = row]
      /\ webhooks < MaxWebhooks /\ webhooks' = webhooks + 1
      /\ UNCHANGED <<oauth, latest, tail, refreshing, call, unsettled, interrupts>>
  BY <1>1 DEF PermissionChange, Webhook
<1>3. install[o] \in Row /\ webhooks' \in 0..MaxWebhooks
  BY <1>2, GatewayAssumption DEF IInv, TypeOK
<1>4. teams \in SUBSET Teams
  BY <1>3 DEF TeamsAfter, Row
<1> HIDE DEF teams
<1>5. row \in Row /\ row.pair = install[o].pair
  BY <1>3, <1>4 DEF Row
<1> HIDE DEF row
<1>6. TypeRest' /\ \A p \in Orgs : install'[p].pair = install[p].pair
  BY <1>2, <1>3, <1>5 DEF IInv, TypeOK, TypeRest, oauth
<1> QED BY <1>2, <1>6, QuietStep DEF oauth

LEMMA ConsentStep ==
    ASSUME IInv, NEW s \in Consents, StartAuthorization(s) \/ ConsentExpires(s)
    PROVE  IInv'
<1>1. /\ UNCHANGED <<install, callback, latest, tail, refreshing, call, history>>
      /\ consent' \in [Consents -> {"absent", "open", "spent"}]
  BY DEF StartAuthorization, ConsentExpires, IInv, TypeOK
<1>2. TypeRest'
  BY <1>1 DEF IInv, TypeOK, TypeRest, history
<1> QED BY <1>1, <1>2, QuietStep DEF history

\* A callback that begins or gives up.
LEMMA CallbackStep ==
    ASSUME IInv, NEW b \in Callbacks, NEW q,
           q \in [pc : {"idle", "exchange"}, org : Orgs \cup {None}, pair : 0..MaxTokens],
           callback' = [callback EXCEPT ![b] = q], callback[b].pc # "store",
           UNCHANGED <<install, latest, tail, refreshing, call, history>>,
           consent' \in [Consents -> {"absent", "open", "spent"}]
    PROVE  IInv'
<1>1. /\ callback'[b] = q /\ q.pc # "store"
      /\ \A d \in Callbacks \ {b} : callback'[d] = callback[d]
  BY DEF IInv, TypeOK
<1>2. \A d \in Callbacks : /\ callback'[d].pc = "store" <=> callback[d].pc = "store"
                           /\ callback[d].pc = "store" => callback'[d] = callback[d]
  BY <1>1
<1>3. \A o \in Orgs : (Authorizing(o)' <=> Authorizing(o)) /\ (Storing(o)' <=> Storing(o))
  BY <1>2, FibersKept DEF Authorizing
<1>4. Pairs'
  BY <1>2, <1>3 DEF IInv, Pairs, Kept, history
<1>5. Known'
  BY <1>2 DEF IInv, Known
<1>6. TypeRest'
  <2>1. callback' \in [Callbacks -> [pc : {"idle", "exchange", "store"},
                                     org : Orgs \cup {None}, pair : 0..MaxTokens]]
    BY DEF IInv, TypeOK
  <2> QED BY <2>1 DEF IInv, TypeOK, TypeRest, history
<1> QED BY <1>4, <1>5, <1>6, FibersKept DEF IInv

LEMMA AwaitingType ==
    Awaiting \in [pc : {"idle", "exchange"}, org : Orgs \cup {None}, pair : 0..MaxTokens]
BY GatewayAssumption DEF Awaiting

LEMMA ConsumeStateStep ==
    ASSUME IInv, NEW b \in Callbacks, NEW s \in Consents, ConsumeState(b, s)
    PROVE  IInv'
<1>1. UNCHANGED <<install, latest, tail, refreshing, call, history>> /\ callback[b].pc = "idle"
  BY DEF ConsumeState
<1>2. CASE Usable(s)
  <2> DEFINE q == [callback[b] EXCEPT !.pc = "exchange"]
  <2>1. callback' = [callback EXCEPT ![b] = q] /\ consent' = [consent EXCEPT ![s] = "spent"]
    BY <1>2 DEF ConsumeState
  <2>2. q \in [pc : {"idle", "exchange"}, org : Orgs \cup {None}, pair : 0..MaxTokens]
    BY DEF IInv, TypeOK
  <2>3. consent' \in [Consents -> {"absent", "open", "spent"}]
    BY <2>1 DEF IInv, TypeOK
  <2> HIDE DEF q
  <2> QED BY <1>1, <2>1, <2>2, <2>3, CallbackStep
<1>3. CASE ~Usable(s)
  <2>1. UNCHANGED <<install, callback, latest, tail, refreshing, call, unsettled>> /\ TypeRest'
    BY <1>3 DEF ConsumeState, oauth, history, IInv, TypeOK, TypeRest
  <2> QED BY <2>1, QuietStep
<1> QED BY <1>2, <1>3

LEMMA ExchangeCodeStep ==
    ASSUME IInv, NEW b \in Callbacks, ExchangeCode(b)
    PROVE  IInv'
<1>1. /\ callback[b].pc = "exchange" /\ callback \in [Callbacks -> [pc : {"idle", "exchange", "store"},
                                               org : Orgs \cup {None}, pair : 0..MaxTokens]]
      /\ UNCHANGED <<install, consent, tail, refreshing, call, webhooks, interrupts>>
  BY DEF ExchangeCode, IInv, TypeOK
<1>2. CASE callback' = [callback EXCEPT ![b] = Awaiting] /\ UNCHANGED <<latest, unsettled>>
  BY <1>1, <1>2, AwaitingType, CallbackStep DEF history, IInv, TypeOK
<1>3. ASSUME NEW o \in Orgs, latest[o] < MaxTokens,
             latest' = [latest EXCEPT ![o] = @ + 1],
             callback' = [callback EXCEPT ![b].pc = "store", ![b].org = o,
                                          ![b].pair = latest[o] + 1],
             unsettled' = [unsettled EXCEPT ![o] = @ \/ refreshing[o] # None
                                                     \/ Authorizing(o)]
      PROVE  IInv'
  <2>1. latest[o] \in 0..MaxTokens /\ latest[o] + 1 \in 0..MaxTokens
    BY <1>3, GatewayAssumption DEF IInv, TypeOK
  <2> DEFINE t == latest[o] + 1
             q == [callback[b] EXCEPT !.pc = "store", !.org = o, !.pair = t]
  <2>2. callback' = [callback EXCEPT ![b] = q] /\ latest' = [latest EXCEPT ![o] = t]
    BY <1>3
  <2> HIDE DEF t
  <2>3. /\ q \in [pc : {"idle", "exchange", "store"}, org : Orgs \cup {None}, pair : 0..MaxTokens]
        /\ q.pc = "store" /\ q.org = o /\ q.pair = t
    BY <1>1, <2>1 DEF t
  <2> HIDE DEF q
  <2>4. /\ callback'[b] = q /\ \A d \in Callbacks \ {b} : callback'[d] = callback[d]
    BY <1>1, <2>2
  <2>5. TypeRest'
    <3>1. latest' \in [Orgs -> 0..MaxTokens]
      BY <2>1, <2>2 DEF IInv, TypeOK, t
    <3>2. callback' \in [Callbacks -> [pc : {"idle", "exchange", "store"},
                                       org : Orgs \cup {None}, pair : 0..MaxTokens]]
      BY <1>1, <2>2, <2>3
    <3>3. unsettled' \in [Orgs -> BOOLEAN]
      BY <1>3 DEF IInv, TypeOK
    <3> QED BY <1>1, <3>1, <3>2, <3>3 DEF IInv, TypeOK, TypeRest
  <2>6. Known'
    BY <2>3, <2>4 DEF IInv, Known
  <2>7. Pairs'
    <3> SUFFICES ASSUME NEW p \in Orgs, ~unsettled'[p]
                 PROVE  Kept(p)'
      BY DEF Pairs
    <3>1. CASE p = o
      <4>1. refreshing[o] = None /\ ~Authorizing(o) /\ latest'[o] = t
        BY <1>3, <2>2, <3>1 DEF IInv, TypeOK
      <4>2. \A d \in Fibers : ~(call'[d].pc = "store" /\ call'[d].org = p)
        BY <1>1, <3>1, <4>1, GatewayAssumption DEF IInv, Refreshing
      <4>3. \A d \in Callbacks : callback'[d].pc = "store" /\ callback'[d].org = p => d = b
        BY <2>4, <3>1, <4>1 DEF Authorizing
      <4>4. Authorizing(p)'
        BY <2>3, <2>4, <3>1 DEF Authorizing
      <4> QED BY <2>3, <2>4, <3>1, <4>1, <4>2, <4>3, <4>4 DEF Kept
    <3>2. CASE p # o
      <4>1. ~unsettled[p] /\ latest'[p] = latest[p]
        BY <1>3, <2>2, <3>2 DEF IInv, TypeOK
      <4>2. \A d \in Callbacks : callback'[d].pc = "store" /\ callback'[d].org = p =>
              d # b /\ callback[d].pc = "store" /\ callback[d].org = p /\ callback'[d] = callback[d]
        BY <2>3, <2>4, <3>2
      <4>3. \A d \in Callbacks : callback[d].pc = "store" /\ callback[d].org = p =>
              callback'[d].pc = "store" /\ callback'[d].org = p
        BY <1>1, <2>4
      <4>4. Authorizing(p)' <=> Authorizing(p)
        BY <4>2, <4>3 DEF Authorizing
      <4>5. Storing(p)' <=> Storing(p)
        BY <1>1, FibersKept
      <4> QED BY <1>1, <4>1, <4>2, <4>4, <4>5 DEF IInv, Pairs, Kept
    <3> QED BY <3>1, <3>2
  <2> QED BY <1>1, <2>5, <2>6, <2>7, FibersKept DEF IInv
<1> QED BY <1>2, <1>3 DEF ExchangeCode

LEMMA StoreInstallationStep ==
    ASSUME IInv, NEW b \in Callbacks, StoreInstallation(b)
    PROVE  IInv'
<1> DEFINE o == callback[b].org
           row == [pair |-> callback[b].pair, expired |-> FALSE, revoked |-> FALSE, teams |-> {}]
<1>1. /\ callback[b].pc = "store" /\ o \in Orgs /\ callback[b].pair \in 0..MaxTokens
      /\ install' = [install EXCEPT ![o] = row]
      /\ callback' = [callback EXCEPT ![b] = Awaiting]
      /\ UNCHANGED <<consent, latest, tail, refreshing, call, history>>
  BY DEF StoreInstallation, IInv, Known, TypeOK
<1>2. row \in Row /\ row.pair = callback[b].pair
  BY <1>1 DEF Row
<1> HIDE DEF row
<1>3. /\ callback'[b].pc # "store" /\ \A d \in Callbacks \ {b} : callback'[d] = callback[d]
      /\ install'[o] = row /\ \A p \in Orgs \ {o} : install'[p] = install[p]
  BY <1>1 DEF IInv, TypeOK, Awaiting
<1>4. TypeRest'
  <2>1. callback' \in [Callbacks -> [pc : {"idle", "exchange", "store"},
                                     org : Orgs \cup {None}, pair : 0..MaxTokens]]
    BY <1>1, AwaitingType DEF IInv, TypeOK
  <2> QED BY <1>1, <1>2, <2>1 DEF IInv, TypeOK, TypeRest, history
<1>5. Known'
  BY <1>3 DEF IInv, Known
<1>6. Pairs'
  <2> SUFFICES ASSUME NEW p \in Orgs, ~unsettled'[p]
               PROVE  Kept(p)'
    BY DEF Pairs
  <2>1. ~unsettled[p] /\ latest'[p] = latest[p] /\ call' = call
    BY <1>1 DEF history
  <2>2. \A d \in Callbacks : callback'[d].pc = "store" /\ callback'[d].org = p =>
          d # b /\ callback[d].pc = "store" /\ callback[d].org = p /\ callback'[d] = callback[d]
    BY <1>3
  <2>3. CASE p = o
    <3>1. callback[b].pair = latest[p] /\ Authorizing(p)
      BY <1>1, <2>1, <2>3 DEF IInv, Pairs, Kept, Authorizing
    <3>2. \A d \in Fibers : ~(call'[d].pc = "store" /\ call'[d].org = p)
      BY <2>1, <3>1 DEF IInv, Pairs, Kept
    <3>3. \A d \in Callbacks : ~(callback'[d].pc = "store" /\ callback'[d].org = p)
      BY <1>1, <2>1, <2>2, <2>3 DEF IInv, Pairs, Kept
    <3> QED BY <1>2, <1>3, <2>1, <2>3, <3>1, <3>2, <3>3 DEF Kept
  <2>4. CASE p # o
    <3>1. \A d \in Callbacks : callback[d].pc = "store" /\ callback[d].org = p =>
            callback'[d].pc = "store" /\ callback'[d].org = p
      BY <1>3, <2>4
    <3>2. Authorizing(p)' <=> Authorizing(p)
      BY <2>2, <3>1 DEF Authorizing
    <3>3. Storing(p)' <=> Storing(p)
      BY <1>1, FibersKept
    <3> QED BY <1>3, <2>1, <2>2, <2>4, <3>2, <3>3 DEF IInv, Pairs, Kept
  <2> QED BY <2>3, <2>4
<1> QED BY <1>1, <1>4, <1>5, <1>6, FibersKept DEF IInv

-----------------------------------------------------------------------------
(* The theorems.                                                           *)

LEMMA NextIInv == IInv /\ [Next]_vars => IInv'
<1> SUFFICES ASSUME IInv, [Next]_vars PROVE IInv'
  OBVIOUS
<1>1. CASE UNCHANGED vars
  <2>1. UNCHANGED <<callback, latest, tail, refreshing, call, unsettled, install>> /\ TypeRest'
    BY <1>1 DEF vars, oauth, history, IInv, TypeOK, TypeRest
  <2> QED BY <2>1, QuietStep
<1>2. ASSUME NEW o \in Orgs, NEW c \in Calls, Begin(c, o) PROVE IInv'
  BY <1>2, BeginStep
<1>3. ASSUME NEW o \in Orgs, NEW c \in Direct, RefreshInstallation(c, o) PROVE IInv'
  BY <1>3, RefreshInstallationStep
<1>4. ASSUME NEW o \in Orgs, TokenExpires(o) \/ Revoke(o) \/ PermissionChange(o) PROVE IInv'
  BY <1>4, TokenExpiresStep, RevokeStep, PermissionChangeStep
<1>5. ASSUME NEW c \in Fibers,
             \/ ReadToken(c) \/ Decide(c) \/ Exchange(c) \/ ExchangeFails(c)
             \/ Store(c) \/ StoreFails(c) \/ Share(c) \/ Interrupt(c)
      PROVE  IInv'
  BY <1>5, ReadTokenStep, DecideStep, ExchangeStep, ExchangeFailsStep, StoreStep, StoreFailsStep,
     ShareStep, InterruptStep
<1>6. ASSUME NEW c \in Calls,
             Admit(c) \/ Succeed(c) \/ Made(c) \/ Error(c) \/ Resume(c)
      PROVE  IInv'
  BY <1>6, AdmitStep, SucceedStep, MadeStep, ErrorStep, ResumeStep DEF Fibers
<1>7. ASSUME NEW s \in Consents, StartAuthorization(s) \/ ConsentExpires(s) PROVE IInv'
  BY <1>7, ConsentStep
<1>8. ASSUME NEW s \in Consents, NEW b \in Callbacks, ConsumeState(b, s) PROVE IInv'
  BY <1>8, ConsumeStateStep
<1>9. ASSUME NEW b \in Callbacks, ExchangeCode(b) \/ StoreInstallation(b) PROVE IInv'
  BY <1>9, ExchangeCodeStep, StoreInstallationStep
<1> QED BY <1>1, <1>2, <1>3, <1>4, <1>5, <1>6, <1>7, <1>8, <1>9 DEF Next

\* The invariant holds in every state of the gateway.
THEOREM Invariance == Spec => []IInv
<1>1. Init => IInv
  BY InitIInv
<1>2. IInv /\ [Next]_vars => IInv'
  BY NextIInv
<1> QED BY <1>1, <1>2, PTL DEF Spec

\* The record, the queue and the fibers keep their types; a call is sent to
\* Linear twice at most.
THEOREM TypeCorrect == Spec => []TypeOK
<1>1. IInv => TypeOK
  BY DEF IInv
<1> QED BY <1>1, Invariance, PTL

\* While a call of an organization works (withOrgQueue), every call that
\* joined its queue before it has ended.
THEOREM OneAtATime == Spec => []InOrder
<1>1. IInv => InOrder
  BY DEF IInv, Chain, Waits, Waiting, InOrder
<1> QED BY <1>1, Invariance, PTL

\* What Linear did for a call is asked of it again only if the request that
\* reads it back met a rate limit, and then once (withRateLimitRetry around
\* createIssueComment and createActivity).
THEOREM RepeatedIfUnread == Spec => []RepeatsOnlyUnread
<1>1. IInv => RepeatsOnlyUnread
  BY DEF IInv, Refreshing, Told, RepeatsOnlyUnread, At, Fibers
<1> QED BY <1>1, Invariance, PTL

\* The newest token pair is the one in the database (refreshTokens), unless
\* an answer was lost or a refresh met an authorization.
THEOREM NewestKept == Spec => []PairKept
<1>1. IInv => PairKept
  <2> SUFFICES ASSUME IInv, NEW o \in Orgs, refreshing[o] = None, ~Authorizing(o), ~unsettled[o]
               PROVE  install[o].pair = latest[o]
    BY DEF PairKept
  <2>1. ~Storing(o)
    BY GatewayAssumption DEF IInv, Refreshing, Storing
  <2> QED BY <2>1 DEF IInv, Pairs, Kept
<1> QED BY <1>1, Invariance, PTL
=============================================================================
