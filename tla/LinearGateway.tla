---------------------------- MODULE LinearGateway ----------------------------
(***************************************************************************)
(* LinearGateway and the installation record it works on: the queue of an  *)
(* organization (withOrgQueue), the choice of a token (ensureToken), its   *)
(* refresh shared by concurrent callers (refreshTokens), the calls of      *)
(* Linear with their one retry after a rate limit; and, beside them, what  *)
(* else writes the record: the OAuth callback, the webhooks for a          *)
(* revocation and for a change of team access.                             *)
(*                                                                         *)
(* A call of the model is one call of an operation by one fiber.  Reading  *)
(* or writing the record waits for WebCrypto, so that other fibers run     *)
(* between reading it, deciding on it and storing it.  Linear is external: *)
(* it answers, refuses, answers with a rate limit or fails after it did    *)
(* what it was asked; refresh tokens rotate, and an older one is accepted  *)
(* for a grace period only.  Two operations read back what they made, with *)
(* a second request in the block that a rate limit runs again.             *)
(***************************************************************************)
EXTENDS Naturals

CONSTANTS
    Orgs, Teams,
    Calls,       \* calls of an operation that goes through the queue
    Direct,      \* calls of refreshInstallation, which does not
    Consents,    \* OAuth states handed out
    Callbacks,   \* requests of the OAuth callback
    None,
    MaxTokens,   \* bound: token pairs Linear issues for an organization
    MaxWebhooks, \* bound: webhooks about the installation
    MaxInterrupts \* bound: fibers interrupted

Fibers == Calls \cup Direct

ASSUME GatewayAssumption ==
    /\ Calls \cap Direct = {} /\ None \notin Fibers \cup Orgs
    /\ MaxTokens \in Nat \ {0}
    /\ {MaxWebhooks, MaxInterrupts} \subseteq Nat

VARIABLES
    install,    \* the row of installation: [pair, expired, revoked, teams]
    consent,    \* oauth_state rows
    callback,   \* the callbacks: step, organization and pair found
    latest,     \* external: the last token pair Linear issued
    tail,       \* queues: the last call that joined the queue
    refreshing, \* refreshing: the fiber whose Deferred is in the map
    call,       \* the fibers
    unsettled,  \* history: a pair Linear issued was dropped, or issued to a
                \* callback and a refresh at once
    webhooks, interrupts   \* events so far, for the bounds

vars == <<install, consent, callback, latest, tail, refreshing, call,
          unsettled, webhooks, interrupts>>

oauth == <<consent, callback>>
history == <<unsettled, webhooks, interrupts>>

\* The result of a refresh that a fiber waited for: the record, or a failure.
Answers == {"granted", "refused"}
\* Past the wait for the queue: the restored part of withOrgQueue.
Working == {"token", "decide", "exchange", "store", "await", "send", "readback", "limited"}
               \cup Answers

\* What a call asks: what one request does (or several that only read), or to
\* make something that a second request reads back for its id.
Operations == {"single", "create"}

NoRow == [pair |-> 0, expired |-> TRUE, revoked |-> FALSE, teams |-> {}]
\* A fiber that is in no call.  op: what it asks; prev: the call whose end it
\* waits for; seen: the record it read; on: the fiber whose refresh it waits
\* for; stop: the fiber is to be interrupted; did (history): Linear did what
\* the call asks; unread (history): what it made could not be read back for a
\* rate limit; before (history): the calls that joined its queue before it and
\* have not ended.
Idle == [pc |-> "idle", org |-> None, op |-> "single", prev |-> None, seen |-> NoRow,
         on |-> None, tries |-> 0, stop |-> FALSE, did |-> FALSE, unread |-> FALSE,
         before |-> {}]

At(c, pc) == call[c].pc = pc
Goto(c, pc) == call' = [call EXCEPT ![c].pc = pc]

-----------------------------------------------------------------------------
(* The queue of an organization.                                           *)

\* The calls of an organization that have joined its queue and not ended.
Queue(o) == {c \in Calls : call[c].pc # "idle" /\ call[c].org = o}

\* withOrgQueue, first part: the call becomes the last of the chain and
\* waits, uninterruptibly, for the one before it.
Join(c, o, op) ==
    /\ At(c, "idle")
    /\ call' = [call EXCEPT ![c] = [Idle EXCEPT !.pc = "queued", !.org = o, !.op = op,
                                                !.prev = tail[o], !.before = Queue(o)]]
    /\ tail' = [tail EXCEPT ![o] = c]
    /\ UNCHANGED <<install, oauth, latest, refreshing, history>>

\* Mutant of TailAfter: the entry goes, whose it may be.
TailAfterAny(c) == IF c \in Calls THEN [tail EXCEPT ![call[c].org] = None] ELSE tail

\* The finalizer of withOrgQueue: the entry goes only if it is the call's own.
TailAfter(c) ==
    LET o == call[c].org
    IN  IF c \in Calls /\ tail[o] = c THEN [tail EXCEPT ![o] = None] ELSE tail

\* Mutant of Freed: a call that was stopped does not complete its Deferred.
FreedUnlessStopped(f, c) ==
    [d \in Fibers |->
        IF d = c THEN Idle
        ELSE [f[d] EXCEPT !.prev = IF @ = c /\ ~f[c].stop THEN None ELSE @,
                          !.before = @ \ {c}]]

\* The fiber c is done, and the call that waited for it goes on: its Deferred
\* is completed.
Freed(f, c) ==
    [d \in Fibers |->
        IF d = c THEN Idle
        ELSE [f[d] EXCEPT !.prev = IF @ = c THEN None ELSE @,
                          !.before = @ \ {c}]]

\* The call ends and leaves its place to the next.
EndFrom(f, c) ==
    /\ call' = Freed(f, c)
    /\ tail' = TailAfter(c)

End(c) == EndFrom(call, c)

Admit(c) ==
    /\ At(c, "queued") /\ call[c].prev = None
    /\ IF call[c].stop
       THEN End(c)
       ELSE Goto(c, "token") /\ UNCHANGED tail
    /\ UNCHANGED <<install, oauth, latest, refreshing, history>>

-----------------------------------------------------------------------------
(* The operations.  What each refuses at once (an unknown run, contents of *)
(* no known type, an issue or a field that is missing, nothing to add)     *)
(* changes nothing and joins no queue.                                     *)

\* The activity is read back if Linear's answer will not name it.
CreateActivity(c, o) == \E op \in Operations : Join(c, o, op)

UpdateSession(c, o) == Join(c, o, "single")

UpdateIssue(c, o) == Join(c, o, "single")

AddSessionExternalUrls(c, o) == Join(c, o, "single")

CreateIssueComment(c, o) == Join(c, o, "create")

CreateSessionOnIssue(c, o) == Join(c, o, "single")

ListSessionActivities(c, o) == Join(c, o, "single")

GetIssue(c, o) == Join(c, o, "single")

RepositorySuggestions(c, o) == Join(c, o, "single")

\* teamStartedStates, when its cache has no young entry.
TeamStartedStates(c, o) == Join(c, o, "single")

\* refreshInstallation: ensureToken without the queue.
RefreshInstallation(c, o) ==
    /\ At(c, "idle")
    /\ call' = [call EXCEPT ![c] = [Idle EXCEPT !.pc = "token", !.org = o]]
    /\ UNCHANGED <<install, oauth, latest, tail, refreshing, history>>

-----------------------------------------------------------------------------
(* ensureToken and refreshTokens.                                          *)

\* What follows ensureToken: the call itself, or the end of refreshInstallation.
Proceed(f, c) ==
    IF c \in Direct
    THEN EndFrom(f, c)
    ELSE /\ call' = [f EXCEPT ![c].pc = "send", ![c].seen = NoRow]
         /\ UNCHANGED tail

\* installationRepo.get: the row as it is now, decrypted while others run.
ReadToken(c) ==
    /\ At(c, "token")
    /\ LET row == install[call[c].org]
       IN  IF row.pair = 0 \/ row.revoked
           THEN End(c)
           ELSE /\ call' = [call EXCEPT ![c].pc = "decide", ![c].seen = row]
                /\ UNCHANGED tail
    /\ UNCHANGED <<install, oauth, latest, refreshing, history>>

\* Mutant of Shared: every fiber that finds the token expired refreshes it.
SharedNever(c) == None

\* The entry of the map this fiber finds: the refresh in progress, or none.
Shared(c) == refreshing[call[c].org]

\* A token that lives longer than TOKEN_REFRESH_BUFFER_MS is used as it is;
\* otherwise the fiber joins the refresh in progress or begins one.
Decide(c) ==
    /\ At(c, "decide")
    /\ \/ /\ ~call[c].seen.expired
          /\ Proceed(call, c)
          /\ UNCHANGED refreshing
       \/ /\ call[c].seen.expired /\ Shared(c) # None
          /\ call' = [call EXCEPT ![c].pc = "await", ![c].on = Shared(c), ![c].seen = NoRow]
          /\ UNCHANGED <<tail, refreshing>>
       \/ /\ call[c].seen.expired /\ Shared(c) = None
          /\ Goto(c, "exchange")
          /\ refreshing' = [refreshing EXCEPT ![call[c].org] = c]
          /\ UNCHANGED tail
    /\ UNCHANGED <<install, oauth, latest, history>>

\* The Deferred of a refresh is completed: those who wait for it have its
\* result.
Resolved(c, result) ==
    [d \in Fibers |-> IF call[d].on = c THEN [call[d] EXCEPT !.pc = result, !.on = None]
                      ELSE call[d]]

ClearRefresh(c) == refreshing' = [refreshing EXCEPT ![call[c].org] = None]

\* The refresh fails, and with it all who wait for it.
RefreshFails(c) ==
    /\ EndFrom(Resolved(c, "refused"), c)
    /\ ClearRefresh(c)

\* A callback holds a pair for the organization and has not stored it yet.
Authorizing(o) == \E b \in Callbacks : callback[b].pc = "store" /\ callback[b].org = o

\* exchangeToken answers: Linear issues the next pair, for the last refresh
\* token or, during the grace period, for an older one.
Exchange(c) ==
    /\ At(c, "exchange")
    /\ LET o == call[c].org
       IN  /\ latest[o] < MaxTokens
           /\ latest' = [latest EXCEPT ![o] = @ + 1]
           /\ call' = [call EXCEPT ![c].pc = "store",
                                   ![c].seen = [@ EXCEPT !.pair = latest[o] + 1,
                                                         !.expired = FALSE]]
           /\ unsettled' = [unsettled EXCEPT ![o] = @ \/ Authorizing(o)]
    /\ UNCHANGED <<install, oauth, tail, refreshing,
                   webhooks, interrupts>>

\* The exchange is refused or does not get through, or its answer does not.
ExchangeFails(c) ==
    /\ At(c, "exchange")
    /\ \/ UNCHANGED <<latest, unsettled>>
       \/ LET o == call[c].org
          IN  /\ latest[o] < MaxTokens
              /\ latest' = [latest EXCEPT ![o] = @ + 1]
              /\ unsettled' = [unsettled EXCEPT ![o] = TRUE]
    /\ RefreshFails(c)
    /\ UNCHANGED <<install, oauth, webhooks, interrupts>>

\* performRefresh stores the record it was given, with the new pair.
Store(c) ==
    /\ At(c, "store")
    /\ install' = [install EXCEPT ![call[c].org] = call[c].seen]
    /\ Proceed(Resolved(c, "granted"), c)
    /\ ClearRefresh(c)
    /\ UNCHANGED <<oauth, latest, history>>

\* The database or the cipher fails: the new pair is lost.
StoreFails(c) ==
    /\ At(c, "store")
    /\ unsettled' = [unsettled EXCEPT ![call[c].org] = TRUE]
    /\ RefreshFails(c)
    /\ UNCHANGED <<install, oauth, latest, webhooks, interrupts>>

\* A fiber that joined the refresh of another has its result.
Share(c) ==
    /\ \/ At(c, "granted") /\ Proceed(call, c)
       \/ At(c, "refused") /\ End(c)
    /\ UNCHANGED <<install, oauth, latest, refreshing, history>>

-----------------------------------------------------------------------------
(* The call of Linear, under withRateLimitRetry(1).                        *)

\* Linear did it and said so, or what it made is read.
Succeed(c) ==
    /\ \/ At(c, "send") /\ call[c].op = "single"
       \/ At(c, "readback")
    /\ End(c)
    /\ UNCHANGED <<install, oauth, latest, refreshing, history>>

\* Linear made it, and it has to be read: the comment, or the activity that
\* the answer does not name.
Made(c) ==
    /\ At(c, "send") /\ call[c].op = "create"
    /\ call' = [call EXCEPT ![c].pc = "readback", ![c].did = TRUE]
    /\ UNCHANGED <<install, oauth, latest, tail, refreshing, history>>

\* Mutant of Retried: so is every other error.
RetriedAlways(c, error) == call[c].tries = 0

\* Only a rate limit is retried, and only once, whichever request met it.
Retried(c, error) == error = "limited" /\ call[c].tries = 0

\* An error: a rate limit, a refusal, or one that reaches the caller after
\* Linear did what it was asked.  The retry begins with the first request.
Error(c) == \E error \in {"limited", "refused", "late"} :
    /\ call[c].pc \in {"send", "readback"}
    /\ IF Retried(c, error)
       THEN /\ call' = [call EXCEPT ![c].pc = "limited", ![c].tries = @ + 1,
                                   ![c].did = @ \/ error = "late",
                                   ![c].unread = At(c, "readback") /\ error = "limited"]
            /\ UNCHANGED tail
       ELSE End(c)
    /\ UNCHANGED <<install, oauth, latest, refreshing, history>>

\* The sleep is over.
Resume(c) ==
    /\ At(c, "limited")
    /\ Goto(c, "send")
    /\ UNCHANGED <<install, oauth, latest, tail, refreshing, history>>

\* Those who wait for the refresh of an interrupted fiber wait for a Deferred
\* that nobody completes.
Orphaned(c) == [d \in Fibers |-> IF call[d].on = c THEN [call[d] EXCEPT !.on = None] ELSE call[d]]

\* The fiber is interrupted (a session's scope closes, the gateway stops), in
\* the queue, at work, or in refreshInstallation.
\* The wait for the queue is not interruptible: the stop is honored after it.
\* An exchange under way is not aborted, its answer is dropped; the entry of
\* the map is removed.
Interrupt(c) ==
    /\ interrupts < MaxInterrupts
    /\ interrupts' = interrupts + 1
    /\ \/ /\ At(c, "queued") /\ ~call[c].stop
          /\ call' = [call EXCEPT ![c].stop = TRUE]
          /\ UNCHANGED <<tail, refreshing, unsettled>>
       \/ /\ call[c].pc \in Working
          /\ EndFrom(Orphaned(c), c)
          /\ IF call[c].pc \in {"exchange", "store"}
             THEN /\ ClearRefresh(c)
                  /\ unsettled' = [unsettled EXCEPT ![call[c].org] = TRUE]
             ELSE UNCHANGED <<refreshing, unsettled>>
    /\ UNCHANGED <<install, oauth, latest, webhooks>>

-----------------------------------------------------------------------------
(* Others that write the record.                                           *)

\* Time passes: a token comes within the buffer of its expiry.
TokenExpires(o) ==
    /\ install[o] # NoRow /\ ~install[o].expired
    /\ install' = [install EXCEPT ![o].expired = TRUE]
    /\ UNCHANGED <<oauth, latest, tail, refreshing, call, history>>

Webhook ==
    /\ webhooks < MaxWebhooks
    /\ webhooks' = webhooks + 1
    /\ UNCHANGED <<oauth, latest, tail, refreshing, call, unsettled, interrupts>>

\* OAuthApp revoked.  What the webhook asks of the runs of the organization is
\* in SessionAuthority.
Revoke(o) ==
    /\ Webhook
    /\ install[o] # NoRow
    /\ install' = [install EXCEPT ![o].revoked = TRUE]

TeamsAfter(o, added, removed) == (install[o].teams \cup added) \ removed

\* PermissionChange: the teams of the record change; a revoked or unknown
\* installation refuses the webhook.
PermissionChange(o) == \E added, removed \in SUBSET Teams :
    /\ Webhook
    /\ install[o] # NoRow /\ ~install[o].revoked
    /\ install' = [install EXCEPT ![o].teams = TeamsAfter(o, added, removed)]

\* A browser that has not come back yet.
Awaiting == [pc |-> "idle", org |-> None, pair |-> 0]

\* startAuthorization hands out a state; it expires after ten minutes.
StartAuthorization(s) ==
    /\ consent[s] = "absent"
    /\ consent' = [consent EXCEPT ![s] = "open"]
    /\ UNCHANGED <<install, callback, latest, tail, refreshing, call, history>>

ConsentExpires(s) ==
    /\ consent[s] = "open"
    /\ consent' = [consent EXCEPT ![s] = "spent"]
    /\ UNCHANGED <<install, callback, latest, tail, refreshing, call, history>>

\* consumeOAuthState: its WHERE.
Usable(s) == consent[s] = "open"

\* completeAuthorization: the state is consumed first, in one transaction.
ConsumeState(b, s) ==
    /\ callback[b].pc = "idle" /\ consent[s] # "absent"
    /\ IF Usable(s)
       THEN /\ consent' = [consent EXCEPT ![s] = "spent"]
            /\ callback' = [callback EXCEPT ![b].pc = "exchange"]
       ELSE UNCHANGED oauth
    /\ UNCHANGED <<install, latest, tail, refreshing, call, history>>

\* The code is exchanged and the organization found out, or either fails, or
\* the organization is not allowed.
ExchangeCode(b) ==
    /\ callback[b].pc = "exchange"
    /\ \/ \E o \in Orgs :
             /\ latest[o] < MaxTokens
             /\ latest' = [latest EXCEPT ![o] = @ + 1]
             /\ callback' = [callback EXCEPT ![b].pc = "store", ![b].org = o,
                                             ![b].pair = latest[o] + 1]
             /\ unsettled' = [unsettled EXCEPT ![o] = @ \/ refreshing[o] # None
                                                         \/ Authorizing(o)]
       \/ /\ callback' = [callback EXCEPT ![b] = Awaiting]
          /\ UNCHANGED <<latest, unsettled>>
    /\ UNCHANGED <<install, consent, tail, refreshing, call, webhooks, interrupts>>

\* installationRepo.put of a new record, over the one that may be there.
StoreInstallation(b) ==
    /\ callback[b].pc = "store"
    /\ LET o == callback[b].org
       IN  install' = [install EXCEPT ![o] = [pair |-> callback[b].pair, expired |-> FALSE,
                                              revoked |-> FALSE, teams |-> {}]]
    /\ callback' = [callback EXCEPT ![b] = Awaiting]
    /\ UNCHANGED <<consent, latest, tail, refreshing, call, history>>

-----------------------------------------------------------------------------
(* The system.                                                             *)

Begin(c, o) ==
    \/ CreateActivity(c, o) \/ UpdateSession(c, o) \/ UpdateIssue(c, o)
    \/ AddSessionExternalUrls(c, o) \/ CreateIssueComment(c, o)
    \/ CreateSessionOnIssue(c, o) \/ ListSessionActivities(c, o) \/ GetIssue(c, o)
    \/ RepositorySuggestions(c, o) \/ TeamStartedStates(c, o)

\* The installation may be there from before, or not.
Init ==
    /\ install \in [Orgs -> {NoRow, [NoRow EXCEPT !.pair = 1]}]
    /\ latest = [o \in Orgs |-> install[o].pair]
    /\ consent = [s \in Consents |-> "absent"]
    /\ callback = [b \in Callbacks |-> Awaiting]
    /\ tail = [o \in Orgs |-> None]
    /\ refreshing = [o \in Orgs |-> None]
    /\ call = [c \in Fibers |-> Idle]
    /\ unsettled = [o \in Orgs |-> FALSE]
    /\ webhooks = 0 /\ interrupts = 0

Next ==
    \/ \E o \in Orgs :
          \/ \E c \in Calls : Begin(c, o)
          \/ \E c \in Direct : RefreshInstallation(c, o)
          \/ TokenExpires(o) \/ Revoke(o) \/ PermissionChange(o)
    \/ \E c \in Fibers :
          \/ ReadToken(c) \/ Decide(c) \/ Exchange(c) \/ ExchangeFails(c)
          \/ Store(c) \/ StoreFails(c) \/ Share(c) \/ Interrupt(c)
    \/ \E c \in Calls :
          \/ Admit(c) \/ Succeed(c) \/ Made(c) \/ Error(c) \/ Resume(c)
    \/ \E s \in Consents :
          \/ StartAuthorization(s) \/ ConsentExpires(s)
          \/ \E b \in Callbacks : ConsumeState(b, s)
    \/ \E b \in Callbacks : ExchangeCode(b) \/ StoreInstallation(b)

Spec == Init /\ [][Next]_vars

\* A fiber that can go on does, and what it waits for outside (Linear, the
\* database, a sleep) comes to an end, well or badly.
FiberStep(c) ==
    \/ ReadToken(c) \/ Decide(c) \/ Exchange(c) \/ ExchangeFails(c)
    \/ Store(c) \/ StoreFails(c) \/ Share(c)

FairSpec ==
    /\ Spec
    /\ \A c \in Fibers : WF_vars(FiberStep(c))
    /\ \A c \in Calls : WF_vars(Admit(c) \/ Succeed(c) \/ Made(c) \/ Error(c) \/ Resume(c))

-----------------------------------------------------------------------------
(* Properties.                                                             *)

Row == [pair : 0..MaxTokens, expired : BOOLEAN, revoked : BOOLEAN, teams : SUBSET Teams]

CallRecord ==
    [pc : {"idle", "queued"} \cup Working, org : Orgs \cup {None}, op : Operations,
     prev : Calls \cup {None}, seen : Row, on : Fibers \cup {None}, tries : 0..1,
     stop : BOOLEAN, did : BOOLEAN, unread : BOOLEAN, before : SUBSET Calls]

\* The state keeps its types; a call is sent twice at most.
TypeOK ==
    /\ install \in [Orgs -> Row]
    /\ consent \in [Consents -> {"absent", "open", "spent"}]
    /\ callback \in [Callbacks -> [pc : {"idle", "exchange", "store"},
                                    org : Orgs \cup {None}, pair : 0..MaxTokens]]
    /\ latest \in [Orgs -> 0..MaxTokens]
    /\ tail \in [Orgs -> Calls \cup {None}] /\ refreshing \in [Orgs -> Fibers \cup {None}]
    /\ call \in [Fibers -> CallRecord]
    /\ unsettled \in [Orgs -> BOOLEAN]
    /\ webhooks \in 0..MaxWebhooks /\ interrupts \in 0..MaxInterrupts

\* The calls of an organization are made one at a time and in the order in
\* which they joined its queue, whichever of them fail, sleep on a rate limit
\* or are interrupted: while one works, all before it have ended.
InOrder == \A c \in Calls : call[c].pc \in Working => call[c].before = {}

\* The pair in the database is the last one Linear issued, so that the next
\* refresh works, whenever no refresh or authorization is under way, unless
\* an answer was lost or a refresh met an authorization: of two fibers that
\* find the token expired, inside and outside the queue, one refreshes it,
\* and no older pair is stored over a newer one.
PairKept ==
    \A o \in Orgs :
        refreshing[o] = None /\ ~Authorizing(o) /\ ~unsettled[o]
            => install[o].pair = latest[o]

\* What Linear did for a call is asked of it again in one case only: a comment,
\* or an activity the answer did not name, was made, and the request that reads
\* it back met a rate limit.  Then it is asked for once more.  No other error
\* after Linear acted leads to a second attempt.
RepeatsOnlyUnread ==
    \A c \in Calls :
        At(c, "send") /\ call[c].did
            => call[c].op = "create" /\ call[c].unread /\ call[c].tries = 1

\* A call of the organization waits for a refresh that was interrupted, whose
\* Deferred nobody completes.
Stranded(o) == \E c \in Calls : At(c, "await") /\ call[c].on = None /\ call[c].org = o

\* Every call that joins the queue ends, though the fibers before it fail, are
\* interrupted while they wait or work, or refresh the token on the way, unless
\* a call of its organization is stranded: it joined the refresh of a
\* refreshInstallation that was then interrupted.
QueuedReturns ==
    \A c \in Calls : At(c, "queued") ~> (At(c, "idle") \/ Stranded(call[c].org))

\* A revoked installation stays revoked until the organization authorizes the
\* gateway again.
RevocationHolds ==
    [][\A o \in Orgs : install[o].revoked /\ ~install'[o].revoked
          => \E b \in Callbacks : callback[b].pc = "store" /\ callback'[b] = Awaiting]_vars

=============================================================================
