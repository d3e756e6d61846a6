------------------------------ MODULE McpOAuth ------------------------------
(***************************************************************************)
(* MCP servers and their OAuth: the flow that connects a server            *)
(* (startMcpAuthorization, completeMcpAuthorization), disconnect, the      *)
(* administrator's changes of a server, and the tokens the proxies of the  *)
(* workers mint (mintCredential, refreshTokens), with one refresh at a     *)
(* time for a server.                                                      *)
(*                                                                         *)
(* Fibers run between any two waits (decryption, an HTTP request); a       *)
(* statement or a transaction is one step.  The authorization server and   *)
(* the MCP server are external: one issues pairs of tokens, may refuse and *)
(* may keep or rotate the refresh token, the other may come to reject an   *)
(* access token before it expires.                                         *)
(*                                                                         *)
(* A pair of tokens is a number, that of its access token.  updated_at is  *)
(* the time at which the fiber that wrote the credential started; taking   *)
(* these times to differ, "the row has the updated_at of the row read"     *)
(* says that it has the pair of the row read, and the model compares those.*)
(***************************************************************************)
EXTENDS Naturals, FiniteSets

CONSTANTS
    Servers, Urls,
    Requests,  \* requests to the proxy of a worker
    States,    \* authorizations, each with its state parameter
    Callbacks, \* requests of the OAuth callback
    Edits,     \* PUT requests of an administrator
    Past,      \* an authorization of an earlier time
    None,
    MaxTokens, \* bound: pairs issued
    MaxLapses, \* bound: pairs that expire or are rejected before they do
    MaxEdits   \* bound: changes of servers and disconnections

ASSUME McpAssumption ==
    /\ None \notin Servers \cup Urls \cup Requests \cup States
    /\ Past \notin States \cup {None}
    /\ MaxTokens \in Nat \ {0} /\ {MaxLapses, MaxEdits} \subseteq Nat

VARIABLES
    server,     \* mcp_server: [url, enabled]
    credential, \* mcp_oauth_credential: [pair, refresh, url, grant]
    state,      \* mcp_oauth_state, with the fiber that inserts the row
    callback,   \* the callbacks
    flight,     \* refreshState: the request that refreshes for a server
    req,        \* the requests
    edit,       \* the PUT requests
    issued, stale, dead, \* external: the last pair, those past their expiry
                \* (less a minute), those rejected
    granted,    \* history: the authorization that connected a server last
    spent,      \* history: refresh tokens of servers whose successor was stored
    edits       \* changes so far, for the bound

vars == <<server, credential, state, callback, flight, req, edit, issued,
          stale, dead, granted, spent, edits>>

connecting == <<state, callback>>
admin == <<server, edit, edits>>
minting == <<flight, req>>
external == <<issued, stale, dead>>

NoServer == [url |-> None, enabled |-> FALSE]
\* pair 0: there is no row; refresh 0: no refresh token came with the pair.
NoCredential == [pair |-> 0, refresh |-> 0, url |-> None, grant |-> None]
NewState == [at |-> "none", server |-> None, url |-> None]
NoEdit == [at |-> "idle", server |-> None, url |-> None, enabled |-> FALSE]
NoCallback == [at |-> "idle", state |-> None, pair |-> 0, refresh |-> 0]
\* seen: the row read last; rejected: the access token that got a 401; old:
\* what was past its expiry when mintCredential read the clock; got, kept: the
\* access and refresh token of the answer.
NoRequest == [pc |-> "idle", server |-> None, url |-> None, seen |-> NoCredential,
              rejected |-> 0, old |-> {}, on |-> None, got |-> 0, kept |-> 0]

At(r, pc) == req[r].pc = pc
Goto(r, pc) == req' = [req EXCEPT ![r].pc = pc]

-----------------------------------------------------------------------------
(* Connecting a server.                                                    *)

\* startMcpAuthorization, up to discovery and registration of a client.
BeginAuthorization(x, s) ==
    /\ state[x].at = "none"
    /\ server[s] # NoServer /\ server[s].enabled
    /\ state' = [state EXCEPT ![x] = [at |-> "discovery", server |-> s, url |-> server[s].url]]
    /\ UNCHANGED <<credential, callback, admin, minting, external, granted, spent>>

\* The rows that remain when a new one is inserted: expired rows are pruned,
\* the open ones of the server are invalidated.
Invalidated(s) ==
    [x \in States |->
        IF state[x].at = "expired" \/ (state[x].at = "open" /\ state[x].server = s)
        THEN [state[x] EXCEPT !.at = "gone"] ELSE state[x]]

\* ... and the state is handed out, or discovery failed.
InsertState(x) ==
    /\ state[x].at = "discovery"
    /\ \/ state' = [Invalidated(state[x].server) EXCEPT ![x].at = "open"]
       \/ state' = [state EXCEPT ![x].at = "gone"]
    /\ UNCHANGED <<credential, callback, admin, minting, external, granted, spent>>

StateExpires(x) ==
    /\ state[x].at = "open"
    /\ state' = [state EXCEPT ![x].at = "expired"]
    /\ UNCHANGED <<credential, callback, admin, minting, external, granted, spent>>

\* completeMcpAuthorization: the row is found, and the code and the client
\* are decrypted; or the provider sent an error, which consumes the row.
BeginCallback(k, x) ==
    /\ callback[k].at = "idle" /\ state[x].at = "open"
    /\ \/ /\ callback' = [callback EXCEPT ![k] = [@ EXCEPT !.at = "consume", !.state = x]]
          /\ UNCHANGED state
       \/ /\ state' = [state EXCEPT ![x].at = "gone"]
          /\ UNCHANGED callback
    /\ UNCHANGED <<credential, admin, minting, external, granted, spent>>

\* The callback is answered, with success or a failure.
Over(k) == callback' = [callback EXCEPT ![k] = NoCallback]

\* The UPDATE that consumes the row finds it.  Its clock is the one read at
\* the start, so that a row that expired since is found unless it was pruned.
Consumable(x) == state[x].at \in {"open", "expired"}

Consume(k) ==
    /\ callback[k].at = "consume"
    /\ IF Consumable(callback[k].state)
       THEN /\ callback' = [callback EXCEPT ![k].at = "redeem"]
            /\ state' = [x \in States |->
                            IF x = callback[k].state \/ state[x].at = "expired"
                            THEN [state[x] EXCEPT !.at = "gone"] ELSE state[x]]
       ELSE /\ Over(k)
            /\ UNCHANGED state
    /\ UNCHANGED <<credential, admin, minting, external, granted, spent>>

\* redeemCode: the code is exchanged for a pair, with a refresh token or not.
RedeemCode(k) ==
    /\ callback[k].at = "redeem"
    /\ \/ /\ issued < MaxTokens /\ issued' = issued + 1
          /\ \E refresh \in {0, issued + 1} :
                callback' = [callback EXCEPT ![k] = [@ EXCEPT !.at = "store", !.pair = issued + 1,
                                                              !.refresh = refresh]]
       \/ /\ Over(k)
          /\ UNCHANGED issued
    /\ UNCHANGED <<state, credential, admin, minting, stale, dead, granted, spent>>

\* The last transaction: the server must be as it was when the flow started.
StoreCredential(k) ==
    LET x == callback[k].state
        s == state[x].server
        fits == server[s].enabled /\ server[s].url = state[x].url
    IN  /\ callback[k].at = "store"
        /\ Over(k)
        /\ IF fits
           THEN /\ credential' = [credential EXCEPT ![s] =
                        [pair |-> callback[k].pair, refresh |-> callback[k].refresh,
                         url |-> state[x].url, grant |-> x]]
                /\ granted' = [granted EXCEPT ![s] = x]
           ELSE UNCHANGED <<credential, granted>>
        /\ UNCHANGED <<state, admin, minting, external, spent>>

StoreCredentialFails(k) ==
    /\ callback[k].at = "store"
    /\ Over(k)
    /\ UNCHANGED <<state, credential, admin, minting, external, granted, spent>>

-----------------------------------------------------------------------------
(* What an administrator does.                                             *)

\* The rows that go with a credential: those not consumed yet.
Withdrawn(s) ==
    [x \in States |-> IF state[x].server = s /\ state[x].at \in {"open", "expired"}
                      THEN [state[x] EXCEPT !.at = "gone"] ELSE state[x]]

\* disconnect, by itself or on the way to a change.
Disconnected(s) ==
    /\ credential' = [credential EXCEPT ![s] = NoCredential]
    /\ state' = Withdrawn(s)
    /\ granted' = [granted EXCEPT ![s] = None]

Change == edits < MaxEdits /\ edits' = edits + 1

Disconnect(s) ==
    /\ Change
    /\ Disconnected(s)
    /\ UNCHANGED <<server, edit, callback, minting, external, spent>>

\* PUT: a change of the URL or of the OAuth client invalidates the credential.
BeginPut(e, s) == \E u \in Urls, enabled, newClient \in BOOLEAN :
    /\ edit[e].at = "idle" /\ server[s] # NoServer
    /\ Change
    /\ edit' = [edit EXCEPT ![e] =
                    [at |-> IF newClient \/ u # server[s].url THEN "disconnect" ELSE "update",
                     server |-> s, url |-> u, enabled |-> enabled]]
    /\ UNCHANGED <<server, credential, connecting, minting, external, granted, spent>>

PutDisconnects(e) ==
    /\ edit[e].at = "disconnect"
    /\ Disconnected(edit[e].server)
    /\ edit' = [edit EXCEPT ![e].at = "update"]
    /\ UNCHANGED <<server, edits, callback, minting, external, spent>>

\* updateMcpServer: every field is given; a server that is gone is not found,
\* and one that goes meanwhile is not updated.
UpdateServer(e) ==
    /\ edit[e].at = "update"
    /\ LET s == edit[e].server
       IN  server' = IF server[s] = NoServer THEN server
                     ELSE [server EXCEPT ![s] = [url |-> edit[e].url, enabled |-> edit[e].enabled]]
    /\ edit' = [edit EXCEPT ![e] = NoEdit]
    /\ UNCHANGED <<edits, credential, connecting, minting, external, granted, spent>>

CreateServer(s) == \E u \in Urls :
    /\ server[s] = NoServer
    /\ Change
    /\ server' = [server EXCEPT ![s] = [url |-> u, enabled |-> TRUE]]
    /\ UNCHANGED <<edit, credential, connecting, minting, external, granted, spent>>

\* deleteMcpServer: the states stay.
DeleteServer(s) ==
    /\ server[s] # NoServer
    /\ Change
    /\ server' = [server EXCEPT ![s] = NoServer]
    /\ credential' = [credential EXCEPT ![s] = NoCredential]
    /\ granted' = [granted EXCEPT ![s] = None]
    /\ UNCHANGED <<edit, connecting, minting, external, spent>>

-----------------------------------------------------------------------------
(* The proxy of a worker.                                                  *)

\* getCredentialDetails: the row for the URL the server has now.
Details(s) ==
    IF server[s] # NoServer /\ credential[s].url = server[s].url THEN credential[s]
    ELSE NoCredential

\* startWorkerMcpProxy at the start of a worker, for a server that is enabled
\* and connected.
StartProxy(r, s) ==
    /\ At(r, "idle")
    /\ server[s].enabled /\ Details(s) # NoCredential
    /\ req' = [req EXCEPT ![r] = [NoRequest EXCEPT !.pc = "ready", !.server = s,
                                                   !.url = server[s].url]]
    /\ UNCHANGED <<credential, connecting, admin, flight, external, granted, spent>>

\* The worker sends a request.
Request(r) ==
    /\ At(r, "ready")
    /\ Goto(r, "read")
    /\ UNCHANGED <<credential, connecting, admin, flight, external, granted, spent>>

\* A request as it is between two: with its worker's server and URL.
Between(q) == [NoRequest EXCEPT !.pc = "ready", !.server = q.server, !.url = q.url]

\* The request is answered; with a 502 when it has no token, and a run event
\* tells the operator.
Back(r) == req' = [req EXCEPT ![r] = Between(@)]

\* The request has its token and can be sent.
WithToken(q, t) == [q EXCEPT !.pc = "send", !.got = t, !.on = None, !.kept = 0,
                             !.seen = NoCredential, !.old = {}]

\* mintCredential reads the credential.
ReadCredential(r) ==
    /\ At(r, "read")
    /\ IF Details(req[r].server) = NoCredential
       THEN Back(r)
       ELSE req' = [req EXCEPT ![r].pc = "decide", ![r].seen = Details(req[r].server)]
    /\ UNCHANGED <<credential, connecting, admin, flight, external, granted, spent>>

\* mintCredential decides: the token read will do, or it is refreshed, by
\* this fiber or by the one that does so already.
Mint(r) ==
    LET q == req[r]
    IN  /\ At(r, "decide")
        /\ CASE q.url # q.seen.url -> Back(r) /\ UNCHANGED flight
             [] q.url = q.seen.url /\ q.seen.pair \notin stale \cup {q.rejected} ->
                    req' = [req EXCEPT ![r] = WithToken(@, q.seen.pair)] /\ UNCHANGED flight
             [] q.url = q.seen.url /\ q.seen.pair \in stale \cup {q.rejected} ->
                    IF q.seen.refresh = 0
                    THEN Back(r) /\ UNCHANGED flight
                    ELSE IF flight[q.server] # None
                    THEN /\ req' = [req EXCEPT ![r].pc = "await", ![r].on = flight[q.server],
                                               ![r].seen = NoCredential]
                         /\ UNCHANGED flight
                    ELSE /\ flight' = [flight EXCEPT ![q.server] = r]
                         /\ req' = [req EXCEPT ![r].pc = "reread", ![r].old = stale]
        /\ UNCHANGED <<credential, connecting, admin, external, granted, spent>>

\* Mutant of Failed: the waiters are not told.
FailedAlone(r) == [d \in Requests |-> IF d = r THEN Between(req[d]) ELSE req[d]]

\* The requests after a refresh that came to nothing, for all who wait for it.
Failed(r) == [d \in Requests |-> IF d = r \/ req[d].on = r THEN Between(req[d]) ELSE req[d]]

\* The finalizer of refreshTokens removes the entry.
Landed(r) == flight' = [flight EXCEPT ![req[r].server] = None]

RefreshFails(r) == req' = Failed(r) /\ Landed(r)

\* The token t answers the fiber that refreshed and those that wait for it.
Answered(r, t) ==
    /\ req' = [d \in Requests |-> IF d = r \/ req[d].on = r THEN WithToken(req[d], t) ELSE req[d]]
    /\ Landed(r)

\* Mutant of Current: what the fiber read before it claimed the flight.
CurrentAsRead(r) == req[r].seen

\* The row as it is after the flight was claimed.
Current(r) == Details(req[r].server)

\* refreshTokens reads the credential again, so that a refresh token that was
\* rotated by the flight before is not sent again.  A change that brought a
\* fresh token is the answer.
Reread(r) ==
    LET q == req[r]
        now == Current(r)
    IN  /\ At(r, "reread")
        /\ CASE now = NoCredential \/ now.url # q.seen.url -> RefreshFails(r)
             [] now # NoCredential /\ now.url = q.seen.url
                /\ now.pair # q.seen.pair /\ now.pair \notin q.old -> Answered(r, now.pair)
             [] now # NoCredential /\ now.url = q.seen.url
                /\ ~(now.pair # q.seen.pair /\ now.pair \notin q.old) ->
                    IF now.refresh = 0 THEN RefreshFails(r)
                    ELSE /\ req' = [req EXCEPT ![r].pc = "exchange", ![r].seen = now, ![r].old = {}]
                         /\ UNCHANGED flight
        /\ UNCHANGED <<credential, connecting, admin, external, granted, spent>>

\* refreshAccessToken: a new access token, with a new refresh token or, when
\* the answer names none, the old one.
RefreshAccessToken(r) == \E kept \in {req[r].seen.refresh, issued + 1} :
    /\ At(r, "exchange")
    /\ issued < MaxTokens /\ issued' = issued + 1
    /\ req' = [req EXCEPT ![r].pc = "persist", ![r].got = issued + 1, ![r].kept = kept]
    /\ UNCHANGED <<credential, connecting, admin, flight, stale, dead, granted, spent>>

\* The provider refuses or does not answer in time; or the result cannot be
\* encrypted or stored.
ExchangeFails(r) ==
    /\ At(r, "exchange") \/ At(r, "persist")
    /\ RefreshFails(r)
    /\ UNCHANGED <<credential, connecting, admin, external, granted, spent>>

\* Mutant of Unchanged: the row is updated whoever wrote it last.
UnchangedOrNot(r) == credential[req[r].server].pair # 0

\* The WHERE of persistRefreshedToken: the row is the one that was read.
Unchanged(r) == credential[req[r].server].pair = req[r].seen.pair

\* The refreshed pair is stored and handed out, or discarded.
PersistRefreshedToken(r) ==
    LET q == req[r]
    IN  /\ At(r, "persist")
        /\ IF Unchanged(r)
           THEN /\ credential' = [credential EXCEPT ![q.server] =
                        [@ EXCEPT !.pair = q.got, !.refresh = q.kept, !.grant = q.seen.grant]]
                /\ spent' = IF q.kept = q.seen.refresh THEN spent
                            ELSE spent \cup {<<q.server, q.seen.refresh>>}
                /\ Answered(r, q.got)
           ELSE RefreshFails(r) /\ UNCHANGED <<credential, spent>>
        /\ UNCHANGED <<connecting, admin, external, granted>>

\* The MCP server takes the request, or fails for a reason of its own.
SendAccepted(r) ==
    /\ At(r, "send")
    /\ req[r].got \notin dead
    /\ Back(r)
    /\ UNCHANGED <<credential, connecting, admin, flight, external, granted, spent>>

\* A 401: the first time a token is minted in its place, the second time the
\* request fails.
SendRejected(r) ==
    /\ At(r, "send")
    /\ req[r].got \in dead
    /\ IF req[r].rejected # 0
       THEN Back(r)
       ELSE req' = [req EXCEPT ![r].pc = "read", ![r].rejected = req[r].got, ![r].got = 0]
    /\ UNCHANGED <<credential, connecting, admin, flight, external, granted, spent>>

-----------------------------------------------------------------------------
(* The system.                                                             *)

Lapse == Cardinality(stale) + Cardinality(dead) < MaxLapses

\* Time passes for a pair, or its access token is revoked upstream.
TokenExpires(t) ==
    /\ Lapse
    /\ t \in 1..issued \ stale
    /\ stale' = stale \cup {t}
    /\ UNCHANGED <<credential, connecting, admin, minting, issued, dead, granted, spent>>

TokenDies(t) ==
    /\ Lapse
    /\ t \in 1..issued \ dead
    /\ dead' = dead \cup {t}
    /\ UNCHANGED <<credential, connecting, admin, minting, issued, stale, granted, spent>>

\* A server is unknown, or was connected at an earlier time (the pairs of that
\* time have one number).
Init ==
    /\ server \in [Servers -> {NoServer} \cup [url : Urls, enabled : {TRUE}]]
    /\ credential = [s \in Servers |->
                        IF server[s] = NoServer THEN NoCredential
                        ELSE [pair |-> 1, refresh |-> 1, url |-> server[s].url, grant |-> Past]]
    /\ granted = [s \in Servers |-> credential[s].grant]
    /\ state = [x \in States |-> NewState]
    /\ callback = [k \in Callbacks |-> NoCallback]
    /\ flight = [s \in Servers |-> None]
    /\ req = [r \in Requests |-> NoRequest]
    /\ edit = [e \in Edits |-> NoEdit]
    /\ issued = 1 /\ stale = {} /\ dead = {} /\ spent = {}
    /\ edits = 0

\* A step of a request that has arrived.
RequestStep(r) ==
    \/ ReadCredential(r) \/ Mint(r) \/ Reread(r) \/ RefreshAccessToken(r)
    \/ ExchangeFails(r) \/ PersistRefreshedToken(r)
    \/ SendAccepted(r) \/ SendRejected(r)

CallbackStep(k) ==
    \/ Consume(k) \/ RedeemCode(k) \/ StoreCredential(k) \/ StoreCredentialFails(k)

Next ==
    \/ \E r \in Requests :
          \/ RequestStep(r) \/ Request(r)
          \/ \E s \in Servers : StartProxy(r, s)
    \/ \E x \in States :
          \/ InsertState(x) \/ StateExpires(x)
          \/ \E s \in Servers : BeginAuthorization(x, s)
          \/ \E k \in Callbacks : BeginCallback(k, x)
    \/ \E k \in Callbacks : CallbackStep(k)
    \/ \E e \in Edits :
          \/ PutDisconnects(e) \/ UpdateServer(e)
          \/ \E s \in Servers : BeginPut(e, s)
    \/ \E s \in Servers : Disconnect(s) \/ CreateServer(s) \/ DeleteServer(s)
    \/ \E t \in 1..MaxTokens : TokenExpires(t) \/ TokenDies(t)

Spec == Init /\ [][Next]_vars

-----------------------------------------------------------------------------
(* Properties.                                                             *)

Pairs == 0..MaxTokens
Credentials == [pair : Pairs, refresh : Pairs, url : Urls \cup {None},
                grant : States \cup {Past, None}]
Server == [url : Urls \cup {None}, enabled : BOOLEAN]

Refreshing == {"reread", "exchange", "persist"}

\* The state keeps its types, and the entry of a server in refreshState is the
\* one request that refreshes for it.
TypeOK ==
    /\ server \in [Servers -> Server]
    /\ credential \in [Servers -> Credentials]
    /\ state \in [States -> [at : {"none", "discovery", "open", "expired", "gone"},
                             server : Servers \cup {None}, url : Urls \cup {None}]]
    /\ callback \in [Callbacks -> [at : {"idle", "consume", "redeem", "store"},
                                    state : States \cup {None}, pair : Pairs, refresh : Pairs]]
    /\ flight \in [Servers -> Requests \cup {None}]
    /\ req \in [Requests -> [pc : {"idle", "ready", "read", "decide", "await", "reread",
                                   "exchange", "persist", "send"},
                             server : Servers \cup {None}, url : Urls \cup {None},
                             seen : Credentials, rejected : Pairs, old : SUBSET Pairs,
                             on : Requests \cup {None}, got : Pairs, kept : Pairs]]
    /\ edit \in [Edits -> [at : {"idle", "disconnect", "update"}, server : Servers \cup {None},
                           url : Urls \cup {None}, enabled : BOOLEAN]]
    /\ issued \in Pairs /\ stale \subseteq Pairs /\ dead \subseteq Pairs
    /\ granted \in [Servers -> States \cup {Past, None}]
    /\ spent \subseteq Servers \X Pairs
    /\ \A s \in Servers, r \in Requests :
          flight[s] = r <=> req[r].server = s /\ req[r].pc \in Refreshing
    /\ edits \in 0..MaxEdits

\* A refresh token whose successor was stored is never sent again: a fiber
\* that read the credential before another one refreshed it does not replay
\* the token it read.
SpentNotReplayed ==
    \A r \in Requests : At(r, "exchange") => <<req[r].server, req[r].seen.refresh>> \notin spent

\* The credential of a server descends from the authorization that connected
\* it last, and is absent while it is disconnected: no refresh that was under
\* way brings back what was disconnected or replaced.
NewestGrant == \A s \in Servers : credential[s].grant = granted[s]

\* A request that waits for a refresh waits for one that is under way for its
\* server and will answer it: no end of a refresh, good or bad, leaves a
\* waiter behind, and none is entered under another server.
WaitsForLive ==
    \A r \in Requests : At(r, "await") =>
        LET o == req[r].on
        IN  /\ flight[req[r].server] = o
            /\ req[o].server = req[r].server /\ req[o].pc \in Refreshing

=============================================================================
