---------------------------- MODULE McpOAuthProofs ----------------------------
(***************************************************************************)
(* Proofs about McpOAuth, for any servers, requests, authorizations and    *)
(* bounds.                                                                 *)
(***************************************************************************)
EXTENDS McpOAuth, TLAPS

RequestRecord ==
    [pc : {"idle", "ready", "read", "decide", "await", "reread",
           "exchange", "persist", "send"},
     server : Servers \cup {None}, url : Urls \cup {None},
     seen : Credentials, rejected : Pairs, old : SUBSET Pairs,
     on : Requests \cup {None}, got : Pairs, kept : Pairs]

CallbackRecord ==
    [at : {"idle", "consume", "redeem", "store"},
     state : States \cup {None}, pair : Pairs, refresh : Pairs]

Sending == {"exchange", "persist"}

-----------------------------------------------------------------------------
(* The inductive invariant.                                                *)

\* What is under way concerns a server.
Served ==
    /\ \A r \in Requests : req[r].pc # "idle" => req[r].server \in Servers
    /\ \A x \in States : state[x].at # "none" => state[x].server \in Servers
    /\ \A k \in Callbacks : callback[k].at # "idle" =>
          callback[k].state \in States /\ state[callback[k].state].at # "none"
    /\ \A e \in Edits : edit[e].at # "idle" => edit[e].server \in Servers

\* A request names another one exactly while it waits for its refresh.
Named == \A r \in Requests : At(r, "await") <=> req[r].on # None

\* A row without a pair is no row.
Empty ==
    /\ \A s \in Servers : credential[s].pair = 0 => credential[s] = NoCredential
    /\ \A r \in Requests : req[r].seen.pair = 0 => req[r].seen = NoCredential

\* A row that has the pair of the row a request read is the row it read.
Same ==
    \A r \in Requests : req[r].server \in Servers =>
        (req[r].seen.pair = credential[req[r].server].pair
            => req[r].seen = credential[req[r].server])

Bounded ==
    /\ \A s \in Servers : credential[s].pair <= issued /\ credential[s].refresh <= issued
    /\ \A r \in Requests : req[r].seen.pair <= issued /\ req[r].seen.refresh <= issued
    /\ \A e \in spent : 0 < e[2] /\ e[2] <= issued

\* A pair that was issued and that nobody stored.
New(t) ==
    /\ 0 < t /\ t <= issued
    /\ \A s \in Servers : credential[s].pair # t /\ credential[s].refresh # t
    /\ \A r \in Requests : req[r].seen.pair # t /\ req[r].seen.refresh # t
    /\ \A e \in spent : e[2] # t

\* Whoever is about to store a pair is the only one that has it.
FreshCodes ==
    \A k \in Callbacks : callback[k].at = "store" =>
        /\ New(callback[k].pair) /\ callback[k].refresh \in {0, callback[k].pair}
        /\ \A l \in Callbacks : callback[l].at = "store" /\ callback[l].pair = callback[k].pair => l = k
FreshTokens ==
    \A r \in Requests : At(r, "persist") =>
        /\ New(req[r].got) /\ req[r].kept \in {req[r].seen.refresh, req[r].got}
        /\ \A d \in Requests : At(d, "persist") /\ req[d].got = req[r].got => d = r
        /\ \A k \in Callbacks : callback[k].at = "store" => callback[k].pair # req[r].got

\* Neither the row nor a request that refreshes has a token that was spent.
Unspent ==
    /\ \A s \in Servers : <<s, credential[s].refresh>> \notin spent
    /\ \A r \in Requests : req[r].pc \in Sending =>
          req[r].seen.refresh # 0 /\ <<req[r].server, req[r].seen.refresh>> \notin spent

Flights == Served /\ Named /\ WaitsForLive
Rows == NewestGrant /\ Empty /\ Same /\ Bounded /\ FreshCodes /\ FreshTokens /\ Unspent

IInv == TypeOK /\ Flights /\ Rows

-----------------------------------------------------------------------------
(* Types.                                                                  *)

LEMMA Initially == Init => IInv
<1> SUFFICES ASSUME Init PROVE IInv
  OBVIOUS
<1>1. NoRequest \in RequestRecord /\ NoCredential \in Credentials
  BY McpAssumption DEF NoRequest, RequestRecord, NoCredential, Credentials, Pairs
<1>2. server \in [Servers -> Server]
  <2>1. NoServer \in Server /\ [url : Urls, enabled : {TRUE}] \subseteq Server
    BY DEF Server, NoServer
  <2> QED BY <2>1 DEF Init
<1>3. credential \in [Servers -> Credentials]
  <2>1. ASSUME NEW s \in Servers PROVE credential[s] \in Credentials
    BY <1>1, <1>2, McpAssumption DEF Init, Server, Credentials, Pairs, NoServer, NoCredential
  <2> QED BY <2>1 DEF Init
<1>4. TypeOK
  <2>1. req \in [Requests -> RequestRecord]
    BY <1>1 DEF Init
  <2>2. /\ state \in [States -> [at : {"none", "discovery", "open", "expired", "gone"},
                                 server : Servers \cup {None}, url : Urls \cup {None}]]
        /\ callback \in [Callbacks -> CallbackRecord]
        /\ edit \in [Edits -> [at : {"idle", "disconnect", "update"}, server : Servers \cup {None},
                               url : Urls \cup {None}, enabled : BOOLEAN]]
    BY McpAssumption DEF Init, NewState, NoCallback, NoEdit, CallbackRecord, Pairs
  <2>3. flight \in [Servers -> Requests \cup {None}] /\ granted \in [Servers -> States \cup {Past, None}]
    BY <1>3 DEF Init, Credentials
  <2>4. /\ issued \in Pairs /\ stale \subseteq Pairs /\ dead \subseteq Pairs
        /\ spent \subseteq Servers \X Pairs /\ edits \in 0..MaxEdits
    BY McpAssumption DEF Init, Pairs
  <2>5. \A s \in Servers, r \in Requests :
            flight[s] = r <=> req[r].server = s /\ req[r].pc \in Refreshing
    BY McpAssumption DEF Init, NoRequest, Refreshing
  <2> QED BY <1>2, <1>3, <2>1, <2>2, <2>3, <2>4, <2>5 DEF TypeOK, RequestRecord, CallbackRecord
<1>5. Flights
  BY DEF Init, Flights, Served, Named, WaitsForLive, At, NoRequest, NewState, NoCallback, NoEdit
<1>6. Rows
  <2>1. NewestGrant
    BY DEF Init, NewestGrant
  <2>2. ASSUME NEW s \in Servers
        PROVE  credential[s] = NoCredential \/ (credential[s].pair = 1 /\ credential[s].refresh = 1)
    BY DEF Init
  <2>3. \A r \in Requests : req[r].seen = NoCredential /\ req[r].server \notin Servers /\ At(r, "idle")
    BY McpAssumption DEF Init, NoRequest, At
  <2>4. Empty /\ Same
    BY <2>2, <2>3 DEF Empty, Same, NoCredential
  <2>5. Bounded
    BY <2>2, <2>3 DEF Init, Bounded, NoCredential
  <2>6. FreshCodes /\ FreshTokens /\ Unspent
    BY <2>3 DEF Init, FreshCodes, FreshTokens, Unspent, NoCallback, At, Sending
  <2> QED BY <2>1, <2>4, <2>5, <2>6 DEF Rows
<1> QED BY <1>4, <1>5, <1>6 DEF IInv

-----------------------------------------------------------------------------
(* Steps of requests that store nothing.                                   *)

\* The row a request may read is that of its server, or none.
LEMMA DetailsRow ==
    ASSUME TypeOK, NEW s \in Servers
    PROVE  /\ Details(s) \in {credential[s], NoCredential}
           /\ Details(s) \in Credentials
<1>1. NoCredential \in Credentials
  BY McpAssumption DEF NoCredential, Credentials, Pairs
<1> QED BY <1>1 DEF Details, TypeOK

\* The numbers of pairs are natural numbers.
LEMMA Numbers ==
    ASSUME TypeOK
    PROVE  /\ issued \in Nat /\ MaxTokens \in Nat
           /\ \A s \in Servers : credential[s].pair \in Nat /\ credential[s].refresh \in Nat
           /\ \A r \in Requests : /\ req[r].seen.pair \in Nat /\ req[r].seen.refresh \in Nat
                                  /\ req[r].got \in Nat /\ req[r].kept \in Nat
           /\ \A k \in Callbacks : callback[k].pair \in Nat /\ callback[k].refresh \in Nat
           /\ \A e \in spent : e[2] \in Nat
BY McpAssumption DEF TypeOK, Credentials, Pairs

\* What a request reads is the row, or what it read before; it starts to
\* exchange the refresh token of the row, and got its pair earlier.
Reads(r) ==
    /\ \/ req'[r].seen = NoCredential
       \/ req'[r].server = req[r].server /\ req'[r].seen = req[r].seen
       \/ /\ req[r].server \in Servers /\ req'[r].server = req[r].server
          /\ req'[r].seen = credential[req[r].server]
    /\ req'[r].pc \in Sending =>
          \/ /\ req[r].pc \in Sending
             /\ req'[r].server = req[r].server /\ req'[r].seen = req[r].seen
          \/ /\ req[r].server \in Servers /\ req'[r].server = req[r].server
             /\ req'[r].seen = credential[req[r].server] /\ req'[r].seen.refresh # 0
    /\ req'[r].pc = "persist" =>
          /\ req[r].pc = "persist" /\ req'[r].seen = req[r].seen
          /\ req'[r].got = req[r].got /\ req'[r].kept = req[r].kept

LEMMA RowsRead ==
    ASSUME IInv, \A r \in Requests : Reads(r),
           UNCHANGED <<credential, granted, callback, issued, spent>>
    PROVE  Rows'
<1> USE DEF IInv, Rows
<1>1. NewestGrant'
  BY DEF NewestGrant
<1>2. Empty'
  BY DEF Empty, Reads, NoCredential
<1>3. Same'
  <2> SUFFICES ASSUME NEW r \in Requests, req'[r].server \in Servers,
                      req'[r].seen.pair = credential[req'[r].server].pair
               PROVE  req'[r].seen = credential[req'[r].server]
    BY DEF Same
  <2>1. CASE req'[r].seen = NoCredential
    BY <2>1 DEF Empty, NoCredential
  <2>2. CASE req'[r].seen # NoCredential
    BY <2>2 DEF Same, Reads
  <2> QED BY <2>1, <2>2
<1>4. issued \in Nat
  BY McpAssumption DEF TypeOK, Pairs
<1>5. Bounded'
  BY <1>4 DEF Bounded, Reads, NoCredential
<1>6. ASSUME NEW t, New(t) PROVE New(t)'
  BY <1>6 DEF New, Reads, NoCredential
<1>7. FreshCodes'
  BY <1>6 DEF FreshCodes
<1>8. FreshTokens'
  BY <1>6 DEF FreshTokens, Reads, At
<1>9. Unspent'
  BY DEF Unspent, Reads, Sending
<1> QED BY <1>1, <1>2, <1>3, <1>5, <1>7, <1>8, <1>9

\* Whether a request refreshes, and for whom it waits, does not change.
Stays(r) ==
    /\ req'[r].pc \in Refreshing <=> req[r].pc \in Refreshing
    /\ req'[r].pc \in Refreshing => req'[r].server = req[r].server
    /\ req'[r].pc = "await" =>
          /\ req[r].pc = "await" /\ req'[r].server = req[r].server /\ req'[r].on = req[r].on
    /\ req'[r].on # None <=> req'[r].pc = "await"
    /\ req'[r].pc # "idle" => req'[r].server \in Servers

LEMMA FlightsStay ==
    ASSUME IInv, \A r \in Requests : Stays(r),
           UNCHANGED <<flight, state, callback, edit>>
    PROVE  Flights' /\ \A s \in Servers, r \in Requests :
               flight'[s] = r <=> req'[r].server = s /\ req'[r].pc \in Refreshing
<1> USE DEF IInv, Flights
<1>1. Served'
  BY DEF Served, Stays
<1>2. Named'
  BY DEF Named, Stays, At
<1>3. WaitsForLive'
  <2> SUFFICES ASSUME NEW r \in Requests, req'[r].pc = "await"
               PROVE  /\ flight[req'[r].server] = req'[r].on
                      /\ req'[req'[r].on].server = req'[r].server
                      /\ req'[req'[r].on].pc \in Refreshing
    BY DEF WaitsForLive, At
  <2>1. /\ req[r].pc = "await" /\ req'[r].server = req[r].server /\ req'[r].on = req[r].on
        /\ req[r].server \in Servers
    BY DEF Stays, Served
  <2>2. req[r].on \in Requests
    BY <2>1 DEF Named, At, TypeOK
  <2> QED BY <2>1, <2>2 DEF WaitsForLive, At, Stays
<1>4. \A s \in Servers, r \in Requests :
          flight'[s] = r <=> req'[r].server = s /\ req'[r].pc \in Refreshing
  BY DEF TypeOK, Stays
<1> QED BY <1>1, <1>2, <1>3, <1>4

-----------------------------------------------------------------------------
(* Connecting.                                                             *)

\* No row changes, and no callback gets a pair.
LEMMA RowsStay ==
    ASSUME IInv, UNCHANGED <<credential, granted, req, issued, spent>>,
           \A k \in Callbacks : callback'[k].at = "store" => callback'[k] = callback[k]
    PROVE  Rows'
<1> USE DEF IInv, Rows
<1>1. NewestGrant' /\ Empty' /\ Same' /\ Bounded' /\ Unspent'
  BY DEF NewestGrant, Empty, Same, Bounded, Unspent
<1>2. ASSUME NEW t, New(t) PROVE New(t)'
  BY <1>2 DEF New
<1>3. FreshCodes'
  BY <1>2 DEF FreshCodes
<1>4. FreshTokens'
  BY <1>2 DEF FreshTokens, At
<1> QED BY <1>1, <1>3, <1>4

StateRecord ==
    [at : {"none", "discovery", "open", "expired", "gone"},
     server : Servers \cup {None}, url : Urls \cup {None}]

\* States come and go, callbacks begin and end.
LEMMA ConnectStep ==
    ASSUME IInv,
           \/ \E x \in States : \/ InsertState(x) \/ StateExpires(x)
                                \/ \E s \in Servers : BeginAuthorization(x, s)
                                \/ \E k \in Callbacks : BeginCallback(k, x)
           \/ \E k \in Callbacks : Consume(k) \/ StoreCredentialFails(k)
    PROVE  IInv'
<1> USE DEF connecting, admin, minting, external
<1> DEFINE Goal ==
      /\ UNCHANGED <<credential, admin, minting, external, granted, spent>>
      /\ state' \in [States -> StateRecord]
      /\ callback' \in [Callbacks -> CallbackRecord]
      /\ \A x \in States :
            /\ state'[x].at = "none" => state[x].at = "none"
            /\ state'[x].at # "none" => state'[x].server \in Servers
      /\ \A k \in Callbacks :
            /\ callback'[k].at = "store" => callback'[k] = callback[k]
            /\ callback'[k].at # "idle" =>
                  callback'[k].state \in States /\ state[callback'[k].state].at # "none"
<1>1. Goal
  <2>0. /\ state \in [States -> StateRecord] /\ callback \in [Callbacks -> CallbackRecord]
        /\ server \in [Servers -> Server] /\ Served
    BY DEF IInv, TypeOK, Flights, StateRecord, CallbackRecord
  <2> USE <2>0 DEF Served, StateRecord, CallbackRecord
  <2>1. ASSUME NEW x \in States, InsertState(x) PROVE Goal
    <3>1. \A y \in States : Invalidated(state[x].server)[y] \in StateRecord
      BY DEF Invalidated
    <3>2. /\ state[x].at # "none"
          /\ \A y \in States : Invalidated(state[x].server)[y].server = state[y].server
          /\ \A y \in States : Invalidated(state[x].server)[y].at = "none" => state[y].at = "none"
          /\ \A y \in States : state[y].at = "none" => Invalidated(state[x].server)[y].at = "none"
      BY <2>1 DEF Invalidated, InsertState
    <3>3. CASE state' = [Invalidated(state[x].server) EXCEPT ![x].at = "open"]
      <4>1. Invalidated(state[x].server) \in [States -> StateRecord]
        BY <3>1 DEF Invalidated
      <4>2. /\ state' \in [States -> StateRecord]
            /\ \A y \in States : /\ state'[y].server = state[y].server
                                 /\ state'[y].at = "none" <=> state[y].at = "none"
        BY <3>2, <3>3, <4>1
      <4> QED BY <2>1, <4>2 DEF InsertState
    <3>4. CASE state' = [state EXCEPT ![x].at = "gone"]
      BY <2>1, <3>4 DEF InsertState
    <3> QED BY <2>1, <3>3, <3>4 DEF InsertState
  <2>2. ASSUME NEW x \in States, StateExpires(x) PROVE Goal
    BY <2>2 DEF StateExpires
  <2>3. ASSUME NEW x \in States, NEW s \in Servers, BeginAuthorization(x, s) PROVE Goal
    BY <2>3 DEF BeginAuthorization, Server, NoServer
  <2>4. ASSUME NEW x \in States, NEW k \in Callbacks, BeginCallback(k, x) PROVE Goal
    <3>1. CASE state' = [state EXCEPT ![x].at = "gone"] /\ UNCHANGED callback
      <4>1. \A y \in States : /\ state'[y] \in StateRecord /\ state'[y].server = state[y].server
                              /\ state'[y].at = "none" <=> state[y].at = "none"
        BY <2>4, <3>1 DEF BeginCallback
      <4> QED BY <2>4, <3>1, <4>1 DEF BeginCallback
    <3>2. CASE /\ callback' = [callback EXCEPT ![k] = [@ EXCEPT !.at = "consume", !.state = x]]
               /\ UNCHANGED state
      <4>1. /\ callback' \in [Callbacks -> CallbackRecord]
            /\ callback'[k].at = "consume" /\ callback'[k].state = x
            /\ \A l \in Callbacks \ {k} : callback'[l] = callback[l]
        BY <3>2 DEF CallbackRecord
      <4>2. state[x].at # "none"
        BY <2>4 DEF BeginCallback
      <4> QED BY <2>4, <3>2, <4>1, <4>2 DEF BeginCallback
    <3> QED BY <2>4, <3>1, <3>2 DEF BeginCallback
  <2>5. ASSUME NEW k \in Callbacks, Consume(k) PROVE Goal
    <3>1. CASE Consumable(callback[k].state)
      <4>1. /\ callback' = [callback EXCEPT ![k].at = "redeem"]
            /\ state' = [x \in States |->
                            IF x = callback[k].state \/ state[x].at = "expired"
                            THEN [state[x] EXCEPT !.at = "gone"] ELSE state[x]]
        BY <2>5, <3>1 DEF Consume
      <4>2. state' \in [States -> StateRecord]
        <5>1. \A x \in States : [state[x] EXCEPT !.at = "gone"] \in StateRecord
          OBVIOUS
        <5> QED BY <4>1, <5>1
      <4>3. /\ callback[k].state \in States /\ state[callback[k].state].at # "none"
            /\ \A x \in States : /\ state'[x].server = state[x].server
                                 /\ state'[x].at = "none" <=> state[x].at = "none"
        BY <2>5, <3>1, <4>1 DEF Consume, Consumable
      <4>4. /\ callback' \in [Callbacks -> CallbackRecord]
            /\ callback'[k].at = "redeem" /\ callback'[k].state = callback[k].state
            /\ \A l \in Callbacks \ {k} : callback'[l] = callback[l]
        BY <4>1
      <4> QED BY <2>5, <4>2, <4>3, <4>4 DEF Consume
    <3>2. CASE ~Consumable(callback[k].state)
      <4>1. callback' = [callback EXCEPT ![k] = NoCallback] /\ UNCHANGED state
        BY <2>5, <3>2 DEF Consume, Over
      <4>2. NoCallback \in CallbackRecord /\ NoCallback.at = "idle"
        BY McpAssumption DEF NoCallback, Pairs
      <4> QED BY <2>5, <4>1, <4>2 DEF Consume
    <3> QED BY <3>1, <3>2
  <2>6. ASSUME NEW k \in Callbacks, StoreCredentialFails(k) PROVE Goal
    BY <2>6, McpAssumption DEF StoreCredentialFails, Over, NoCallback, Pairs
  <2> QED BY <2>1, <2>2, <2>3, <2>4, <2>5, <2>6
<1>2. Rows'
  BY <1>1, RowsStay
<1>3. TypeOK'
  BY <1>1 DEF IInv, TypeOK, StateRecord, CallbackRecord
<1>4. Served'
  BY <1>1 DEF IInv, Flights, Served
<1>5. Named' /\ WaitsForLive'
  BY <1>1 DEF IInv, Flights, Named, WaitsForLive, At
<1> QED BY <1>2, <1>3, <1>4, <1>5 DEF IInv, Flights

\* A code brings a pair nobody has.
LEMMA RedeemStep ==
    ASSUME IInv, NEW k \in Callbacks, RedeemCode(k)
    PROVE  IInv'
<1> USE DEF connecting, admin, minting, external
<1>1. CASE Over(k) /\ UNCHANGED issued
  <2>1. /\ UNCHANGED <<state, credential, admin, minting, external, granted, spent>>
        /\ callback' = [callback EXCEPT ![k] = NoCallback]
    BY <1>1 DEF RedeemCode, Over
  <2>2. callback' \in [Callbacks -> CallbackRecord]
    BY <2>1, McpAssumption DEF IInv, TypeOK, CallbackRecord, NoCallback, Pairs
  <2>3. Rows'
    BY <2>1, RowsStay DEF IInv, TypeOK, NoCallback
  <2>4. TypeOK'
    BY <2>1, <2>2 DEF IInv, TypeOK, CallbackRecord
  <2>5. Served' /\ Named' /\ WaitsForLive'
    BY <2>1 DEF IInv, TypeOK, Flights, Served, Named, WaitsForLive, At, NoCallback
  <2> QED BY <2>3, <2>4, <2>5 DEF IInv, Flights
<1>2. CASE /\ issued < MaxTokens /\ issued' = issued + 1
           /\ \E refresh \in {0, issued + 1} :
                 callback' = [callback EXCEPT ![k] = [@ EXCEPT !.at = "store", !.pair = issued + 1,
                                                              !.refresh = refresh]]
  <2>1. PICK refresh \in {0, issued + 1} :
            callback' = [callback EXCEPT ![k] = [@ EXCEPT !.at = "store", !.pair = issued + 1,
                                                              !.refresh = refresh]]
    BY <1>2
  <2>2. /\ UNCHANGED <<state, credential, admin, minting, stale, dead, granted, spent>>
        /\ callback[k].at = "redeem"
    BY DEF RedeemCode
  <2>3. issued \in Nat /\ issued' \in Pairs /\ MaxTokens \in Nat
    BY <1>2, McpAssumption DEF IInv, TypeOK, Pairs
  <2>4. /\ callback' \in [Callbacks -> CallbackRecord]
        /\ \A l \in Callbacks \ {k} : callback'[l] = callback[l]
        /\ callback'[k].at = "store" /\ callback'[k].state = callback[k].state
        /\ callback'[k].pair = issued + 1 /\ callback'[k].refresh \in {0, issued + 1}
    <3>1. callback \in [Callbacks -> CallbackRecord] /\ refresh \in Pairs /\ issued + 1 \in Pairs
      BY <1>2, <2>3, McpAssumption DEF IInv, TypeOK, CallbackRecord, Pairs
    <3> QED BY <2>1, <3>1 DEF CallbackRecord
  <2>5. TypeOK'
    BY <2>2, <2>3, <2>4 DEF IInv, TypeOK, CallbackRecord
  <2>6. Flights'
    BY <2>2, <2>4 DEF IInv, Flights, Served, Named, WaitsForLive, At
  <2> USE DEF IInv, Rows
  <2>7. NewestGrant' /\ Empty' /\ Same' /\ Unspent'
    BY <2>2 DEF NewestGrant, Empty, Same, Unspent
  <2>8. Bounded'
    BY <1>2, <2>2, <2>3, Numbers DEF Bounded
  <2>9. PICK n \in Nat : n = issued + 1
    BY <2>3
  <2>10. New(n)'
    BY <1>2, <2>2, <2>3, <2>9, Numbers DEF New, Bounded
  <2>11. ASSUME NEW t \in Nat, New(t) PROVE New(t)' /\ t # n
    BY <1>2, <2>2, <2>3, <2>9, <2>11 DEF New
  <2>12. FreshCodes'
    <3> SUFFICES ASSUME NEW l \in Callbacks, callback'[l].at = "store",
                        NEW t \in Nat, t = callback'[l].pair
                 PROVE  /\ New(t)' /\ callback'[l].refresh \in {0, t}
                        /\ \A m \in Callbacks :
                              callback'[m].at = "store" /\ callback'[m].pair = t => m = l
      BY <2>5, Numbers DEF FreshCodes, TypeOK, CallbackRecord, Pairs
    <3>1. \A m \in Callbacks \ {k} : callback'[m].at = "store" => callback'[m].pair # n
      BY <2>4, <2>11, Numbers DEF FreshCodes
    <3>2. CASE l = k
      BY <2>4, <2>9, <2>10, <3>1, <3>2
    <3>3. CASE l # k
      BY <2>4, <2>9, <2>11, <3>1, <3>3, Numbers DEF FreshCodes
    <3> QED BY <3>2, <3>3
  <2>13. FreshTokens'
    BY <2>2, <2>4, <2>9, <2>11, Numbers DEF FreshTokens, At
  <2> QED BY <2>5, <2>6, <2>7, <2>8, <2>12, <2>13
<1> QED BY <1>1, <1>2 DEF RedeemCode

\* The pair of a code is stored: a row nobody has read.
LEMMA StoreStep ==
    ASSUME IInv, NEW k \in Callbacks, StoreCredential(k)
    PROVE  IInv'
<1> USE DEF connecting, admin, minting, external
<1> DEFINE x == callback[k].state
           s == state[x].server
           row == [pair |-> callback[k].pair, refresh |-> callback[k].refresh,
                   url |-> state[x].url, grant |-> x]
<1>1. /\ callback[k].at = "store" /\ callback' = [callback EXCEPT ![k] = NoCallback]
      /\ UNCHANGED <<state, admin, minting, external, spent>>
  BY DEF StoreCredential, Over
<1>2. /\ NoCallback \in CallbackRecord /\ NoCallback.at = "idle"
      /\ callback \in [Callbacks -> CallbackRecord]
  BY McpAssumption DEF IInv, TypeOK, CallbackRecord, NoCallback, Pairs
<1>3. /\ callback' \in [Callbacks -> CallbackRecord] /\ callback'[k].at = "idle"
      /\ \A l \in Callbacks \ {k} : callback'[l] = callback[l]
  BY <1>1, <1>2
<1>4. Flights'
  BY <1>1, <1>3 DEF IInv, Flights, Served, Named, WaitsForLive, At
<1>5. CASE UNCHANGED <<credential, granted>>
  <2>1. TypeOK'
    BY <1>1, <1>3, <1>5 DEF IInv, TypeOK, CallbackRecord
  <2>2. Rows'
    BY <1>1, <1>3, <1>5, RowsStay
  <2> QED BY <1>4, <2>1, <2>2 DEF IInv
<1>6. CASE credential' = [credential EXCEPT ![s] = row] /\ granted' = [granted EXCEPT ![s] = x]
  <2>1. x \in States /\ s \in Servers /\ row \in Credentials
    BY <1>1 DEF IInv, TypeOK, Flights, Served, Credentials
  <2>2. TypeOK'
    <3>1. credential' \in [Servers -> Credentials] /\ granted' \in [Servers -> States \cup {Past, None}]
      BY <1>6, <2>1 DEF IInv, TypeOK
    <3> QED BY <1>1, <1>3, <3>1 DEF IInv, TypeOK, CallbackRecord
  <2> HIDE DEF s, x
  <2>3. /\ credential'[s].pair = callback[k].pair /\ credential'[s].refresh \in {0, callback[k].pair}
        /\ credential'[s].grant = x /\ granted'[s] = x
        /\ \A o \in Servers \ {s} : credential'[o] = credential[o] /\ granted'[o] = granted[o]
    BY <1>1, <1>6, <2>1 DEF IInv, TypeOK, Rows, FreshCodes
  <2>4. New(callback[k].pair)
    BY <1>1 DEF IInv, Rows, FreshCodes
  <2> USE DEF IInv, Rows
  <2>5. NewestGrant'
    BY <2>3 DEF NewestGrant
  <2>6. Empty' /\ Same'
    BY <1>1, <2>3, <2>4 DEF Empty, Same, New
  <2>7. Bounded'
    BY <1>1, <2>3, <2>4, Numbers DEF Bounded, New
  <2>8. ASSUME NEW t, New(t), t # callback[k].pair PROVE New(t)'
    BY <1>1, <2>3, <2>8 DEF New
  <2>9. FreshCodes'
    <3> SUFFICES ASSUME NEW l \in Callbacks, callback'[l].at = "store",
                        NEW t, t = callback'[l].pair
                 PROVE  /\ New(t)' /\ callback'[l].refresh \in {0, t}
                        /\ \A m \in Callbacks :
                              callback'[m].at = "store" /\ callback'[m].pair = t => m = l
      BY DEF FreshCodes
    <3>1. l # k /\ callback'[l] = callback[l]
      BY <1>3
    <3> QED BY <1>1, <1>3, <2>8, <3>1 DEF FreshCodes
  <2>10. FreshTokens'
    <3> SUFFICES ASSUME NEW r \in Requests, req[r].pc = "persist", NEW t, t = req[r].got
                 PROVE  /\ New(t)' /\ req[r].kept \in {req[r].seen.refresh, t}
                        /\ \A d \in Requests : req[d].pc = "persist" /\ req[d].got = t => d = r
                        /\ \A l \in Callbacks : callback'[l].at = "store" => callback'[l].pair # t
      BY <1>1 DEF FreshTokens, At
    <3> QED BY <1>1, <1>3, <2>8 DEF FreshTokens, At
  <2>11. Unspent'
    BY <1>1, <2>3, <2>4, Numbers DEF Unspent, New, Bounded
  <2> QED BY <1>4, <2>2, <2>5, <2>6, <2>7, <2>9, <2>10, <2>11
<1> QED BY <1>5, <1>6 DEF StoreCredential

-----------------------------------------------------------------------------
(* The administrator.                                                      *)

\* A credential goes.
LEMMA RowsGone ==
    ASSUME IInv, NEW s \in Servers, UNCHANGED <<req, callback, issued, spent>>,
           credential' = [credential EXCEPT ![s] = NoCredential],
           granted' = [granted EXCEPT ![s] = None]
    PROVE  Rows' /\ credential' \in [Servers -> Credentials]
                 /\ granted' \in [Servers -> States \cup {Past, None}]
<1>1. NoCredential \in Credentials /\ NoCredential.pair = 0 /\ NoCredential.refresh = 0
      /\ NoCredential.grant = None
  BY McpAssumption DEF NoCredential, Credentials, Pairs
<1>2. /\ credential' \in [Servers -> Credentials]
      /\ granted' \in [Servers -> States \cup {Past, None}]
      /\ credential'[s] = NoCredential /\ granted'[s] = None
      /\ \A o \in Servers \ {s} : credential'[o] = credential[o] /\ granted'[o] = granted[o]
  BY <1>1 DEF IInv, TypeOK
<1> USE DEF IInv, Rows
<1>3. NewestGrant'
  BY <1>1, <1>2 DEF NewestGrant
<1>4. Empty' /\ Same'
  BY <1>1, <1>2 DEF Empty, Same
<1>5. Bounded' /\ Unspent'
  BY <1>1, <1>2, Numbers DEF Bounded, Unspent
<1>6. ASSUME NEW t, New(t) PROVE New(t)'
  BY <1>1, <1>2, <1>6, Numbers DEF New
<1>7. FreshCodes' /\ FreshTokens'
  BY <1>6 DEF FreshCodes, FreshTokens, At
<1> QED BY <1>2, <1>3, <1>4, <1>5, <1>7

EditRecord ==
    [at : {"idle", "disconnect", "update"}, server : Servers \cup {None},
     url : Urls \cup {None}, enabled : BOOLEAN]

\* The states of a server are withdrawn.
LEMMA Withdrawal ==
    ASSUME IInv, NEW s \in Servers, state' = Withdrawn(s)
    PROVE  /\ state' \in [States -> StateRecord]
           /\ \A x \in States : /\ state'[x].server = state[x].server
                                /\ (state'[x].at = "none") <=> (state[x].at = "none")
<1>1. state \in [States -> StateRecord]
  BY DEF IInv, TypeOK, StateRecord
<1>2. ASSUME NEW x \in States
      PROVE  /\ state'[x] \in StateRecord /\ state'[x].server = state[x].server
             /\ (state'[x].at = "none") <=> (state[x].at = "none")
  BY <1>1 DEF Withdrawn, StateRecord
<1> QED BY <1>2 DEF Withdrawn

\* The actions of the administrator that take no credential away.
LEMMA ChangeStep ==
    ASSUME IInv,
           \/ \E s \in Servers : CreateServer(s) \/ \E e \in Edits : BeginPut(e, s)
           \/ \E e \in Edits : UpdateServer(e)
    PROVE  IInv'
<1> USE DEF connecting, admin, minting, external, Change
<1>0. /\ server \in [Servers -> Server] /\ edit \in [Edits -> EditRecord] /\ edits \in Nat
      /\ edits \in 0..MaxEdits /\ MaxEdits \in Nat
      /\ \A e \in Edits : edit[e].at # "idle" => edit[e].server \in Servers
  BY McpAssumption DEF IInv, TypeOK, EditRecord, Flights, Served
<1> DEFINE Goal ==
      /\ UNCHANGED <<credential, connecting, minting, external, granted, spent>>
      /\ server' \in [Servers -> Server] /\ edit' \in [Edits -> EditRecord]
      /\ edits' \in 0..MaxEdits
      /\ \A e \in Edits : edit'[e].at # "idle" => edit'[e].server \in Servers
<1>1. Goal
  <2>1. ASSUME NEW s \in Servers, CreateServer(s) PROVE Goal
    BY <1>0, <2>1 DEF CreateServer, Server
  <2>2. ASSUME NEW s \in Servers, NEW e \in Edits, BeginPut(e, s) PROVE Goal
    <3>1. PICK u \in Urls, enabled \in BOOLEAN, newClient \in BOOLEAN :
             edit' = [edit EXCEPT ![e] =
                    [at |-> IF newClient \/ u # server[s].url THEN "disconnect" ELSE "update",
                     server |-> s, url |-> u, enabled |-> enabled]]
      BY <2>2 DEF BeginPut
    <3>2. /\ edit' \in [Edits -> EditRecord] /\ edit'[e].server = s
          /\ \A d \in Edits \ {e} : edit'[d] = edit[d]
      BY <1>0, <3>1 DEF EditRecord
    <3> QED BY <1>0, <2>2, <3>2 DEF BeginPut
  <2>3. ASSUME NEW e \in Edits, UpdateServer(e) PROVE Goal
    <3>1. NoEdit \in EditRecord /\ NoEdit.at = "idle"
      BY DEF NoEdit, EditRecord
    <3>2. [url |-> edit[e].url, enabled |-> edit[e].enabled] \in Server
      BY <1>0 DEF EditRecord, Server
    <3>3. server' \in [Servers -> Server]
      BY <1>0, <2>3, <3>2 DEF UpdateServer
    <3> QED BY <1>0, <2>3, <3>1, <3>3 DEF UpdateServer
  <2> QED BY <2>1, <2>2, <2>3
<1>2. TypeOK'
  BY <1>1 DEF IInv, TypeOK, EditRecord
<1>3. Rows'
  BY <1>1, RowsStay
<1>4. Flights'
  BY <1>1 DEF IInv, Flights, Served, Named, WaitsForLive, At
<1> QED BY <1>2, <1>3, <1>4 DEF IInv

\* Those that do: a disconnection, by itself or in a change, and a removal.
LEMMA GoneStep ==
    ASSUME IInv,
           \/ \E s \in Servers : Disconnect(s) \/ DeleteServer(s)
           \/ \E e \in Edits : PutDisconnects(e)
    PROVE  IInv'
<1> USE DEF connecting, admin, minting, external, Change
<1>0. /\ server \in [Servers -> Server] /\ state \in [States -> StateRecord]
      /\ edit \in [Edits -> EditRecord]
      /\ edits \in Nat /\ edits \in 0..MaxEdits /\ MaxEdits \in Nat
      /\ \A e \in Edits : edit[e].at # "idle" => edit[e].server \in Servers
  BY McpAssumption DEF IInv, TypeOK, EditRecord, StateRecord, Flights, Served
<1>1. PICK s \in Servers :
         /\ UNCHANGED <<callback, minting, external, spent>>
         /\ credential' = [credential EXCEPT ![s] = NoCredential]
         /\ granted' = [granted EXCEPT ![s] = None]
         /\ server' \in [Servers -> Server] /\ edit' \in [Edits -> EditRecord]
         /\ edits' \in 0..MaxEdits
         /\ \A e \in Edits : edit'[e].at # "idle" => edit'[e].server \in Servers
         /\ state' = state \/ state' = Withdrawn(s)
  <2>1. ASSUME NEW s \in Servers, Disconnect(s) \/ DeleteServer(s)
        PROVE  /\ UNCHANGED <<edit, callback, minting, external, spent>>
               /\ credential' = [credential EXCEPT ![s] = NoCredential]
               /\ granted' = [granted EXCEPT ![s] = None]
               /\ server' \in [Servers -> Server]
               /\ edits' \in 0..MaxEdits
               /\ state' = state \/ state' = Withdrawn(s)
    <3>1. CASE Disconnect(s)
      BY <1>0, <3>1 DEF Disconnect, Disconnected
    <3>2. CASE DeleteServer(s)
      <4>1. NoServer \in Server
        BY DEF NoServer, Server
      <4> QED BY <1>0, <3>2, <4>1 DEF DeleteServer
    <3> QED BY <2>1, <3>1, <3>2
  <2>2. ASSUME NEW e \in Edits, PutDisconnects(e)
        PROVE  /\ UNCHANGED <<server, edits, callback, minting, external, spent>>
               /\ credential' = [credential EXCEPT ![edit[e].server] = NoCredential]
               /\ granted' = [granted EXCEPT ![edit[e].server] = None]
               /\ edit' = [edit EXCEPT ![e].at = "update"] /\ edit[e].server \in Servers
               /\ state' = Withdrawn(edit[e].server)
    BY <1>0, <2>2 DEF PutDisconnects, Disconnected
  <2>3. ASSUME NEW e \in Edits, PutDisconnects(e)
        PROVE  /\ edit' \in [Edits -> EditRecord]
               /\ \A d \in Edits : edit'[d].at # "idle" => edit'[d].server \in Servers
    BY <1>0, <2>2, <2>3 DEF EditRecord
  <2>4. CASE \E s \in Servers : Disconnect(s) \/ DeleteServer(s)
    BY <1>0, <2>1, <2>4
  <2>5. CASE \E e \in Edits : PutDisconnects(e)
    BY <1>0, <2>2, <2>3, <2>5
  <2> QED BY <2>4, <2>5
<1>2. Rows' /\ credential' \in [Servers -> Credentials]
      /\ granted' \in [Servers -> States \cup {Past, None}]
  BY <1>1, RowsGone
<1>3. /\ state' \in [States -> StateRecord]
      /\ \A x \in States : /\ state'[x].server = state[x].server
                           /\ (state'[x].at = "none") <=> (state[x].at = "none")
  BY <1>0, <1>1, Withdrawal
<1>4. TypeOK'
  BY <1>1, <1>2, <1>3 DEF IInv, TypeOK, EditRecord, StateRecord
<1>5. Flights'
  BY <1>1, <1>3 DEF IInv, Flights, Served, Named, WaitsForLive, At
<1> QED BY <1>2, <1>4, <1>5 DEF IInv

-----------------------------------------------------------------------------
(* The requests.                                                           *)

\* A step of requests that stores nothing and leaves the refreshes alone.
LEMMA PlainStep ==
    ASSUME IInv, UNCHANGED <<credential, connecting, admin, flight, external, granted, spent>>,
           req' \in [Requests -> RequestRecord],
           \A r \in Requests : Reads(r) /\ Stays(r)
    PROVE  IInv'
<1>1. Rows'
  BY RowsRead DEF connecting, external
<1>2. /\ Flights'
      /\ \A s \in Servers, r \in Requests :
            flight'[s] = r <=> req'[r].server = s /\ req'[r].pc \in Refreshing
  BY FlightsStay DEF connecting, admin
<1>3. TypeOK'
  BY <1>2 DEF IInv, TypeOK, RequestRecord, connecting, admin, external
<1> QED BY <1>1, <1>2, <1>3 DEF IInv

\* A request that does nothing reads nothing.
LEMMA Idles ==
    ASSUME IInv, NEW r \in Requests, req'[r] = req[r]
    PROVE  Reads(r) /\ Stays(r)
BY DEF Reads, Stays, IInv, Flights, Served, Named, At, Sending

\* A request between two.
LEMMA BetweenRecord ==
    ASSUME IInv, NEW r \in Requests
    PROVE  /\ req[r] \in RequestRecord
           /\ req[r].server \in Servers \cup {None}
           /\ Between(req[r]) \in RequestRecord
           /\ Between(req[r]).pc = "ready" /\ Between(req[r]).server = req[r].server
           /\ Between(req[r]).seen = NoCredential /\ Between(req[r]).on = None
<1>1. req[r] \in RequestRecord
  BY DEF IInv, TypeOK, RequestRecord
<1>2. NoRequest \in RequestRecord /\ NoRequest.seen = NoCredential /\ NoRequest.on = None
  <2>1. NoCredential \in Credentials /\ 0 \in Pairs
    BY McpAssumption DEF NoCredential, Credentials, Pairs
  <2> QED BY <2>1 DEF NoRequest, RequestRecord
<1>3. Between(req[r]) \in RequestRecord
  BY <1>1, <1>2 DEF Between, RequestRecord
<1>4. /\ Between(req[r]).pc = "ready" /\ Between(req[r]).server = req[r].server
      /\ Between(req[r]).seen = NoCredential /\ Between(req[r]).on = None
  BY <1>2 DEF Between, RequestRecord
<1> QED BY <1>1, <1>3, <1>4 DEF RequestRecord

\* A request with a token.
LEMMA TokenRecord ==
    ASSUME IInv, NEW r \in Requests, NEW t \in Pairs
    PROVE  /\ WithToken(req[r], t) \in RequestRecord
           /\ WithToken(req[r], t).pc = "send" /\ WithToken(req[r], t).server = req[r].server
           /\ WithToken(req[r], t).seen = NoCredential /\ WithToken(req[r], t).on = None
<1>1. req[r] \in RequestRecord
  BY DEF IInv, TypeOK, RequestRecord
<1>2. NoCredential \in Credentials /\ 0 \in Pairs
  BY McpAssumption DEF NoCredential, Credentials, Pairs
<1> QED BY <1>1, <1>2 DEF WithToken, RequestRecord

\* A request goes on as w: whatever else it does, the others stay as they are.
LEMMA Onward ==
    ASSUME IInv, NEW r \in Requests, NEW w \in RequestRecord,
           req' = [req EXCEPT ![r] = w],
           UNCHANGED <<credential, connecting, admin, flight, external, granted, spent>>,
           req[r].pc \notin Refreshing \cup {"await"},
           w.pc \notin {"idle", "await"} \cup Refreshing,
           w.server \in Servers, w.on = None,
           \/ w.seen = NoCredential
           \/ w.server = req[r].server /\ w.seen = req[r].seen
           \/ w.server = req[r].server /\ w.seen = credential[req[r].server]
    PROVE  IInv'
<1>1. /\ req' \in [Requests -> RequestRecord] /\ req'[r] = w
      /\ \A d \in Requests \ {r} : req'[d] = req[d]
  BY DEF IInv, TypeOK, RequestRecord
<1>2. Reads(r) /\ Stays(r)
  BY <1>1 DEF Reads, Stays, Refreshing, Sending
<1>3. \A d \in Requests : Reads(d) /\ Stays(d)
  BY <1>1, <1>2, Idles
<1> QED BY <1>1, <1>3, PlainStep

\* What a request is, before a step of its own.
LEMMA RequestNow ==
    ASSUME IInv, NEW r \in Requests
    PROVE  /\ req \in [Requests -> RequestRecord] /\ req[r] \in RequestRecord
           /\ req[r].pc # "idle" => req[r].server \in Servers
           /\ (req[r].on # None) <=> (req[r].pc = "await")
           /\ NoCredential \in Credentials /\ 0 \in Pairs
BY McpAssumption DEF IInv, TypeOK, RequestRecord, Flights, Served, Named, At,
                     NoCredential, Credentials, Pairs

\* A request that is over.
LEMMA BackStep ==
    ASSUME IInv, NEW r \in Requests, Back(r),
           req[r].pc \notin Refreshing \cup {"idle", "await"},
           UNCHANGED <<credential, connecting, admin, flight, external, granted, spent>>
    PROVE  IInv'
<1>1. req' = [req EXCEPT ![r] = Between(req[r])]
  BY DEF Back
<1> QED BY <1>1, BetweenRecord, RequestNow, Onward, "ready" \notin Refreshing DEF Refreshing

\* The steps of a request beside the refresh.
LEMMA RequestSteps ==
    ASSUME IInv, NEW r \in Requests,
           \/ \E s \in Servers : StartProxy(r, s)
           \/ Request(r) \/ ReadCredential(r) \/ SendAccepted(r) \/ SendRejected(r)
    PROVE  IInv'
<1>1. ASSUME NEW s \in Servers, StartProxy(r, s) PROVE IInv'
  <2> DEFINE w == [NoRequest EXCEPT !.pc = "ready", !.server = s, !.url = server[s].url]
  <2>1. NoRequest \in RequestRecord /\ NoRequest.seen = NoCredential /\ NoRequest.on = None
    <3>1. NoCredential \in Credentials /\ 0 \in Pairs
      BY RequestNow
    <3> QED BY <3>1 DEF NoRequest, RequestRecord
  <2>2. server[s].url \in Urls \cup {None}
    BY DEF IInv, TypeOK, Server
  <2>3. w \in RequestRecord /\ w.pc = "ready" /\ w.server = s /\ w.seen = NoCredential /\ w.on = None
    BY <2>1, <2>2 DEF RequestRecord
  <2>4. /\ req' = [req EXCEPT ![r] = w] /\ req[r].pc = "idle"
        /\ UNCHANGED <<credential, connecting, admin, flight, external, granted, spent>>
    BY <1>1 DEF StartProxy, At
  <2> QED BY <2>3, <2>4, Onward DEF Refreshing
<1>2. CASE Request(r)
  <2> DEFINE w == [req[r] EXCEPT !.pc = "read"]
  <2>1. /\ req' = [req EXCEPT ![r] = w] /\ req[r].pc = "ready"
        /\ UNCHANGED <<credential, connecting, admin, flight, external, granted, spent>>
    BY <1>2 DEF Request, Goto, At
  <2>2. /\ w \in RequestRecord /\ w.pc = "read" /\ w.server = req[r].server
        /\ w.seen = req[r].seen /\ w.on = None /\ req[r].server \in Servers
    BY <2>1, RequestNow DEF RequestRecord
  <2> QED BY <2>1, <2>2, Onward DEF Refreshing
<1>3. CASE ReadCredential(r)
  <2>1. /\ req[r].pc = "read"
        /\ UNCHANGED <<credential, connecting, admin, flight, external, granted, spent>>
    BY <1>3 DEF ReadCredential, At
  <2>2. CASE Details(req[r].server) = NoCredential
    BY <1>3, <2>1, <2>2, BackStep DEF ReadCredential, Refreshing
  <2>3. CASE Details(req[r].server) # NoCredential
    <3> DEFINE w == [req[r] EXCEPT !.pc = "decide", !.seen = Details(req[r].server)]
    <3>1. req[r].server \in Servers
      BY <2>1, RequestNow
    <3>2. Details(req[r].server) \in Credentials /\ Details(req[r].server) = credential[req[r].server]
      BY <2>3, <3>1, DetailsRow DEF IInv
    <3>3. req' = [req EXCEPT ![r] = w]
      BY <1>3, <2>3 DEF ReadCredential
    <3>4. /\ w \in RequestRecord /\ w.pc = "decide" /\ w.server = req[r].server
          /\ w.seen = credential[req[r].server] /\ w.on = None
      BY <2>1, <3>2, RequestNow DEF RequestRecord
    <3> QED BY <2>1, <3>1, <3>3, <3>4, Onward DEF Refreshing
  <2> QED BY <2>2, <2>3
<1>4. CASE SendAccepted(r)
  BY <1>4, BackStep DEF SendAccepted, At, Refreshing
<1>5. CASE SendRejected(r)
  <2>1. /\ req[r].pc = "send"
        /\ UNCHANGED <<credential, connecting, admin, flight, external, granted, spent>>
    BY <1>5 DEF SendRejected, At
  <2>2. CASE req[r].rejected # 0
    BY <1>5, <2>1, <2>2, BackStep DEF SendRejected, Refreshing
  <2>3. CASE req[r].rejected = 0
    <3> DEFINE w == [req[r] EXCEPT !.pc = "read", !.rejected = req[r].got, !.got = 0]
    <3>1. req' = [req EXCEPT ![r] = w]
      BY <1>5, <2>3 DEF SendRejected
    <3>2. /\ w \in RequestRecord /\ w.pc = "read" /\ w.server = req[r].server
          /\ w.seen = req[r].seen /\ w.on = None /\ req[r].server \in Servers
      BY <2>1, RequestNow DEF RequestRecord
    <3> QED BY <2>1, <3>1, <3>2, Onward DEF Refreshing
  <2> QED BY <2>2, <2>3
<1> QED BY <1>1, <1>2, <1>3, <1>4, <1>5

-----------------------------------------------------------------------------
(* The refresh.                                                            *)

\* A request waits for the refresh of another.
LEMMA AwaitStep ==
    ASSUME IInv, NEW r \in Requests, req[r].pc = "decide", flight[req[r].server] # None,
           req' = [req EXCEPT ![r].pc = "await", ![r].on = flight[req[r].server],
                              ![r].seen = NoCredential],
           UNCHANGED <<credential, connecting, admin, flight, external, granted, spent>>
    PROVE  IInv'
<1> DEFINE s == req[r].server
           o == flight[s]
           w == [req[r] EXCEPT !.pc = "await", !.on = o, !.seen = NoCredential]
<1>1. s \in Servers /\ o \in Requests /\ req[o].server = s /\ req[o].pc \in Refreshing /\ o # r
  BY RequestNow DEF IInv, TypeOK, Refreshing
<1>2. /\ w \in RequestRecord /\ w.pc = "await" /\ w.server = s /\ w.seen = NoCredential /\ w.on = o
  BY <1>1, RequestNow DEF RequestRecord
<1>3. /\ req' \in [Requests -> RequestRecord] /\ req'[r] = w
      /\ \A d \in Requests \ {r} : req'[d] = req[d]
  BY <1>2, RequestNow
<1>4. Rows'
  <2>1. Reads(r)
    BY <1>2, <1>3 DEF Reads, Sending
  <2>2. \A d \in Requests : Reads(d)
    BY <1>3, <2>1, Idles
  <2> QED BY <2>2, RowsRead DEF connecting, external
<1>5. TypeOK'
  <2>1. \A t \in Servers, d \in Requests :
            flight'[t] = d <=> req'[d].server = t /\ req'[d].pc \in Refreshing
    BY <1>2, <1>3 DEF IInv, TypeOK, Refreshing
  <2> QED BY <1>3, <2>1 DEF IInv, TypeOK, RequestRecord, connecting, admin, external
<1>6. Served' /\ Named'
  BY <1>1, <1>2, <1>3, McpAssumption DEF IInv, Flights, Served, Named, At, connecting, admin
<1>7. WaitsForLive'
  <2> SUFFICES ASSUME NEW d \in Requests, req'[d].pc = "await"
               PROVE  /\ flight[req'[d].server] = req'[d].on
                      /\ req'[req'[d].on].server = req'[d].server
                      /\ req'[req'[d].on].pc \in Refreshing
    BY DEF WaitsForLive, At
  <2>1. CASE d = r
    BY <1>1, <1>2, <1>3, <2>1
  <2>2. CASE d # r
    <3>1. /\ req'[d] = req[d] /\ flight[req[d].server] = req[d].on
          /\ req[req[d].on].server = req[d].server /\ req[req[d].on].pc \in Refreshing
      BY <1>3, <2>2 DEF IInv, Flights, WaitsForLive, At
    <3>2. req[d].on \in Requests
      BY <1>3, <2>2, RequestNow DEF RequestRecord
    <3>3. req[d].on # r
      BY <3>1 DEF Refreshing
    <3> QED BY <1>3, <3>1, <3>2, <3>3
  <2> QED BY <2>1, <2>2
<1> QED BY <1>4, <1>5, <1>6, <1>7 DEF IInv, Flights

\* A request enters the refresh of its server.
LEMMA ClaimStep ==
    ASSUME IInv, NEW r \in Requests, req[r].pc = "decide", flight[req[r].server] = None,
           flight' = [flight EXCEPT ![req[r].server] = r],
           req' = [req EXCEPT ![r].pc = "reread", ![r].old = stale],
           UNCHANGED <<credential, connecting, admin, external, granted, spent>>
    PROVE  IInv'
<1> DEFINE s == req[r].server
           w == [req[r] EXCEPT !.pc = "reread", !.old = stale]
<1>1. s \in Servers /\ req[r].on = None
  BY RequestNow
<1>2. /\ w \in RequestRecord /\ w.pc = "reread" /\ w.server = s /\ w.seen = req[r].seen
      /\ w.on = None
  <2>1. stale \subseteq Pairs
    BY DEF IInv, TypeOK
  <2> QED BY <1>1, <2>1, RequestNow DEF RequestRecord
<1>3. /\ req' \in [Requests -> RequestRecord] /\ req'[r] = w
      /\ \A d \in Requests \ {r} : req'[d] = req[d]
  BY <1>2, RequestNow
<1>4. Rows'
  <2>1. Reads(r)
    BY <1>2, <1>3 DEF Reads, Sending
  <2>2. \A d \in Requests : Reads(d)
    BY <1>3, <2>1, Idles
  <2> QED BY <2>2, RowsRead DEF connecting, external
<1>5. /\ flight' \in [Servers -> Requests \cup {None}] /\ flight'[s] = r
      /\ \A t \in Servers \ {s} : flight'[t] = flight[t]
  BY <1>1 DEF IInv, TypeOK
<1>6. TypeOK'
  <2>1. \A t \in Servers, d \in Requests :
            flight'[t] = d <=> req'[d].server = t /\ req'[d].pc \in Refreshing
    <3> SUFFICES ASSUME NEW t \in Servers, NEW d \in Requests
                 PROVE  flight'[t] = d <=> req'[d].server = t /\ req'[d].pc \in Refreshing
      OBVIOUS
    <3>1. flight[t] = d <=> req[d].server = t /\ req[d].pc \in Refreshing
      BY DEF IInv, TypeOK
    <3> QED BY <1>1, <1>2, <1>3, <1>5, <3>1, McpAssumption DEF Refreshing
  <2> QED BY <1>3, <1>5, <2>1 DEF IInv, TypeOK, RequestRecord, connecting, admin, external
<1>7. Served' /\ Named'
  BY <1>1, <1>2, <1>3 DEF IInv, Flights, Served, Named, At, connecting, admin
<1>8. WaitsForLive'
  <2> SUFFICES ASSUME NEW d \in Requests, req'[d].pc = "await"
               PROVE  /\ flight'[req'[d].server] = req'[d].on
                      /\ req'[req'[d].on].server = req'[d].server
                      /\ req'[req'[d].on].pc \in Refreshing
    BY DEF WaitsForLive, At
  <2>1. d # r /\ req'[d] = req[d]
    BY <1>2, <1>3
  <2>2. /\ flight[req[d].server] = req[d].on /\ req[d].on \in Requests /\ req[d].server \in Servers
        /\ req[req[d].on].server = req[d].server /\ req[req[d].on].pc \in Refreshing
    BY <2>1, RequestNow DEF IInv, Flights, WaitsForLive, At, RequestRecord
  <2>3. req[d].server # s /\ req[d].on # r
    BY <2>2, McpAssumption DEF Refreshing
  <2> QED BY <1>3, <1>5, <2>1, <2>2, <2>3
<1> QED BY <1>4, <1>6, <1>7, <1>8 DEF IInv, Flights

\* mintCredential decides.
LEMMA MintStep ==
    ASSUME IInv, NEW r \in Requests, Mint(r)
    PROVE  IInv'
<1> DEFINE q == req[r]
<1>1. /\ q.pc = "decide" /\ q.on = None /\ q.server \in Servers
      /\ UNCHANGED <<credential, connecting, admin, external, granted, spent>>
  BY RequestNow DEF Mint, At
<1>2. CASE Back(r) /\ UNCHANGED flight
  BY <1>1, <1>2, BackStep DEF Refreshing
<1>3. CASE req' = [req EXCEPT ![r] = WithToken(@, q.seen.pair)] /\ UNCHANGED flight
  <2>1. q.seen.pair \in Pairs
    BY RequestNow DEF RequestRecord, Credentials
  <2>2. req' = [req EXCEPT ![r] = WithToken(req[r], q.seen.pair)]
    BY <1>3
  <2> QED BY <1>1, <1>3, <2>1, <2>2, TokenRecord, Onward DEF Refreshing
<1>4. CASE /\ flight[q.server] # None
           /\ req' = [req EXCEPT ![r].pc = "await", ![r].on = flight[q.server],
                                               ![r].seen = NoCredential]
           /\ UNCHANGED flight
  BY <1>1, <1>4, AwaitStep
<1>5. CASE /\ flight[q.server] = None
           /\ flight' = [flight EXCEPT ![q.server] = r]
           /\ req' = [req EXCEPT ![r].pc = "reread", ![r].old = stale]
  BY <1>1, <1>5, ClaimStep
<1> QED BY <1>2, <1>3, <1>4, <1>5 DEF Mint

\* A refresh ends, for the fiber that made it and those that wait for it.
Lands(r) ==
    /\ req' \in [Requests -> RequestRecord]
    /\ \A d \in Requests :
          IF d = r \/ req[d].on = r
          THEN /\ req'[d].pc \in {"ready", "send"} /\ req'[d].server = req[d].server
               /\ req'[d].seen = NoCredential /\ req'[d].on = None
          ELSE req'[d] = req[d]
    /\ Landed(r)

LEMMA FailedLands ==
    ASSUME IInv, NEW r \in Requests, RefreshFails(r) PROVE Lands(r)
<1>1. \A d \in Requests : req'[d] = IF d = r \/ req[d].on = r THEN Between(req[d]) ELSE req[d]
  BY DEF RefreshFails, Failed
<1>2. \A d \in Requests : req'[d] \in RequestRecord
  BY <1>1, BetweenRecord
<1> QED BY <1>1, <1>2, BetweenRecord DEF RefreshFails, Failed, Lands

LEMMA AnsweredLands ==
    ASSUME IInv, NEW r \in Requests, NEW t \in Pairs, Answered(r, t) PROVE Lands(r)
<1>1. \A d \in Requests : req'[d] = IF d = r \/ req[d].on = r THEN WithToken(req[d], t) ELSE req[d]
  BY DEF Answered
<1>2. \A d \in Requests : req'[d] \in RequestRecord
  BY <1>1, TokenRecord, BetweenRecord
<1> QED BY <1>1, <1>2, TokenRecord DEF Answered, Lands

LEMMA LandStep ==
    ASSUME IInv, NEW r \in Requests, req[r].pc \in Refreshing, Lands(r),
           UNCHANGED <<connecting, admin>>
    PROVE  /\ Flights' /\ \A d \in Requests : Reads(d)
           /\ flight' \in [Servers -> Requests \cup {None}]
           /\ \A s \in Servers, d \in Requests :
                 flight'[s] = d <=> req'[d].server = s /\ req'[d].pc \in Refreshing
<1> DEFINE s == req[r].server
           Ends(d) == d = r \/ req[d].on = r
<1>1. s \in Servers /\ flight[s] = r
  BY RequestNow DEF IInv, TypeOK, Refreshing
<1>2. /\ flight' \in [Servers -> Requests \cup {None}] /\ flight'[s] = None
      /\ \A t \in Servers \ {s} : flight'[t] = flight[t]
  BY <1>1 DEF IInv, TypeOK, Lands, Landed
<1>3. ASSUME NEW d \in Requests, Ends(d)
      PROVE  /\ req'[d].pc \in {"ready", "send"} /\ req'[d].server = s
             /\ req'[d].seen = NoCredential /\ req'[d].on = None
  <2>1. CASE d = r
    BY <2>1 DEF Lands
  <2>2. CASE d # r
    <3>1. req[d].on = r /\ req[d].pc = "await"
      BY <1>3, <2>2, RequestNow, McpAssumption
    <3>2. req[d].server = s
      BY <3>1 DEF IInv, Flights, WaitsForLive, At
    <3> QED BY <1>3, <3>2 DEF Lands
  <2> QED BY <2>1, <2>2
<1>4. ASSUME NEW d \in Requests, ~Ends(d) PROVE req'[d] = req[d]
  BY <1>4 DEF Lands
<1>5. \A d \in Requests : Reads(d)
  <2> SUFFICES ASSUME NEW d \in Requests PROVE Reads(d)
    OBVIOUS
  <2>1. CASE Ends(d)
    BY <1>3, <2>1 DEF Reads, Sending
  <2>2. CASE ~Ends(d)
    BY <1>4, <2>2, Idles
  <2> QED BY <2>1, <2>2
<1>6. \A t \in Servers, d \in Requests :
          flight'[t] = d <=> req'[d].server = t /\ req'[d].pc \in Refreshing
  <2> SUFFICES ASSUME NEW t \in Servers, NEW d \in Requests
               PROVE  flight'[t] = d <=> req'[d].server = t /\ req'[d].pc \in Refreshing
    OBVIOUS
  <2>1. /\ flight[t] = d <=> req[d].server = t /\ req[d].pc \in Refreshing
        /\ flight[t] = r <=> req[r].server = t /\ req[r].pc \in Refreshing
    BY DEF IInv, TypeOK
  <2>2. CASE Ends(d)
    BY <1>1, <1>2, <1>3, <2>1, <2>2, McpAssumption, RequestNow DEF Refreshing
  <2>3. CASE ~Ends(d)
    BY <1>1, <1>2, <1>4, <2>1, <2>3, McpAssumption
  <2> QED BY <2>2, <2>3
<1>7. Served' /\ Named'
  <2>1. \A d \in Requests : req'[d].pc # "idle" => req'[d].server \in Servers
    BY <1>1, <1>3, <1>4, RequestNow
  <2>2. \A d \in Requests : req'[d].pc = "await" <=> req'[d].on # None
    BY <1>3, <1>4, RequestNow
  <2> QED BY <2>1, <2>2 DEF IInv, Flights, Served, Named, At, connecting, admin
<1>8. WaitsForLive'
  <2> SUFFICES ASSUME NEW d \in Requests, req'[d].pc = "await"
               PROVE  /\ flight'[req'[d].server] = req'[d].on
                      /\ req'[req'[d].on].server = req'[d].server
                      /\ req'[req'[d].on].pc \in Refreshing
    BY DEF WaitsForLive, At
  <2>1. ~Ends(d) /\ req'[d] = req[d]
    BY <1>3, <1>4
  <2>2. /\ flight[req[d].server] = req[d].on /\ req[d].on \in Requests /\ req[d].server \in Servers
        /\ req[req[d].on].server = req[d].server /\ req[req[d].on].pc \in Refreshing
    BY <2>1, RequestNow DEF IInv, Flights, WaitsForLive, At, RequestRecord
  <2>3. req[d].server # s
    BY <1>1, <2>1, <2>2
  <2>4. req[req[d].on].on = None
    BY <2>2, RequestNow DEF Refreshing
  <2>5. ~Ends(req[d].on)
    BY <2>1, <2>4, McpAssumption
  <2> QED BY <1>2, <1>4, <2>1, <2>2, <2>3, <2>5
<1> QED BY <1>2, <1>5, <1>6, <1>7, <1>8 DEF Flights

\* A refresh that stores nothing ends.
LEMMA LandPlain ==
    ASSUME IInv, NEW r \in Requests, req[r].pc \in Refreshing, Lands(r),
           UNCHANGED <<credential, connecting, admin, external, granted, spent>>
    PROVE  IInv'
<1>1. /\ Flights' /\ \A d \in Requests : Reads(d)
      /\ flight' \in [Servers -> Requests \cup {None}]
      /\ \A s \in Servers, d \in Requests :
            flight'[s] = d <=> req'[d].server = s /\ req'[d].pc \in Refreshing
  BY LandStep
<1>2. Rows'
  BY <1>1, RowsRead DEF connecting, external
<1>3. TypeOK'
  BY <1>1 DEF IInv, TypeOK, Lands, RequestRecord, connecting, admin, external
<1> QED BY <1>1, <1>2, <1>3 DEF IInv

\* refreshTokens reads the row again.
LEMMA RereadStep ==
    ASSUME IInv, NEW r \in Requests, Reread(r)
    PROVE  IInv'
<1> DEFINE now == Current(r)
           w == [req[r] EXCEPT !.pc = "exchange", !.seen = now, !.old = {}]
<1>1. /\ req[r].pc = "reread" /\ req[r].pc \in Refreshing /\ req[r].server \in Servers
      /\ UNCHANGED <<credential, connecting, admin, external, granted, spent>>
  BY RequestNow DEF Reread, At, Refreshing
<1>2. now \in {credential[req[r].server], NoCredential} /\ now \in Credentials
  BY <1>1, DetailsRow DEF IInv, Current
<1>3. CASE RefreshFails(r)
  BY <1>1, <1>3, FailedLands, LandPlain
<1>4. CASE Answered(r, now.pair)
  <2>1. now.pair \in Pairs
    BY <1>2 DEF Credentials
  <2> QED BY <1>1, <1>4, <2>1, AnsweredLands, LandPlain
<1>5. CASE now # NoCredential /\ now.refresh # 0 /\ req' = [req EXCEPT ![r] = w] /\ UNCHANGED flight
  <2>1. /\ w \in RequestRecord /\ w.pc = "exchange" /\ w.server = req[r].server
        /\ w.seen = credential[req[r].server] /\ w.on = req[r].on /\ w.seen.refresh # 0
    BY <1>2, <1>5, RequestNow DEF RequestRecord
  <2>2. /\ req' \in [Requests -> RequestRecord] /\ req'[r] = w
        /\ \A d \in Requests \ {r} : req'[d] = req[d]
    BY <1>5, <2>1, RequestNow
  <2>3. Reads(r) /\ Stays(r)
    BY <1>1, <2>1, <2>2, RequestNow DEF Reads, Stays, Sending, Refreshing
  <2>4. \A d \in Requests : Reads(d) /\ Stays(d)
    BY <2>2, <2>3, Idles
  <2> QED BY <1>1, <1>5, <2>2, <2>4, PlainStep
<1> QED BY <1>3, <1>4, <1>5 DEF Reread

\* The exchange or the storing fails.
LEMMA ExchangeFailsStep ==
    ASSUME IInv, NEW r \in Requests, ExchangeFails(r)
    PROVE  IInv'
BY FailedLands, LandPlain DEF ExchangeFails, At, Refreshing

\* The provider answers with a pair nobody has.
LEMMA ExchangeStep ==
    ASSUME IInv, NEW r \in Requests, RefreshAccessToken(r)
    PROVE  IInv'
<1>1. /\ req[r].pc = "exchange" /\ req[r].server \in Servers /\ req[r].on = None
      /\ issued < MaxTokens /\ issued' = issued + 1
      /\ UNCHANGED <<credential, connecting, admin, flight, stale, dead, granted, spent>>
  BY RequestNow DEF RefreshAccessToken, At
<1>2. PICK n \in Nat : n = issued + 1
  BY Numbers DEF IInv
<1>3. PICK kept \in {req[r].seen.refresh, n} :
         req' = [req EXCEPT ![r].pc = "persist", ![r].got = n, ![r].kept = kept]
  BY <1>2 DEF RefreshAccessToken
<1>4. /\ req' \in [Requests -> RequestRecord]
      /\ req'[r].pc = "persist" /\ req'[r].got = n /\ req'[r].kept = kept
      /\ req'[r].server = req[r].server /\ req'[r].seen = req[r].seen /\ req'[r].on = req[r].on
      /\ \A d \in Requests \ {r} : req'[d] = req[d]
  <2>1. n \in Pairs /\ kept \in Pairs
    BY <1>1, <1>2, RequestNow, Numbers DEF IInv, Pairs, RequestRecord, Credentials
  <2> DEFINE w == [req[r] EXCEPT !.pc = "persist", !.got = n, !.kept = kept]
  <2>2. /\ w \in RequestRecord /\ w.pc = "persist" /\ w.got = n /\ w.kept = kept
        /\ w.server = req[r].server /\ w.seen = req[r].seen /\ w.on = req[r].on
    BY <2>1, RequestNow DEF RequestRecord
  <2>3. req' = [req EXCEPT ![r] = w]
    BY <1>3
  <2> QED BY <2>2, <2>3, RequestNow
<1>5. \A d \in Requests : Stays(d)
  <2>1. Stays(r)
    BY <1>1, <1>4 DEF Stays, Refreshing
  <2> QED BY <1>4, <2>1, Idles
<1>6. /\ Flights'
      /\ \A s \in Servers, d \in Requests :
            flight'[s] = d <=> req'[d].server = s /\ req'[d].pc \in Refreshing
  BY <1>1, <1>5, FlightsStay DEF connecting, admin
<1>7. TypeOK'
  <2>1. issued' \in Pairs
    BY <1>1, Numbers DEF IInv, Pairs
  <2> QED BY <1>1, <1>4, <1>6, <2>1 DEF IInv, TypeOK, RequestRecord, connecting, admin
<1> USE DEF IInv, Rows, connecting, admin
<1>8. \A d \in Requests : req'[d].seen = req[d].seen /\ req'[d].server = req[d].server
  BY <1>4
<1>9. NewestGrant' /\ Empty' /\ Same'
  BY <1>1, <1>8 DEF NewestGrant, Empty, Same
<1>10. Bounded'
  BY <1>1, <1>8, Numbers DEF Bounded
<1>11. New(n)'
  BY <1>1, <1>2, <1>8, Numbers DEF New, Bounded
<1>12. ASSUME NEW t \in Nat, New(t) PROVE New(t)' /\ t # n
  BY <1>1, <1>2, <1>8, <1>12, Numbers DEF New
<1>13. FreshCodes'
  BY <1>1, <1>12, Numbers DEF FreshCodes
<1>14. \A d \in Requests \ {r} : req'[d].pc = "persist" => req'[d].got # n
  BY <1>4, <1>12, Numbers DEF FreshTokens, At
<1>15. \A k \in Callbacks : callback'[k].at = "store" => callback'[k].pair # n
  BY <1>1, <1>12, Numbers DEF FreshCodes
<1>16. FreshTokens'
  <2> SUFFICES ASSUME NEW d \in Requests, req'[d].pc = "persist", NEW t \in Nat, t = req'[d].got
               PROVE  /\ New(t)' /\ req'[d].kept \in {req'[d].seen.refresh, t}
                      /\ \A e \in Requests : req'[e].pc = "persist" /\ req'[e].got = t => e = d
                      /\ \A k \in Callbacks : callback'[k].at = "store" => callback'[k].pair # t
    BY <1>7, Numbers, McpAssumption DEF FreshTokens, At, TypeOK, Pairs
  <2>1. CASE d = r
    BY <1>4, <1>11, <1>14, <1>15, <2>1
  <2>2. CASE d # r
    BY <1>1, <1>4, <1>12, <1>14, <2>2, Numbers DEF FreshTokens, At
  <2> QED BY <2>1, <2>2
<1>17. Unspent'
  <2>1. req'[r].seen.refresh # 0 /\ <<req'[r].server, req'[r].seen.refresh>> \notin spent
    BY <1>1, <1>4 DEF Unspent, Sending
  <2>2. \A d \in Requests \ {r} : req'[d].pc \in Sending => req'[d].seen.refresh # 0
            /\ <<req'[d].server, req'[d].seen.refresh>> \notin spent
    BY <1>4 DEF Unspent
  <2> QED BY <1>1, <2>1, <2>2 DEF Unspent
<1> QED BY <1>6, <1>7, <1>9, <1>10, <1>13, <1>16, <1>17

\* The pair is stored over the row that was read.
LEMMA PersistStep ==
    ASSUME IInv, NEW r \in Requests, PersistRefreshedToken(r)
    PROVE  IInv'
<1> DEFINE q == req[r]
           s == q.server
           row == [credential[s] EXCEPT !.pair = q.got, !.refresh = q.kept, !.grant = q.seen.grant]
<1>1. /\ q.pc = "persist" /\ q.pc \in Refreshing /\ q.pc \in Sending /\ s \in Servers
      /\ UNCHANGED <<connecting, admin, external, granted>>
  BY RequestNow DEF PersistRefreshedToken, At, Refreshing, Sending
<1>2. CASE ~Unchanged(r)
  BY <1>1, <1>2, FailedLands, LandPlain DEF PersistRefreshedToken
<1>3. CASE Unchanged(r)
  <2>1. /\ credential' = [credential EXCEPT ![s] = row]
        /\ spent' = IF q.kept = q.seen.refresh THEN spent ELSE spent \cup {<<s, q.seen.refresh>>}
        /\ Answered(r, q.got)
    BY <1>3 DEF PersistRefreshedToken
  <2>2. /\ q.got \in Pairs /\ q.kept \in Pairs /\ q.seen \in Credentials
        /\ credential[s] = q.seen /\ credential[s] \in Credentials
    BY <1>1, <1>3, RequestNow DEF Unchanged, IInv, TypeOK, Rows, Same, RequestRecord
  <2>3. /\ row \in Credentials /\ row.pair = q.got /\ row.refresh = q.kept
        /\ row.grant = credential[s].grant
    BY <2>2 DEF Credentials
  <2>4. /\ credential' \in [Servers -> Credentials] /\ credential'[s] = row
        /\ \A o \in Servers \ {s} : credential'[o] = credential[o]
    <3>1. credential \in [Servers -> Credentials]
      BY DEF IInv, TypeOK
    <3> HIDE DEF row, s
    <3> QED BY <1>1, <2>1, <2>3, <3>1
  <2>5. /\ spent' \subseteq Servers \X Pairs
        /\ \A e \in spent' : e \in spent \/ (e = <<s, q.seen.refresh>> /\ q.kept # q.seen.refresh)
    BY <1>1, <2>1, <2>2 DEF IInv, TypeOK, Credentials
  <2>6. Lands(r)
    BY <2>1, <2>2, AnsweredLands
  <2>7. /\ Flights'
        /\ flight' \in [Servers -> Requests \cup {None}]
        /\ \A o \in Servers, d \in Requests :
              flight'[o] = d <=> req'[d].server = o /\ req'[d].pc \in Refreshing
    BY <1>1, <2>6, LandStep
  <2>8. TypeOK'
    BY <1>1, <2>4, <2>5, <2>6, <2>7 DEF IInv, TypeOK, Lands, RequestRecord, connecting, admin, external
  <2>9. \A d \in Requests :
           \/ /\ req'[d].seen = NoCredential /\ req'[d].server = req[d].server
              /\ req'[d].pc \notin Sending
           \/ d # r /\ req'[d] = req[d]
    BY <2>6 DEF Lands, Sending
  <2> HIDE DEF row
  <2> USE DEF IInv, Rows, connecting, admin, external
  <2>10. /\ New(q.got) /\ q.kept \in {q.seen.refresh, q.got} /\ q.seen.refresh # 0
         /\ <<s, q.seen.refresh>> \notin spent /\ q.seen.refresh # q.got
    BY <1>1 DEF FreshTokens, Unspent, At, New
  <2>11. NewestGrant'
    BY <1>1, <2>3, <2>4 DEF NewestGrant
  <2>12. Empty'
    BY <2>3, <2>4, <2>9, <2>10 DEF Empty, New, NoCredential
  <2>13. Same'
    <3> SUFFICES ASSUME NEW d \in Requests, req'[d].server \in Servers,
                        req'[d].seen.pair = credential'[req'[d].server].pair
                 PROVE  req'[d].seen = credential'[req'[d].server]
      BY DEF Same
    <3>1. CASE req'[d].seen = NoCredential
      BY <2>12, <3>1 DEF Empty, NoCredential
    <3>2. CASE req'[d] = req[d]
      BY <2>3, <2>4, <2>10, <3>2 DEF Same, New
    <3> QED BY <2>9, <3>1, <3>2
  <2>14. Bounded'
    <3>1. issued' = issued /\ NoCredential.pair = 0 /\ NoCredential.refresh = 0
      BY <1>1 DEF NoCredential
    <3>2. q.got <= issued /\ q.seen.refresh <= issued /\ q.kept <= issued /\ 0 < q.seen.refresh
      BY <1>1, <2>10, Numbers DEF New, Bounded
    <3>3. \A o \in Servers : credential'[o].pair <= issued /\ credential'[o].refresh <= issued
      BY <2>3, <2>4, <3>2 DEF Bounded
    <3>4. \A d \in Requests : req'[d].seen.pair <= issued /\ req'[d].seen.refresh <= issued
      BY <2>9, <3>1, Numbers DEF Bounded
    <3>5. \A e \in spent' : 0 < e[2] /\ e[2] <= issued
      BY <2>5, <3>2 DEF Bounded
    <3> QED BY <3>1, <3>3, <3>4, <3>5 DEF Bounded
  <2>15. ASSUME NEW t, New(t), t # q.got PROVE New(t)'
    <3>1. /\ issued' = issued /\ 0 < t /\ t <= issued /\ t # q.seen.refresh /\ t # q.kept
          /\ t # 0
      BY <1>1, <2>10, <2>15 DEF New
    <3>2. \A o \in Servers : credential'[o].pair # t /\ credential'[o].refresh # t
      BY <2>3, <2>4, <2>15, <3>1 DEF New
    <3>3. \A d \in Requests : req'[d].seen.pair # t /\ req'[d].seen.refresh # t
      BY <2>9, <2>15, <3>1 DEF New, NoCredential
    <3>4. \A e \in spent' : e[2] # t
      BY <2>5, <2>15, <3>1 DEF New
    <3> QED BY <3>1, <3>2, <3>3, <3>4 DEF New
  <2>16. FreshCodes'
    BY <1>1, <2>15 DEF FreshCodes, FreshTokens, At
  <2>17. FreshTokens'
    <3> SUFFICES ASSUME NEW d \in Requests, req'[d].pc = "persist", NEW t, t = req'[d].got
                 PROVE  /\ New(t)' /\ req'[d].kept \in {req'[d].seen.refresh, t}
                        /\ \A e \in Requests : req'[e].pc = "persist" /\ req'[e].got = t => e = d
                        /\ \A k \in Callbacks : callback'[k].at = "store" => callback'[k].pair # t
      BY DEF FreshTokens, At
    <3>1. d # r /\ req'[d] = req[d]
      BY <2>9 DEF Sending
    <3>2. New(t) /\ t # q.got
      BY <1>1, <3>1 DEF FreshTokens, At
    <3> QED BY <1>1, <2>9, <2>15, <3>1, <3>2 DEF FreshTokens, At, Sending
  <2>18. Unspent'
    <3>1. <<s, q.kept>> \notin spent'
      BY <2>1, <2>5, <2>10 DEF New
    <3>2. \A o \in Servers \ {s} : <<o, credential'[o].refresh>> \notin spent'
      BY <2>4, <2>5 DEF Unspent
    <3>3. ASSUME NEW d \in Requests, req'[d].pc \in Sending
          PROVE  req'[d].seen.refresh # 0 /\ <<req'[d].server, req'[d].seen.refresh>> \notin spent'
      <4>1. d # r /\ req'[d] = req[d]
        BY <2>9, <3>3
      <4>2. req[d].server # s
        BY <1>1, <3>3, <4>1 DEF TypeOK, Sending, Refreshing
      <4> QED BY <2>5, <3>3, <4>1, <4>2 DEF Unspent
    <3> QED BY <1>1, <2>3, <2>4, <3>1, <3>2, <3>3 DEF Unspent
  <2> QED BY <2>7, <2>8, <2>11, <2>12, <2>13, <2>14, <2>16, <2>17, <2>18
<1> QED BY <1>2, <1>3

-----------------------------------------------------------------------------
(* The theorems.                                                           *)

\* A pair lapses.
LEMMA LapseStep ==
    ASSUME IInv, \E t \in 1..MaxTokens : TokenExpires(t) \/ TokenDies(t)
    PROVE  IInv'
<1>1. /\ UNCHANGED <<credential, connecting, admin, minting, issued, granted, spent>>
      /\ stale' \subseteq Pairs /\ dead' \subseteq Pairs
  <2>1. \A t \in 1..MaxTokens : t \in Pairs
    BY McpAssumption DEF Pairs
  <2> QED BY <2>1 DEF TokenExpires, TokenDies, IInv, TypeOK
<1>2. TypeOK'
  BY <1>1 DEF IInv, TypeOK, connecting, admin, minting
<1>3. Rows'
  BY <1>1, RowsStay DEF connecting, minting
<1>4. Flights'
  BY <1>1 DEF IInv, Flights, Served, Named, WaitsForLive, At, connecting, admin, minting
<1> QED BY <1>2, <1>3, <1>4 DEF IInv

\* Nothing happens.
LEMMA Stutters ==
    ASSUME IInv, UNCHANGED vars
    PROVE  IInv'
<1>1. TypeOK'
  BY DEF IInv, TypeOK, vars
<1>2. Rows'
  BY RowsStay DEF vars
<1>3. Flights'
  BY DEF IInv, Flights, Served, Named, WaitsForLive, At, vars
<1> QED BY <1>1, <1>2, <1>3 DEF IInv

\* Every step preserves the inductive invariant.
LEMMA Inductive == IInv /\ [Next]_vars => IInv'
<1> SUFFICES ASSUME IInv, [Next]_vars PROVE IInv'
  OBVIOUS
<1>1. ASSUME NEW r \in Requests, RequestStep(r) PROVE IInv'
  BY <1>1, RequestSteps, MintStep, RereadStep, ExchangeStep, ExchangeFailsStep, PersistStep
  DEF RequestStep
<1>2. CASE \E r \in Requests : Request(r) \/ \E s \in Servers : StartProxy(r, s)
  BY <1>2, RequestSteps
<1>3. CASE \E x \in States :
              \/ InsertState(x) \/ StateExpires(x)
              \/ \E s \in Servers : BeginAuthorization(x, s)
              \/ \E k \in Callbacks : BeginCallback(k, x)
  BY <1>3, ConnectStep
<1>4. ASSUME NEW k \in Callbacks, CallbackStep(k) PROVE IInv'
  BY <1>4, ConnectStep, RedeemStep, StoreStep DEF CallbackStep
<1>5. CASE \/ \E s \in Servers : CreateServer(s) \/ \E e \in Edits : BeginPut(e, s)
           \/ \E e \in Edits : UpdateServer(e)
  BY <1>5, ChangeStep
<1>6. CASE \/ \E s \in Servers : Disconnect(s) \/ DeleteServer(s)
           \/ \E e \in Edits : PutDisconnects(e)
  BY <1>6, GoneStep
<1>7. CASE \E t \in 1..MaxTokens : TokenExpires(t) \/ TokenDies(t)
  BY <1>7, LapseStep
<1>8. CASE UNCHANGED vars
  BY <1>8, Stutters
<1> QED BY <1>1, <1>2, <1>3, <1>4, <1>5, <1>6, <1>7, <1>8 DEF Next

\* The inductive invariant holds in every behaviour.
THEOREM Invariance == Spec => []IInv
<1> QED BY Initially, Inductive, PTL DEF Spec

\* The rows, the flows and the requests keep their types, and the entry of a
\* server in refreshState is the one request that refreshes for it.
THEOREM TypeCorrect == Spec => []TypeOK
<1>1. IInv => TypeOK
  BY DEF IInv
<1> QED BY <1>1, Invariance, PTL

\* Whoever waits for a refresh waits for one that is under way for its server.
THEOREM WaitersAreServed == Spec => []WaitsForLive
<1>1. IInv => WaitsForLive
  BY DEF IInv, Flights
<1> QED BY <1>1, Invariance, PTL

\* No refresh brings back a credential that was disconnected or replaced.
THEOREM GrantsAreNew == Spec => []NewestGrant
<1>1. IInv => NewestGrant
  BY DEF IInv, Rows
<1> QED BY <1>1, Invariance, PTL

\* A refresh token whose successor was stored is never sent again.
THEOREM TokensAreSpentOnce == Spec => []SpentNotReplayed
<1>1. IInv => SpentNotReplayed
  BY DEF IInv, Rows, Unspent, SpentNotReplayed, At, Sending
<1> QED BY <1>1, Invariance, PTL
=============================================================================
