------------------------------ MODULE Connections ------------------------------
(***************************************************************************)
(* Store connections of the hosted server                                  *)
(* (src/src/hosted/shopify-connect.ts): the /stores session, connecting    *)
(* and disconnecting a store, the Reconnect all chain, the online tokens   *)
(* kept encrypted per person and store, their use by tool calls, and the   *)
(* rotation of the encryption keys.  A sign-in arrives here with a person  *)
(* whom Shopify verified (module SignIn).                                  *)
(*                                                                         *)
(* Every store operation is one action; other requests run in between.     *)
(* Shopify is the environment: it answers a callback for any person, with  *)
(* or without every requested scope.                                       *)
(***************************************************************************)
EXTENDS Integers, Sequences

CONSTANTS
    People,      \* verified staff emails
    StoreOrder,  \* the configured stores, in the order they are visited
    Sessions,    \* /stores session keys
    Links,       \* connection states
    Requests,    \* requests in flight at once
    None,        \* no record in a store map
    SessionTtl,  \* SESSION_TTL_MS
    StateTtl,    \* STATE_TTL_MS
    TokenTtl,    \* a day: expires_in of an online token
    Grace,       \* EXPIRED_RECORD_GRACE_MS
    Recent,      \* the 10 minutes for which scopes are not asked for again
    Granted,     \* whether Shopify grants every requested scope: subset of BOOLEAN
    Inherited,   \* connections that may be kept in the v1 format, from before key ids
    MaxKeys,     \* bound on the encryption keys ever used
    MaxTime      \* bound of the model's clock

Stores == {StoreOrder[i] : i \in 1 .. Len(StoreOrder)}

\* key is the key the token was encrypted with; a v1 record does not say which.
TokenRecords == [owner : People, key : 1 .. MaxKeys, v1 : BOOLEAN, full : BOOLEAN,
                 connectedAt : Nat, expiresAt : Nat]

ASSUME ConnectionsAssumption ==
    /\ StoreOrder \in Seq(Stores)
    /\ Recent <= TokenTtl
    /\ Granted \subseteq BOOLEAN
    /\ Inherited \subseteq People \X Stores
    /\ {SessionTtl, StateTtl, TokenTtl, Grace, Recent, MaxTime} \subseteq Nat
    /\ MaxKeys \in Nat \ {0}
    /\ None \notin People \cup Stores \cup Sessions \cup Links
    /\ None \notin TokenRecords

VARIABLES
    now,       \* the clock
    ring,      \* the configured keys: the oldest and the newest (primary) one
    token,     \* store kind "shopify_token", per person and store
    state,     \* store kind "shopify_state"
    session,   \* store kind "session"
    req,       \* requests in flight
    (* history *)
    rotatedAt, \* when the newest key was added
    opened,    \* whose each session is
    asked,     \* states used
    wanted,    \* the connections each person began from the /stores page
    linked,    \* the connections last made by such a callback, not by a sign-in
    redeemed,  \* states a callback consumed: 0, 1, or 2 for more than once
    madeAt,    \* when Shopify granted the last one saved
    cut        \* connections that were disconnected and not made again

links   == <<asked, wanted, redeemed>>
made    == <<linked, madeAt, cut>>
history == <<rotatedAt, opened, links, made>>
vars    == <<now, ring, token, state, session, req, history>>

Connecting   == [email : People, session : Sessions, store : Stores,
                 chain : BOOLEAN, expiresAt : Nat]

\* What a request is for: it posts a form of the /stores page, answers a
\* callback, ends a sign-in (from an app or a page) or runs a tool.
Purposes == {"connect", "chain", "disconnect", "signout", "app", "stores",
             "reconnect", "tool"}
Stages   == {"idle", "start", "delete_token", "delete_session", "take_state",
             "callback_session", "exchange", "save", "open_session", "scan",
             "use", "reencrypt"}

\* grant is the token Shopify issued, or the record a tool call loaded; link
\* is the state a callback took; upto counts the stores a scan has passed.
Locals == [stage : Stages, purpose : Purposes, email : People \cup {None},
           session : Sessions \cup {None}, store : Stores \cup {None},
           link : Connecting \cup {None},
           grant : TokenRecords \cup {None}, upto : 0 .. Len(StoreOrder)]
Idle   == [stage |-> "idle", purpose |-> "tool", email |-> None, session |-> None,
           store |-> None, link |-> None, grant |-> None, upto |-> 0]

Live(e)      == e # None /\ e.expiresAt > now
Kept(record) == record # None /\ record.expiresAt + Grace > now

-----------------------------------------------------------------------------
\* What a version from before key ids kept, encrypted with the one key there was.
V1Records ==
    {[owner |-> e, key |-> 1, v1 |-> TRUE, full |-> full,
      connectedAt |-> 0, expiresAt |-> TokenTtl] : e \in People, full \in Granted}

Init ==
    /\ now = 0
    /\ ring = [oldest |-> 1, newest |-> 1]
    /\ token \in [People -> [Stores -> V1Records \cup {None}]]
    /\ \A e \in People, s \in Stores :
          token[e][s] # None => <<e, s>> \in Inherited /\ token[e][s].owner = e
    /\ state = [k \in Links |-> None]
    /\ session = [x \in Sessions |-> None]
    /\ req = [r \in Requests |-> Idle]
    /\ rotatedAt = 0
    /\ opened = [x \in Sessions |-> None]
    /\ asked = {}
    /\ wanted = {}
    /\ linked = {}
    /\ redeemed = [k \in Links |-> 0]
    /\ madeAt = [e \in People |-> [s \in Stores |-> None]]
    /\ cut = {}

Tick ==
    /\ now < MaxTime
    /\ now' = now + 1
    /\ UNCHANGED <<ring, token, state, session, req, history>>

At(r, stage)   == req[r].stage = stage
GoTo(r, stage) == req' = [req EXCEPT ![r].stage = stage]
End(r)         == req' = [req EXCEPT ![r] = Idle]

-----------------------------------------------------------------------------
(* Keys: prepend a new one, wait a day, drop the old one.  The server reads
   its keys when it starts, so both restart it and drop its requests. *)

AddKey ==
    /\ ring.newest < MaxKeys
    /\ ring' = [ring EXCEPT !.newest = @ + 1]
    /\ rotatedAt' = now
    /\ req' = [r \in Requests |-> Idle]
    /\ UNCHANGED <<now, token, state, session, opened, links, made>>

DropKey ==
    /\ ring.oldest < ring.newest
    /\ now >= rotatedAt + TokenTtl
    /\ ring' = [ring EXCEPT !.oldest = ring.newest]
    /\ req' = [r \in Requests |-> Idle]
    /\ UNCHANGED <<now, token, state, session, history>>

-----------------------------------------------------------------------------
(* POST /stores and POST /shopify/connect *)

\* The session is read first; its record never changes, so what the form was
\* posted with is settled by then.
Post(r, x, purpose, s, stage) ==
    /\ At(r, "idle")
    /\ Live(session[x])
    /\ req' = [req EXCEPT ![r] = [Idle EXCEPT !.stage = stage, !.purpose = purpose,
                 !.session = x, !.email = session[x].email, !.store = s]]
    /\ UNCHANGED <<now, ring, token, state, session, history>>

DeleteToken(r) ==
    LET e == req[r].email
        s == req[r].store
    IN  /\ At(r, "delete_token")
        /\ token' = [token EXCEPT ![e][s] = None]
        /\ cut' = cut \cup {<<e, s>>}
        /\ End(r)
        /\ UNCHANGED <<now, ring, state, session, rotatedAt, opened, links, linked, madeAt>>

DeleteSession(r) ==
    /\ At(r, "delete_session")
    /\ session' = [session EXCEPT ![req[r].session] = None]
    /\ End(r)
    /\ UNCHANGED <<now, ring, token, state, history>>

\* startConnection, from the form or from a chain that goes on.
Start(r, k) ==
    /\ At(r, "start")
    /\ k \notin asked
    /\ asked' = asked \cup {k}
    /\ wanted' = wanted \cup {<<req[r].email, req[r].store>>}
    /\ state' = [state EXCEPT ![k] =
         [email |-> req[r].email, session |-> req[r].session, store |-> req[r].store,
          chain |-> req[r].purpose \in {"chain", "reconnect"}, expiresAt |-> now + StateTtl]]
    /\ End(r)
    /\ UNCHANGED <<now, ring, token, session, rotatedAt, opened, redeemed, made>>

-----------------------------------------------------------------------------
(* GET /shopify/callback, with whichever session cookie its browser holds *)

TakeState(r, k, x, s) ==
    /\ At(r, "idle")
    /\ Live(state[k])
    /\ state' = [state EXCEPT ![k] = None]
    /\ redeemed' = [redeemed EXCEPT ![k] = IF @ = 0 THEN 1 ELSE 2]
    /\ req' = [req EXCEPT ![r] = [Idle EXCEPT !.stage = "callback_session", !.session = x,
                                              !.store = s, !.link = state[k]]]
    /\ UNCHANGED <<now, ring, token, session, rotatedAt, opened, asked, wanted, made>>

\* Mutant: any signed-in browser may finish the connection.
OwnStateOfAnyone(r, record) == record # None /\ req[r].link # None

OwnState(r, record) ==
    req[r].link.session = req[r].session /\ req[r].link.email = record.email

CheckSession(r) ==
    LET record == session[req[r].session]
        link   == req[r].link
    IN  /\ At(r, "callback_session")
        /\ IF Live(record) /\ OwnState(r, record) /\ link.store = req[r].store
           THEN req' = [req EXCEPT ![r].stage = "exchange", ![r].email = record.email,
                          ![r].purpose = IF link.chain THEN "chain" ELSE "connect",
                          ![r].link = None]
           ELSE End(r)
        /\ UNCHANGED <<now, ring, token, state, session, history>>

\* Mutant: new tokens are encrypted with the last key of the list.
GrantUnderOldest(who, full) ==
    [owner |-> who, key |-> ring.oldest, v1 |-> FALSE, full |-> full,
     connectedAt |-> now, expiresAt |-> now + TokenTtl]

\* The token as saveToken keeps it, under the first key.
Grant(who, full) ==
    [owner |-> who, key |-> ring.newest, v1 |-> FALSE, full |-> full,
     connectedAt |-> now, expiresAt |-> now + TokenTtl]

\* Shopify's answer: "every store connection must be the same verified
\* Shopify email the person signed in with".  A failed exchange is Leave.
Exchange(r) ==
    /\ At(r, "exchange")
    /\ \E who \in People, full \in Granted :
         IF who = req[r].email
         THEN req' = [req EXCEPT ![r].stage = "save", ![r].grant = Grant(who, full)]
         ELSE End(r)
    /\ UNCHANGED <<now, ring, token, state, session, history>>

\* The end of a sign-in: the person Shopify verified is connected to the
\* store signed in through; a page sign-in goes on to a session.
SignedIn(r, e, s, purpose) ==
    /\ At(r, "idle")
    /\ \E full \in Granted :
         req' = [req EXCEPT ![r] = [Idle EXCEPT !.stage = "save", !.purpose = purpose,
                     !.email = e, !.store = s, !.grant = Grant(e, full)]]
    /\ UNCHANGED <<now, ring, token, state, session, history>>

\* Mutant: every connection but a page sign-in goes on to the next store.
AfterSaveScan(r) ==
    IF req[r].purpose \in {"stores", "reconnect"} THEN "open_session" ELSE "scan"

AfterSave(r) ==
    CASE req[r].purpose = "chain" -> "scan"
      [] req[r].purpose \in {"stores", "reconnect"} -> "open_session"
      [] OTHER -> "idle"

Save(r) ==
    LET e == req[r].email
        s == req[r].store
    IN  /\ At(r, "save")
        /\ token' = [token EXCEPT ![e][s] = req[r].grant]
        /\ madeAt' = [madeAt EXCEPT ![e][s] = req[r].grant.connectedAt]
        /\ linked' = IF req[r].purpose \in {"connect", "chain"}
                     THEN linked \cup {<<e, s>>} ELSE linked \ {<<e, s>>}
        /\ cut' = cut \ {<<e, s>>}
        /\ IF AfterSave(r) = "idle" THEN End(r)
           ELSE req' = [req EXCEPT ![r].stage = AfterSave(r), ![r].store = None,
                                   ![r].grant = None]
        /\ UNCHANGED <<now, ring, state, session, rotatedAt, opened, links>>

\* signedIn: the session, then for a reconnect link the chain.
OpenSession(r, x) ==
    LET e == req[r].email
    IN  /\ At(r, "open_session")
        /\ opened[x] = None
        /\ opened' = [opened EXCEPT ![x] = e]
        /\ session' = [session EXCEPT ![x] = [email |-> e, expiresAt |-> now + SessionTtl]]
        /\ IF req[r].purpose = "reconnect"
           THEN req' = [req EXCEPT ![r].stage = "scan", ![r].session = x]
           ELSE End(r)
        /\ UNCHANGED <<now, ring, token, state, rotatedAt, links, made>>

-----------------------------------------------------------------------------
(* nextUnconnected: reads the stores one after the other *)

\* Mutant: missing scopes are asked for however recent the connection is.
LacksScopesAlways(record) == ~record.full

LacksScopes(record) == ~record.full /\ record.connectedAt + Recent <= now

NeedsConnection(record) ==
    ~Kept(record) \/ record.expiresAt <= now \/ LacksScopes(record)

Scan(r) ==
    LET s == StoreOrder[req[r].upto + 1]
    IN  /\ At(r, "scan")
        /\ IF NeedsConnection(token[req[r].email][s])
           THEN req' = [req EXCEPT ![r].stage = "start", ![r].store = s, ![r].upto = 0]
           ELSE IF req[r].upto + 1 = Len(StoreOrder)
                THEN End(r)
                ELSE req' = [req EXCEPT ![r].upto = @ + 1]
        /\ UNCHANGED <<now, ring, token, state, session, history>>

-----------------------------------------------------------------------------
(* A tool call: accessFor reads the records, token decrypts the one in use *)

Load(r, e, s) ==
    /\ At(r, "idle")
    /\ Kept(token[e][s])
    /\ req' = [req EXCEPT ![r] = [Idle EXCEPT !.stage = "use", !.email = e, !.store = s,
                                              !.grant = token[e][s]]]
    /\ UNCHANGED <<now, ring, token, state, session, history>>

\* Mutant: every token in use is encrypted again.
OutdatedAlways(record) == record.key \in ring.oldest .. ring.newest

\* A v1 record is opened by trying each key, and its key id ("v1:<id>") is
\* never that of the first key.
Outdated(record) ==
    /\ record.key \in ring.oldest .. ring.newest
    /\ record.v1 \/ record.key # ring.newest

\* An expired connection is reported; one under a key that is gone reads as
\* not connected; one under an older key, or in the v1 format, is put back
\* under the first key.
Use(r) ==
    /\ At(r, "use")
    /\ IF Live(req[r].grant) /\ Outdated(req[r].grant)
       THEN GoTo(r, "reencrypt") ELSE End(r)
    /\ UNCHANGED <<now, ring, token, state, session, history>>

Reencrypt(r) ==
    /\ At(r, "reencrypt")
    /\ token' = [token EXCEPT ![req[r].email][req[r].store] =
                   [req[r].grant EXCEPT !.key = ring.newest, !.v1 = FALSE]]
    /\ End(r)
    /\ UNCHANGED <<now, ring, state, session, history>>

\* The request ends here: a check refused it, Shopify did not issue a token
\* for this person, a store call threw, or the process died.
Leave(r) ==
    /\ ~At(r, "idle")
    /\ End(r)
    /\ UNCHANGED <<now, ring, token, state, session, history>>

-----------------------------------------------------------------------------
Page(r) ==
    \/ \E x \in Sessions, s \in Stores :
         \/ \E p \in {"connect", "chain"} : Post(r, x, p, s, "start")
         \/ Post(r, x, "disconnect", s, "delete_token")
    \/ \E x \in Sessions : Post(r, x, "signout", None, "delete_session")
    \/ DeleteToken(r) \/ DeleteSession(r)
    \/ \E k \in Links : Start(r, k)

Callback(r) ==
    \/ \E k \in Links, x \in Sessions, s \in Stores : TakeState(r, k, x, s)
    \/ CheckSession(r) \/ Exchange(r) \/ Save(r) \/ Scan(r)

SignIn(r) ==
    \/ \E e \in People, s \in Stores, p \in {"app", "stores", "reconnect"} : SignedIn(r, e, s, p)
    \/ \E x \in Sessions : OpenSession(r, x)

Tool(r) ==
    \/ \E e \in People, s \in Stores : Load(r, e, s)
    \/ Use(r) \/ Reencrypt(r)

Next ==
    \/ Tick \/ AddKey \/ DropKey
    \/ \E r \in Requests : Page(r) \/ Callback(r) \/ SignIn(r) \/ Tool(r) \/ Leave(r)

Spec == Init /\ [][Next]_vars

-----------------------------------------------------------------------------
\* Every variable has its type (the records of the store kinds
\* "shopify_token", "shopify_state" and "session", the locals of a request).
TypeOK ==
    /\ now \in Nat
    /\ ring \in [oldest : 1 .. MaxKeys, newest : 1 .. MaxKeys]
    /\ token \in [People -> [Stores -> TokenRecords \cup {None}]]
    /\ state \in [Links -> Connecting \cup {None}]
    /\ session \in [Sessions -> [email : People, expiresAt : Nat] \cup {None}]
    /\ req \in [Requests -> Locals]
    /\ rotatedAt \in Nat
    /\ opened \in [Sessions -> People \cup {None}]
    /\ asked \in SUBSET Links
    /\ wanted \in SUBSET (People \X Stores)
    /\ linked \in SUBSET (People \X Stores)
    /\ redeemed \in [Links -> 0 .. 2]
    /\ madeAt \in [People -> [Stores -> Nat \cup {None}]]
    /\ cut \in SUBSET (People \X Stores)

\* "Nobody can act through someone else's staff account", and a forwarded
\* callback connects nobody: the token kept for a person is that person's own
\* at Shopify, and when a callback made the connection, that person began it,
\* whichever browser and session the callback lands in.  Two callbacks with one
\* state never both act on it (connectionCallback).
OnlyOwnConnections ==
    /\ linked \subseteq wanted
    /\ \A e \in People, s \in Stores : token[e][s] # None => token[e][s].owner = e
    /\ \A k \in Links : redeemed[k] <= 1

\* Prepend a key, wait a day, drop the old one: no connection that Shopify
\* still honours is ever left under a key the server no longer has, although
\* saves and re-encryptions go on throughout (saveToken, decryptStored).
LiveTokensReadable ==
    \A e \in People, s \in Stores :
        Live(token[e][s]) => token[e][s].key \in ring.oldest .. ring.newest

\* "Asking again would loop Reconnect all": a chain never goes back to a store
\* it connected within the last ten minutes, even when Shopify granted too
\* little, unless that store was disconnected meanwhile or a re-encryption put
\* back an older record of it (nextUnconnected, missingScopes).
ChainMovesOn ==
    [][\A r \in Requests :
         At(r, "scan") /\ req'[r].stage = "start" =>
             LET e == req[r].email
                 s == req'[r].store
             IN  \/ madeAt[e][s] = None \/ madeAt[e][s] + Recent <= now
                 \/ <<e, s>> \in cut
                 \/ token[e][s] # None /\ token[e][s].connectedAt < madeAt[e][s]]_vars

\* A disconnected store stays disconnected until it is connected again, but for
\* a record that a tool call found outdated: one from before the last rotation
\* of the keys, or one in the v1 format from before the upgrade.  A store that
\* was connected after those is never revived (the delete of action, against
\* the put of decryptStored and callbacks in flight).
RevivedOnlyIfOutdated ==
    \A e \in People, s \in Stores :
        <<e, s>> \in cut /\ token[e][s] # None =>
            /\ token[e][s].connectedAt <= rotatedAt
            /\ ring.newest > 1 \/ <<e, s>> \in Inherited

\* "Disconnect one store": a disconnected store stays disconnected until it
\* is connected again.
DisconnectSticks ==
    \A e \in People, s \in Stores : <<e, s>> \in cut => token[e][s] = None
=============================================================================
