--------------------------- MODULE ConnectionsProofs ---------------------------
(***************************************************************************)
(* Proofs about Connections, for every number of people, stores, sessions, *)
(* connection states and requests, every number of keys and every value of *)
(* the lifetimes.                                                          *)
(***************************************************************************)
EXTENDS Connections, TLAPS

\* A stored token, or one a request holds, was granted for a day, is under a
\* configured key while Shopify honours it, and under an older key or in the v1
\* format only when it is from before the last rotation.
Readable(t) ==
    /\ t.connectedAt <= now
    /\ t.expiresAt = t.connectedAt + TokenTtl
    /\ t.key <= ring.newest
    /\ t.v1 \/ t.key < ring.newest => t.connectedAt <= rotatedAt
    /\ t.expiresAt > now => t.key >= ring.oldest

OwnToken(e, s, t) == t.owner = e /\ Readable(t) /\ (t.v1 => <<e, s>> \in Inherited)

\* A record that a re-encryption may put back.
Old(e, s, t) ==
    t.connectedAt <= rotatedAt /\ (ring.newest > 1 \/ <<e, s>> \in Inherited)

KeysOK == ring.oldest <= ring.newest /\ rotatedAt <= now

TokensOK == \A e \in People, s \in Stores : token[e][s] # None => OwnToken(e, s, token[e][s])

\* A connection state is asked for once, kept until a callback takes it, and
\* speaks of a connection that its person began.
StatesOK ==
    \A k \in Links :
        /\ state[k] # None => /\ k \in asked /\ redeemed[k] = 0
                              /\ <<state[k].email, state[k].store>> \in wanted
        /\ redeemed[k] # 0 => redeemed[k] = 1 /\ k \in asked

\* A connection that was made and not cut since is kept; one that was cut is
\* gone, or a re-encryption put an old record of it back.
MadeOK ==
    \A e \in People, s \in Stores :
        /\ <<e, s>> \in cut /\ token[e][s] # None => Old(e, s, token[e][s])
        /\ madeAt[e][s] # None /\ <<e, s>> \notin cut => token[e][s] # None

StoresOK == KeysOK /\ TokensOK /\ StatesOK /\ MadeOK /\ linked \subseteq wanted

\* Who and what a request at a stage is about.
Addressed(e) ==
    /\ e.stage \notin {"idle", "callback_session"} => e.email \in People
    /\ e.stage \in {"start", "delete_token", "callback_session", "exchange", "save", "use",
                    "reencrypt"} => e.store \in Stores
    /\ e.stage \in {"start", "delete_session", "callback_session", "exchange", "scan"}
         => e.session \in Sessions
    /\ e.stage \in {"callback_session", "exchange", "save", "open_session", "scan"}
         => e.upto < Len(StoreOrder)

\* A callback connects what its person began.
OnCallback(e) ==
    /\ e.stage = "callback_session" =>
         e.link \in Connecting /\ <<e.link.email, e.link.store>> \in wanted
    /\ e.stage = "exchange" => e.purpose \in {"connect", "chain"}
    /\ e.stage \in {"exchange", "save"} /\ e.purpose \in {"connect", "chain"} =>
         e.session \in Sessions /\ <<e.email, e.store>> \in wanted

\* The token a request is about to save, use or put back.
OnToken(e) ==
    /\ e.stage \in {"save", "use", "reencrypt"} =>
         e.grant \in TokenRecords /\ OwnToken(e.email, e.store, e.grant)
    /\ e.stage = "reencrypt" => Old(e.email, e.store, e.grant)

RequestOK(q) == Addressed(req[q]) /\ OnCallback(req[q]) /\ OnToken(req[q])

IInv == TypeOK /\ StoresOK /\ \A q \in Requests : RequestOK(q)

-----------------------------------------------------------------------------
LEMMA IdleOK == Idle \in Locals /\ Idle.stage = "idle"
  BY DEF Idle, Locals, Stages, Purposes

\* A request that is not there relies on nothing.
LEMMA IdleRequestOK ==
    ASSUME NEW q, req[q] = Idle
    PROVE  RequestOK(q)
  BY IdleOK DEF RequestOK, Addressed, OnCallback, OnToken

LEMMA InitInv == Init => IInv
  <1> SUFFICES ASSUME Init PROVE IInv
    OBVIOUS
  <1>a. 1 \in 1 .. MaxKeys /\ TokenTtl \in Nat
    BY ConnectionsAssumption
  <1>b. ASSUME NEW t \in V1Records
        PROVE  t \in TokenRecords /\ t.key = 1 /\ t.connectedAt = 0 /\ t.expiresAt = TokenTtl
    <2>1. PICK e \in People, full \in Granted :
            t = [owner |-> e, key |-> 1, v1 |-> TRUE, full |-> full,
                 connectedAt |-> 0, expiresAt |-> TokenTtl]
      BY DEF V1Records
    <2>2. full \in BOOLEAN
      BY ConnectionsAssumption
    <2> QED BY <1>a, <2>1, <2>2 DEF TokenRecords
  <1>1. TypeOK
    <2>1. token \in [People -> [Stores -> TokenRecords \cup {None}]]
      BY <1>b DEF Init
    <2> QED BY <1>a, <2>1, IdleOK DEF Init, TypeOK
  <1>2. StoresOK
    <2>1. ASSUME NEW e \in People, NEW s \in Stores, token[e][s] # None
          PROVE  OwnToken(e, s, token[e][s])
      <3> DEFINE t == token[e][s]
      <3>1. t \in V1Records /\ <<e, s>> \in Inherited /\ t.owner = e
        BY <2>1 DEF Init
      <3>2. now = 0 /\ ring.oldest = 1 /\ ring.newest = 1 /\ rotatedAt = 0
        BY DEF Init
      <3> HIDE DEF t
      <3>3. OwnToken(e, s, t)
        BY <1>a, <1>b, <3>1, <3>2 DEF OwnToken, Readable
      <3> QED BY <3>3 DEF t
    <2>2. TokensOK
      BY <2>1 DEF TokensOK
    <2>3. KeysOK /\ StatesOK /\ MadeOK /\ linked \subseteq wanted
      BY DEF Init, KeysOK, StatesOK, MadeOK
    <2> QED BY <2>2, <2>3 DEF StoresOK
  <1>3. \A q \in Requests : RequestOK(q)
    BY IdleRequestOK DEF Init
  <1> QED BY <1>1, <1>2, <1>3 DEF IInv

OthersKept(r) == \A q \in Requests \ {r} : req'[q] = req[q]

\* A request goes on with the locals e.
LEMMA Assigned ==
    ASSUME TypeOK, NEW r \in Requests, NEW e \in Locals, req' = [req EXCEPT ![r] = e]
    PROVE  req' \in [Requests -> Locals] /\ OthersKept(r) /\ req'[r] = e
  BY DEF TypeOK, OthersKept

\* What one request relies on, another changes only for the better.
Kindly(r) ==
    OthersKept(r) /\ UNCHANGED <<now, ring, rotatedAt>> /\ wanted \subseteq wanted'

LEMMA OthersStay ==
    ASSUME IInv, NEW r \in Requests, Kindly(r)
    PROVE  \A q \in Requests \ {r} : RequestOK(q)'
  BY DEF IInv, Kindly, OthersKept, RequestOK, Addressed, OnCallback, OnToken, OwnToken, Readable, Old

LEMMA Ended ==
    ASSUME IInv, NEW r \in Requests, End(r)
    PROVE  /\ req' \in [Requests -> Locals] /\ OthersKept(r) /\ RequestOK(r)'
           /\ req'[r].stage = "idle"
  <1>1. req' \in [Requests -> Locals] /\ OthersKept(r) /\ req'[r] = Idle
    BY IdleOK, Assigned DEF End, IInv
  <1> QED BY <1>1, IdleOK DEF RequestOK, Addressed, OnCallback, OnToken

LEMMA TokensStay ==
    ASSUME TokensOK, UNCHANGED <<now, ring, rotatedAt, token>>
    PROVE  TokensOK'
  BY DEF TokensOK, OwnToken, Readable, Old

LEMMA MadeStays ==
    ASSUME MadeOK, UNCHANGED <<ring, rotatedAt, token, made>>
    PROVE  MadeOK'
  BY DEF MadeOK, Old, made

\* A step that only moves a request on.
LEMMA QuietStep ==
    ASSUME IInv, NEW r \in Requests, OthersKept(r), req' \in [Requests -> Locals],
           UNCHANGED <<now, ring, token, state, session, history>>, RequestOK(r)'
    PROVE  IInv'
  <1> USE DEF IInv, StoresOK, history, links, made
  <1>1. TypeOK'
    BY DEF TypeOK
  <1>2. KeysOK' /\ StatesOK' /\ linked' \subseteq wanted'
    BY DEF KeysOK, StatesOK
  <1>3. TokensOK' /\ MadeOK'
    BY TokensStay, MadeStays
  <1>4. \A q \in Requests : RequestOK(q)'
    BY OthersStay DEF Kindly
  <1> QED BY <1>1, <1>2, <1>3, <1>4

-----------------------------------------------------------------------------
(* One lemma per kind of step: those that only move their request on *)

LEMMA PostStep ==
    ASSUME IInv, NEW r \in Requests, NEW x \in Sessions, NEW purpose \in Purposes,
           NEW s \in Stores \cup {None}, NEW stage \in {"start", "delete_token", "delete_session"},
           stage # "delete_session" => s \in Stores,
           Post(r, x, purpose, s, stage)
    PROVE  IInv'
  <1> DEFINE e == [Idle EXCEPT !.stage = stage, !.purpose = purpose, !.session = x,
                               !.email = session[x].email, !.store = s]
  <1>1. session[x].email \in People
    BY DEF IInv, TypeOK, Post, Live
  <1>2. /\ e \in Locals /\ e.stage = stage /\ e.email \in People /\ e.session = x /\ e.store = s
    <2>1. stage \in Stages
      BY DEF Stages
    <2> QED BY <1>1, <2>1, IdleOK DEF Idle, Locals
  <1>3. req' = [req EXCEPT ![r] = e] /\ UNCHANGED <<now, ring, token, state, session, history>>
    BY DEF Post
  <1> HIDE DEF e
  <1>4. req' \in [Requests -> Locals] /\ OthersKept(r) /\ req'[r] = e
    BY <1>2, <1>3, Assigned DEF IInv
  <1>5. RequestOK(r)'
    BY <1>2, <1>4 DEF RequestOK, Addressed, OnCallback, OnToken
  <1> QED BY <1>3, <1>4, <1>5, QuietStep

LEMMA CheckSessionStep ==
    ASSUME IInv, NEW r \in Requests, CheckSession(r)
    PROVE  IInv'
  <1> DEFINE record == session[req[r].session]
             link   == req[r].link
  <1>1. /\ req[r] \in Locals /\ req[r].session \in Sessions /\ req[r].store \in Stores
        /\ link \in Connecting /\ <<link.email, link.store>> \in wanted
        /\ req[r].upto < Len(StoreOrder)
    BY DEF IInv, TypeOK, CheckSession, At, RequestOK, Addressed, OnCallback
  <1>2. UNCHANGED <<now, ring, token, state, session, history>>
    BY DEF CheckSession
  <1>3. CASE End(r)
    BY <1>2, <1>3, Ended, QuietStep
  <1>4. CASE /\ Live(record) /\ OwnState(r, record) /\ link.store = req[r].store
             /\ req' = [req EXCEPT ![r].stage = "exchange", ![r].email = record.email,
                          ![r].purpose = IF link.chain THEN "chain" ELSE "connect",
                          ![r].link = None]
    <2> DEFINE p == IF link.chain THEN "chain" ELSE "connect"
               e == [req[r] EXCEPT !.stage = "exchange", !.email = record.email,
                                   !.purpose = p, !.link = None]
    <2>1. record.email \in People /\ record.email = link.email /\ p \in {"connect", "chain"}
      BY <1>1, <1>4 DEF IInv, TypeOK, Live, OwnState
    <2> HIDE DEF p
    <2>2. /\ e \in Locals /\ e.stage = "exchange" /\ e.email = link.email /\ e.email \in People
          /\ e.store = req[r].store /\ e.session = req[r].session /\ e.purpose = p
          /\ e.upto = req[r].upto
      BY <1>1, <2>1 DEF Locals, Stages, Purposes
    <2>3. req' = [req EXCEPT ![r] = e]
      BY <1>4 DEF IInv, TypeOK, Locals, p
    <2> HIDE DEF e
    <2>4. req' \in [Requests -> Locals] /\ OthersKept(r) /\ req'[r] = e
      BY <2>2, <2>3, Assigned DEF IInv
    <2>5. RequestOK(r)'
      <3>1. <<e.email, e.store>> \in wanted'
        BY <1>1, <1>2, <1>4, <2>2 DEF history, links
      <3> QED BY <1>1, <2>1, <2>2, <2>4, <3>1 DEF RequestOK, Addressed, OnCallback, OnToken
    <2> QED BY <1>2, <2>4, <2>5, QuietStep
  <1> QED BY <1>3, <1>4 DEF CheckSession

\* What Grant issues is this person's own, and readable.
LEMMA FreshGrant ==
    ASSUME IInv, NEW who \in People, NEW s \in Stores, NEW full \in Granted
    PROVE  Grant(who, full) \in TokenRecords /\ OwnToken(who, s, Grant(who, full))
  <1>1. /\ now \in Nat /\ TokenTtl \in Nat /\ full \in BOOLEAN
        /\ ring.newest \in 1 .. MaxKeys /\ ring.oldest <= ring.newest
    BY ConnectionsAssumption DEF IInv, TypeOK, StoresOK, KeysOK
  <1> QED BY <1>1, ConnectionsAssumption DEF Grant, TokenRecords, OwnToken, Readable, Old

LEMMA ExchangeStep ==
    ASSUME IInv, NEW r \in Requests, Exchange(r)
    PROVE  IInv'
  <1>1. /\ req[r] \in Locals /\ req[r].email \in People /\ req[r].session \in Sessions
        /\ req[r].store \in Stores /\ req[r].purpose \in {"connect", "chain"}
        /\ <<req[r].email, req[r].store>> \in wanted /\ req[r].upto < Len(StoreOrder)
    BY DEF IInv, TypeOK, Exchange, At, RequestOK, Addressed, OnCallback
  <1>2. UNCHANGED <<now, ring, token, state, session, history>>
    BY DEF Exchange
  <1>3. CASE End(r)
    BY <1>2, <1>3, Ended, QuietStep
  <1>4. ASSUME NEW full \in Granted,
               req' = [req EXCEPT ![r].stage = "save", ![r].grant = Grant(req[r].email, full)]
        PROVE  IInv'
    <2> DEFINE t == Grant(req[r].email, full)
               e == [req[r] EXCEPT !.stage = "save", !.grant = t]
    <2>1. t \in TokenRecords /\ OwnToken(req[r].email, req[r].store, t)
      BY <1>1, FreshGrant
    <2> HIDE DEF t
    <2>2. /\ e \in Locals /\ e.stage = "save" /\ e.email = req[r].email /\ e.grant = t
          /\ e.store = req[r].store /\ e.session = req[r].session /\ e.purpose = req[r].purpose
          /\ e.upto = req[r].upto
      BY <1>1, <2>1 DEF Locals, Stages
    <2>3. req' = [req EXCEPT ![r] = e]
      BY <1>4 DEF IInv, TypeOK, Locals, t
    <2> HIDE DEF e
    <2>4. req' \in [Requests -> Locals] /\ OthersKept(r) /\ req'[r] = e
      BY <2>2, <2>3, Assigned DEF IInv
    <2>5. RequestOK(r)'
      <3>1. <<e.email, e.store>> \in wanted' /\ OwnToken(req[r].email, req[r].store, req[r].grant)'
        BY <1>1, <1>2, <2>1, <2>2, <2>4 DEF history, links, OwnToken, Readable, Old
      <3> QED BY <1>1, <2>1, <2>2, <2>4, <3>1 DEF RequestOK, Addressed, OnCallback, OnToken
    <2> QED BY <1>2, <2>4, <2>5, QuietStep
  <1> QED BY <1>3, <1>4 DEF Exchange

LEMMA SignedInStep ==
    ASSUME IInv, NEW r \in Requests, NEW e \in People, NEW s \in Stores,
           NEW purpose \in {"app", "stores", "reconnect"}, SignedIn(r, e, s, purpose)
    PROVE  IInv'
  <1>1. UNCHANGED <<now, ring, token, state, session, history>>
    BY DEF SignedIn
  <1>2. PICK full \in Granted :
          req' = [req EXCEPT ![r] = [Idle EXCEPT !.stage = "save", !.purpose = purpose,
                     !.email = e, !.store = s, !.grant = Grant(e, full)]]
    BY DEF SignedIn
  <1> DEFINE t == Grant(e, full)
             f == [Idle EXCEPT !.stage = "save", !.purpose = purpose, !.email = e,
                               !.store = s, !.grant = t]
  <1>3. t \in TokenRecords /\ OwnToken(e, s, t)
    BY FreshGrant
  <1> HIDE DEF t
  <1>4. 0 < Len(StoreOrder)
    BY ConnectionsAssumption DEF Stores
  <1>5. /\ f \in Locals /\ f.stage = "save" /\ f.email = e /\ f.store = s /\ f.grant = t
        /\ f.purpose = purpose /\ f.upto < Len(StoreOrder)
    BY <1>3, <1>4, IdleOK DEF Idle, Locals, Stages, Purposes
  <1>6. req' = [req EXCEPT ![r] = f]
    BY <1>2 DEF t
  <1> HIDE DEF f
  <1>7. req' \in [Requests -> Locals] /\ OthersKept(r) /\ req'[r] = f
    BY <1>5, <1>6, Assigned DEF IInv
  <1>8. RequestOK(r)'
    <2>1. OwnToken(req[r].email, req[r].store, req[r].grant)'
      BY <1>1, <1>3, <1>5, <1>7 DEF history, OwnToken, Readable, Old
    <2> QED BY <1>3, <1>5, <1>7, <2>1 DEF RequestOK, Addressed, OnCallback, OnToken
  <1> QED BY <1>1, <1>7, <1>8, QuietStep

LEMMA ScanStep ==
    ASSUME IInv, NEW r \in Requests, Scan(r)
    PROVE  IInv'
  <1> DEFINE s == StoreOrder[req[r].upto + 1]
  <1>1. /\ req[r] \in Locals /\ req[r].stage = "scan" /\ req[r].email \in People
        /\ req[r].session \in Sessions /\ req[r].upto < Len(StoreOrder)
    BY DEF IInv, TypeOK, Scan, At, RequestOK, Addressed
  <1>2. s \in Stores /\ req[r].upto + 1 \in 0 .. Len(StoreOrder) /\ 0 \in 0 .. Len(StoreOrder)
    <2>1. req[r].upto \in Nat /\ Len(StoreOrder) \in Nat
      BY <1>1, ConnectionsAssumption DEF Locals
    <2>2. req[r].upto + 1 \in 1 .. Len(StoreOrder)
      BY <1>1, <2>1
    <2> QED BY <2>1, <2>2 DEF Stores
  <1>3. UNCHANGED <<now, ring, token, state, session, history>>
    BY DEF Scan
  <1>4. CASE End(r)
    BY <1>3, <1>4, Ended, QuietStep
  <1>5. CASE req' = [req EXCEPT ![r].stage = "start", ![r].store = s, ![r].upto = 0]
    <2> HIDE DEF s
    <2> DEFINE e == [req[r] EXCEPT !.stage = "start", !.store = s, !.upto = 0]
    <2>1. /\ e \in Locals /\ e.stage = "start" /\ e.email = req[r].email /\ e.store = s
          /\ e.session = req[r].session
      BY <1>1, <1>2 DEF Locals, Stages
    <2>2. req' = [req EXCEPT ![r] = e]
      BY <1>5 DEF IInv, TypeOK, Locals
    <2> HIDE DEF e
    <2>3. req' \in [Requests -> Locals] /\ OthersKept(r) /\ req'[r] = e
      BY <2>1, <2>2, Assigned DEF IInv
    <2>4. RequestOK(r)'
      BY <1>1, <1>2, <2>1, <2>3 DEF RequestOK, Addressed, OnCallback, OnToken
    <2> QED BY <1>3, <2>3, <2>4, QuietStep
  <1>6. CASE req[r].upto + 1 # Len(StoreOrder) /\ req' = [req EXCEPT ![r].upto = @ + 1]
    <2> DEFINE e == [req[r] EXCEPT !.upto = req[r].upto + 1]
    <2>1. /\ e \in Locals /\ e.stage = "scan" /\ e.email = req[r].email
          /\ e.session = req[r].session /\ e.upto = req[r].upto + 1
      BY <1>1, <1>2 DEF Locals
    <2>2. req' = [req EXCEPT ![r] = e]
      BY <1>6 DEF IInv, TypeOK, Locals
    <2> HIDE DEF e
    <2>3. req' \in [Requests -> Locals] /\ OthersKept(r) /\ req'[r] = e
      BY <2>1, <2>2, Assigned DEF IInv
    <2>4. e.upto < Len(StoreOrder)
      BY <1>2, <1>6, <2>1
    <2>5. RequestOK(r)'
      BY <1>1, <2>1, <2>3, <2>4 DEF RequestOK, Addressed, OnCallback, OnToken
    <2> QED BY <1>3, <2>3, <2>5, QuietStep
  <1> QED BY <1>4, <1>5, <1>6 DEF Scan

LEMMA LoadStep ==
    ASSUME IInv, NEW r \in Requests, NEW e \in People, NEW s \in Stores, Load(r, e, s)
    PROVE  IInv'
  <1> DEFINE t == token[e][s]
             f == [Idle EXCEPT !.stage = "use", !.email = e, !.store = s, !.grant = t]
  <1>1. t \in TokenRecords /\ OwnToken(e, s, t)
    BY DEF IInv, TypeOK, StoresOK, TokensOK, Load, Kept
  <1>2. req' = [req EXCEPT ![r] = f] /\ UNCHANGED <<now, ring, token, state, session, history>>
    BY DEF Load
  <1> HIDE DEF t
  <1>3. f \in Locals /\ f.stage = "use" /\ f.email = e /\ f.store = s /\ f.grant = t
    BY <1>1, IdleOK DEF Idle, Locals, Stages
  <1> HIDE DEF f
  <1>4. req' \in [Requests -> Locals] /\ OthersKept(r) /\ req'[r] = f
    BY <1>2, <1>3, Assigned DEF IInv
  <1>5. RequestOK(r)'
    <2>1. OwnToken(req[r].email, req[r].store, req[r].grant)'
      BY <1>1, <1>2, <1>3, <1>4 DEF history, OwnToken, Readable, Old
    <2> QED BY <1>1, <1>3, <1>4, <2>1 DEF RequestOK, Addressed, OnCallback, OnToken
  <1> QED BY <1>2, <1>4, <1>5, QuietStep

LEMMA UseStep ==
    ASSUME IInv, NEW r \in Requests, Use(r)
    PROVE  IInv'
  <1>1. /\ req[r] \in Locals /\ req[r].email \in People /\ req[r].store \in Stores
        /\ req[r].grant \in TokenRecords /\ OwnToken(req[r].email, req[r].store, req[r].grant)
    BY DEF IInv, TypeOK, Use, At, RequestOK, Addressed, OnToken
  <1>2. UNCHANGED <<now, ring, token, state, session, history>>
    BY DEF Use
  <1>3. CASE End(r)
    BY <1>2, <1>3, Ended, QuietStep
  <1>4. CASE Outdated(req[r].grant) /\ GoTo(r, "reencrypt")
    <2> DEFINE e == [req[r] EXCEPT !.stage = "reencrypt"]
    <2>1. Old(req[r].email, req[r].store, req[r].grant)
      BY <1>1, <1>4, ConnectionsAssumption
         DEF Outdated, Old, OwnToken, Readable, IInv, TypeOK, TokenRecords
    <2>2. /\ e \in Locals /\ e.stage = "reencrypt" /\ e.email = req[r].email
          /\ e.store = req[r].store /\ e.grant = req[r].grant
      BY <1>1 DEF Locals, Stages
    <2>3. req' = [req EXCEPT ![r] = e]
      BY <1>4 DEF GoTo, IInv, TypeOK, Locals
    <2> HIDE DEF e
    <2>4. req' \in [Requests -> Locals] /\ OthersKept(r) /\ req'[r] = e
      BY <2>2, <2>3, Assigned DEF IInv
    <2>5. RequestOK(r)'
      <3>1. OwnToken(req[r].email, req[r].store, req[r].grant)' 
            /\ Old(req[r].email, req[r].store, req[r].grant)'
        BY <1>1, <1>2, <2>1, <2>2, <2>4 DEF history, OwnToken, Readable, Old
      <3> QED BY <1>1, <2>2, <2>4, <3>1 DEF RequestOK, Addressed, OnCallback, OnToken
    <2> QED BY <1>2, <2>4, <2>5, QuietStep
  <1> QED BY <1>3, <1>4 DEF Use

LEMMA LeaveStep ==
    ASSUME IInv, NEW r \in Requests, Leave(r)
    PROVE  IInv'
  BY Ended, QuietStep DEF Leave

-----------------------------------------------------------------------------
(* The clock and the keys *)

LEMMA TickStep == ASSUME IInv, Tick PROVE IInv'
  <1> USE DEF Tick, IInv, StoresOK, history, links, made
  <1>a. /\ now' = now + 1 /\ now \in Nat /\ TokenTtl \in Nat /\ rotatedAt \in Nat
        /\ UNCHANGED <<ring, token, state, session, req, history>>
    BY ConnectionsAssumption DEF TypeOK
  <1>b. ASSUME NEW t \in TokenRecords, Readable(t)
        PROVE  t.connectedAt <= now' /\ (t.expiresAt > now' => t.key >= ring.oldest)
    BY <1>a, <1>b DEF Readable, TokenRecords
  <1>1. TypeOK'
    BY <1>a DEF TypeOK
  <1>2. KeysOK' /\ StatesOK' /\ MadeOK' /\ linked' \subseteq wanted'
    <2>1. KeysOK'
      BY <1>a DEF KeysOK
    <2> QED BY <1>a, <2>1, MadeStays DEF StatesOK
  <1>3. TokensOK'
    BY <1>a, <1>b DEF TokensOK, OwnToken, Readable, Old, TypeOK
  <1>4. \A q \in Requests : RequestOK(q)'
    BY <1>a, <1>b DEF RequestOK, Addressed, OnCallback, OnToken, OwnToken, Readable, Old
  <1> QED BY <1>1, <1>2, <1>3, <1>4

\* A restart drops the requests: nobody holds what the old keys made.
LEMMA RestartOK ==
    ASSUME req' = [q \in Requests |-> Idle]
    PROVE  req' \in [Requests -> Locals] /\ \A q \in Requests : RequestOK(q)'
  BY IdleOK DEF RequestOK, Addressed, OnCallback, OnToken

\* All that a day bounds outlives the rotation by a day at most.
LEMMA AddKeyStep == ASSUME IInv, AddKey PROVE IInv'
  <1> USE DEF IInv, StoresOK, links, made
  <1>a. /\ ring.newest \in 1 .. MaxKeys /\ ring.oldest \in 1 .. MaxKeys /\ ring.newest < MaxKeys
        /\ ring' = [ring EXCEPT !.newest = @ + 1] /\ ring'.newest = ring.newest + 1
        /\ ring'.oldest = ring.oldest /\ rotatedAt' = now /\ now \in Nat
        /\ UNCHANGED <<now, token, state, session, opened, links, made>>
    BY DEF AddKey, TypeOK
  <1>m. /\ ring.newest \in Nat /\ rotatedAt <= now /\ rotatedAt \in Nat
        /\ \A e \in People, s \in Stores : token[e][s] # None => token[e][s].connectedAt \in Nat
    BY ConnectionsAssumption DEF TypeOK, KeysOK, TokenRecords
  <1>1. TypeOK'
    <2>1. ring' \in [oldest : 1 .. MaxKeys, newest : 1 .. MaxKeys]
      <3>1. ring.newest + 1 \in 1 .. MaxKeys
        BY <1>a, ConnectionsAssumption
      <3> QED BY <1>a, <3>1 DEF TypeOK
    <2>2. req' \in [Requests -> Locals]
      BY RestartOK DEF AddKey
    <2> QED BY <1>a, <2>1, <2>2 DEF TypeOK
  <1>2. KeysOK' /\ StatesOK' /\ linked' \subseteq wanted'
    BY <1>a, ConnectionsAssumption DEF KeysOK, StatesOK
  <1>3. TokensOK'
    <2>1. SUFFICES ASSUME NEW e \in People, NEW s \in Stores, token[e][s] # None
                   PROVE  token[e][s].owner = e /\ Readable(token[e][s])'
      BY <1>a DEF TokensOK, OwnToken
    <2>2. token[e][s] \in TokenRecords /\ OwnToken(e, s, token[e][s])
      BY <2>1 DEF TypeOK, TokensOK
    <2> QED BY <1>a, <2>2, ConnectionsAssumption DEF OwnToken, Readable, Old, TokenRecords
  <1>4. MadeOK'
    <2>1. ASSUME NEW e \in People, NEW s \in Stores, token[e][s] # None, Old(e, s, token[e][s])
          PROVE  Old(e, s, token[e][s])'
      BY <1>a, <2>1, <1>m DEF Old
    <2> QED BY <1>a, <2>1 DEF MadeOK
  <1>5. \A q \in Requests : RequestOK(q)'
    BY RestartOK DEF AddKey
  <1> QED BY <1>1, <1>2, <1>3, <1>4, <1>5

LEMMA DropKeyStep == ASSUME IInv, DropKey PROVE IInv'
  <1> USE DEF IInv, StoresOK, history, links, made
  <1>a. /\ ring.newest \in 1 .. MaxKeys /\ ring.oldest \in 1 .. MaxKeys
        /\ ring.oldest < ring.newest /\ now >= rotatedAt + TokenTtl
        /\ ring' = [ring EXCEPT !.oldest = ring.newest] /\ ring'.newest = ring.newest
        /\ ring'.oldest = ring.newest /\ now \in Nat /\ rotatedAt \in Nat
        /\ UNCHANGED <<now, token, state, session, history>>
    BY DEF DropKey, TypeOK
  <1>m. rotatedAt' = rotatedAt
    BY <1>a
  <1>1. TypeOK'
    BY <1>a, RestartOK DEF TypeOK, DropKey
  <1>2. KeysOK' /\ StatesOK' /\ linked' \subseteq wanted'
    BY <1>a, ConnectionsAssumption DEF KeysOK, StatesOK
  <1>3. TokensOK'
    <2>1. SUFFICES ASSUME NEW e \in People, NEW s \in Stores, token[e][s] # None
                   PROVE  token[e][s].owner = e /\ Readable(token[e][s])'
      BY <1>a DEF TokensOK, OwnToken
    <2>2. token[e][s] \in TokenRecords /\ OwnToken(e, s, token[e][s])
      BY <2>1 DEF TypeOK, TokensOK
    <2> DEFINE t == token[e][s]
    <2>3. /\ t.owner = e /\ t.key \in Nat /\ t.expiresAt \in Nat /\ t.connectedAt \in Nat
          /\ TokenTtl \in Nat /\ Readable(t)
      BY <2>2, ConnectionsAssumption DEF OwnToken, TokenRecords
    <2> HIDE DEF t
    <2>4. t.expiresAt > now => ring.newest <= t.key
      BY <1>a, <2>3, ConnectionsAssumption DEF Readable
    <2> QED BY <1>a, <2>3, <2>4 DEF Readable, t
  <1>4. MadeOK'
    <2>1. ASSUME NEW e \in People, NEW s \in Stores, token[e][s] # None, Old(e, s, token[e][s])
          PROVE  Old(e, s, token[e][s])'
      BY <1>a, <2>1, <1>m DEF Old
    <2> QED BY <1>a, <2>1 DEF MadeOK
  <1>5. \A q \in Requests : RequestOK(q)'
    BY RestartOK DEF DropKey
  <1> QED BY <1>1, <1>2, <1>3, <1>4, <1>5

-----------------------------------------------------------------------------
(* The steps that change the stores *)

LEMMA DeleteTokenStep ==
    ASSUME IInv, NEW r \in Requests, DeleteToken(r)
    PROVE  IInv'
  <1> DEFINE e == req[r].email
             s == req[r].store
  <1> USE DEF IInv, StoresOK, links
  <1>a. e \in People /\ s \in Stores
    BY DEF DeleteToken, At, RequestOK, Addressed
  <1>b. /\ token' = [token EXCEPT ![e][s] = None] /\ cut' = cut \cup {<<e, s>>}
        /\ UNCHANGED <<now, ring, state, session, rotatedAt, opened, links, linked, madeAt>>
    BY DEF DeleteToken
  <1>c. req' \in [Requests -> Locals] /\ OthersKept(r) /\ RequestOK(r)'
    BY Ended DEF DeleteToken
  <1> HIDE DEF e, s
  <1>d. \A f \in People, u \in Stores :
          token'[f][u] = IF f = e /\ u = s THEN None ELSE token[f][u]
    BY <1>a, <1>b DEF TypeOK
  <1>1. TypeOK'
    <2>1. token' \in [People -> [Stores -> TokenRecords \cup {None}]]
      BY <1>a, <1>b DEF TypeOK
    <2>2. cut' \in SUBSET (People \X Stores)
      BY <1>a, <1>b DEF TypeOK
    <2> QED BY <1>b, <1>c, <2>1, <2>2 DEF TypeOK
  <1>2. KeysOK' /\ StatesOK' /\ linked' \subseteq wanted'
    BY <1>b DEF KeysOK, StatesOK
  <1>3. TokensOK'
    BY <1>a, <1>b, <1>d DEF TokensOK, OwnToken, Readable, Old
  <1>4. MadeOK'
    <2>1. SUFFICES ASSUME NEW f \in People, NEW u \in Stores
                   PROVE  /\ <<f, u>> \in cut' /\ token'[f][u] # None =>
                                Old(f, u, token'[f][u])
                          /\ madeAt[f][u] # None /\ <<f, u>> \notin cut' => token'[f][u] # None
      BY <1>b DEF MadeOK, Old
    <2>2. CASE f = e /\ u = s
      BY <1>b, <1>d, <2>2
    <2>3. CASE ~(f = e /\ u = s)
      <3>1. token'[f][u] = token[f][u] /\ (<<f, u>> \in cut' <=> <<f, u>> \in cut)
        BY <1>b, <1>d, <2>3
      <3> QED BY <1>b, <2>1, <3>1 DEF MadeOK
    <2> QED BY <2>2, <2>3
  <1>5. \A q \in Requests : RequestOK(q)'
    BY <1>b, <1>c, OthersStay DEF Kindly
  <1> QED BY <1>1, <1>2, <1>3, <1>4, <1>5

LEMMA DeleteSessionStep ==
    ASSUME IInv, NEW r \in Requests, DeleteSession(r)
    PROVE  IInv'
  <1> USE DEF IInv, StoresOK, history, links, made
  <1>b. /\ session' = [session EXCEPT ![req[r].session] = None]
        /\ UNCHANGED <<now, ring, token, state, history>>
    BY DEF DeleteSession
  <1>c. req' \in [Requests -> Locals] /\ OthersKept(r) /\ RequestOK(r)'
    BY Ended DEF DeleteSession
  <1>1. TypeOK'
    BY <1>b, <1>c DEF TypeOK
  <1>2. KeysOK' /\ StatesOK' /\ linked' \subseteq wanted'
    BY <1>b DEF KeysOK, StatesOK
  <1>3. TokensOK' /\ MadeOK'
    BY <1>b, TokensStay, MadeStays
  <1>4. \A q \in Requests : RequestOK(q)'
    BY <1>b, <1>c, OthersStay DEF Kindly
  <1> QED BY <1>1, <1>2, <1>3, <1>4

LEMMA StartStep ==
    ASSUME IInv, NEW r \in Requests, NEW k \in Links, Start(r, k)
    PROVE  IInv'
  <1> USE DEF IInv, StoresOK, made
  <1> DEFINE e == req[r].email
             s == req[r].store
             b == req[r].purpose \in {"chain", "reconnect"}
             record == [email |-> e, session |-> req[r].session, store |-> s,
                        chain |-> b, expiresAt |-> now + StateTtl]
  <1>a. /\ e \in People /\ s \in Stores /\ req[r].session \in Sessions /\ b \in BOOLEAN
        /\ now \in Nat /\ StateTtl \in Nat
    <2>1. e \in People /\ s \in Stores /\ req[r].session \in Sessions
      BY DEF Start, At, RequestOK, Addressed
    <2>2. now \in Nat /\ StateTtl \in Nat
      BY ConnectionsAssumption DEF TypeOK
    <2> QED BY <2>1, <2>2
  <1>b. /\ k \notin asked /\ asked' = asked \cup {k} /\ wanted' = wanted \cup {<<e, s>>}
        /\ state' = [state EXCEPT ![k] = record]
        /\ UNCHANGED <<now, ring, token, session, rotatedAt, opened, redeemed, made>>
    BY DEF Start
  <1>c. req' \in [Requests -> Locals] /\ OthersKept(r) /\ RequestOK(r)'
    BY Ended DEF Start
  <1> HIDE DEF b
  <1>d. record \in Connecting /\ record.email = e /\ record.store = s
    BY <1>a DEF Connecting
  <1> HIDE DEF e, s, record
  <1>1. TypeOK'
    <2>1. state' \in [Links -> Connecting \cup {None}]
      BY <1>b, <1>d DEF TypeOK
    <2>2. wanted' \in SUBSET (People \X Stores) /\ asked' \in SUBSET Links
      BY <1>a, <1>b DEF TypeOK
    <2> QED BY <1>b, <1>c, <2>1, <2>2 DEF TypeOK
  <1>2. KeysOK' /\ linked' \subseteq wanted'
    BY <1>b DEF KeysOK
  <1>3. StatesOK'
    <2>1. SUFFICES ASSUME NEW m \in Links
                   PROVE  /\ state'[m] # None =>
                               /\ m \in asked' /\ redeemed[m] = 0
                               /\ <<state'[m].email, state'[m].store>> \in wanted'
                          /\ redeemed[m] # 0 => redeemed[m] = 1 /\ m \in asked'
      BY <1>b DEF StatesOK
    <2>2. CASE m = k
      <3>1. state'[m] = record /\ redeemed[m] = 0
        BY <1>b, <2>2 DEF TypeOK, StatesOK
      <3> QED BY <1>b, <1>d, <2>2, <3>1
    <2>3. CASE m # k
      <3>1. state'[m] = state[m]
        BY <1>b, <2>3 DEF TypeOK
      <3> QED BY <1>b, <3>1 DEF StatesOK
    <2> QED BY <2>2, <2>3
  <1>4. TokensOK' /\ MadeOK'
    BY <1>b, TokensStay, MadeStays
  <1>5. \A q \in Requests : RequestOK(q)'
    BY <1>b, <1>c, OthersStay DEF Kindly
  <1> QED BY <1>1, <1>2, <1>3, <1>4, <1>5

LEMMA TakeStateStep ==
    ASSUME IInv, NEW r \in Requests, NEW k \in Links, NEW x \in Sessions, NEW s \in Stores,
           TakeState(r, k, x, s)
    PROVE  IInv'
  <1> USE DEF IInv, StoresOK, made
  <1> DEFINE link == state[k]
             e == [Idle EXCEPT !.stage = "callback_session", !.session = x, !.store = s,
                               !.link = link]
  <1>a. /\ link \in Connecting /\ <<link.email, link.store>> \in wanted
        /\ k \in asked /\ redeemed[k] = 0
    BY DEF TakeState, Live, TypeOK, StatesOK
  <1>b. /\ state' = [state EXCEPT ![k] = None]
        /\ redeemed' = [redeemed EXCEPT ![k] = IF @ = 0 THEN 1 ELSE 2]
        /\ req' = [req EXCEPT ![r] = e]
        /\ UNCHANGED <<now, ring, token, session, rotatedAt, opened, asked, wanted, made>>
    BY DEF TakeState
  <1> HIDE DEF link
  <1>c. 0 < Len(StoreOrder)
    BY ConnectionsAssumption DEF Stores
  <1>d. /\ e \in Locals /\ e.stage = "callback_session" /\ e.session = x /\ e.store = s
        /\ e.link = link /\ e.upto < Len(StoreOrder)
    BY <1>a, <1>c, IdleOK DEF Idle, Locals, Stages
  <1> HIDE DEF e
  <1>e. req' \in [Requests -> Locals] /\ OthersKept(r) /\ req'[r] = e
    BY <1>b, <1>d, Assigned
  <1>f. RequestOK(r)'
    BY <1>a, <1>b, <1>d, <1>e DEF RequestOK, Addressed, OnCallback, OnToken
  <1>g. \A m \in Links : /\ state'[m] = IF m = k THEN None ELSE state[m]
                         /\ redeemed'[m] = IF m = k THEN 1 ELSE redeemed[m]
    BY <1>a, <1>b DEF TypeOK
  <1>1. TypeOK'
    <2>1. state' \in [Links -> Connecting \cup {None}]
      BY <1>b DEF TypeOK
    <2>2. redeemed' \in [Links -> 0 .. 2]
      BY <1>b DEF TypeOK
    <2> QED BY <1>b, <1>e, <2>1, <2>2 DEF TypeOK
  <1>2. KeysOK' /\ linked' \subseteq wanted'
    BY <1>b DEF KeysOK
  <1>3. StatesOK'
    BY <1>a, <1>b, <1>g DEF StatesOK
  <1>4. TokensOK' /\ MadeOK'
    BY <1>b, TokensStay, MadeStays
  <1>5. \A q \in Requests : RequestOK(q)'
    BY <1>b, <1>e, <1>f, OthersStay DEF Kindly
  <1> QED BY <1>1, <1>2, <1>3, <1>4, <1>5

LEMMA SaveStep ==
    ASSUME IInv, NEW r \in Requests, Save(r)
    PROVE  IInv'
  <1> USE DEF IInv, StoresOK
  <1> DEFINE e == req[r].email
             s == req[r].store
             t == req[r].grant
             p == req[r].purpose
  <1>a. /\ req[r] \in Locals /\ e \in People /\ s \in Stores /\ t \in TokenRecords
        /\ OwnToken(e, s, t)
        /\ p \in {"connect", "chain"} => req[r].session \in Sessions /\ <<e, s>> \in wanted
        /\ req[r].upto < Len(StoreOrder)
    BY DEF Save, At, RequestOK, Addressed, OnCallback, OnToken, TypeOK
  <1>b. /\ token' = [token EXCEPT ![e][s] = t]
        /\ madeAt' = [madeAt EXCEPT ![e][s] = t.connectedAt]
        /\ linked' = IF p \in {"connect", "chain"}
                     THEN linked \cup {<<e, s>>} ELSE linked \ {<<e, s>>}
        /\ cut' = cut \ {<<e, s>>}
        /\ UNCHANGED <<now, ring, state, session, rotatedAt, opened, links>>
    BY DEF Save
  <1>c. req' \in [Requests -> Locals] /\ OthersKept(r) /\ RequestOK(r)'
    <2>1. CASE End(r)
      BY <2>1, Ended
    <2>2. CASE /\ AfterSave(r) \in {"scan", "open_session"}
               /\ req' = [req EXCEPT ![r].stage = AfterSave(r), ![r].store = None,
                                     ![r].grant = None]
      <3> DEFINE stage == AfterSave(r)
                 f == [req[r] EXCEPT !.stage = stage, !.store = None, !.grant = None]
      <3>1. stage \in {"scan", "open_session"} /\ (stage = "scan" => p = "chain")
        BY <2>2 DEF AfterSave
      <3> HIDE DEF stage
      <3>2. /\ f \in Locals /\ f.stage = stage /\ f.email = e /\ f.session = req[r].session
            /\ f.upto = req[r].upto
        BY <1>a, <3>1 DEF Locals, Stages
      <3>3. req' = [req EXCEPT ![r] = f]
        BY <2>2 DEF TypeOK, Locals, stage
      <3> HIDE DEF f
      <3>4. req' \in [Requests -> Locals] /\ OthersKept(r) /\ req'[r] = f
        BY <3>2, <3>3, Assigned
      <3> QED BY <1>a, <3>1, <3>2, <3>4 DEF RequestOK, Addressed, OnCallback, OnToken
    <2>3. AfterSave(r) \in {"scan", "open_session", "idle"}
      BY DEF AfterSave
    <2> QED BY <2>1, <2>2, <2>3 DEF Save
  <1> HIDE DEF e, s, t, p
  <1>d. \A f \in People, u \in Stores :
          /\ token'[f][u] = IF f = e /\ u = s THEN t ELSE token[f][u]
          /\ madeAt'[f][u] = IF f = e /\ u = s THEN t.connectedAt ELSE madeAt[f][u]
    BY <1>a, <1>b DEF TypeOK
  <1>e. t # None
    BY <1>a, ConnectionsAssumption
  <1>1. TypeOK'
    <2>1. token' \in [People -> [Stores -> TokenRecords \cup {None}]]
      BY <1>a, <1>b DEF TypeOK
    <2>2. madeAt' \in [People -> [Stores -> Nat \cup {None}]]
      BY <1>a, <1>b DEF TypeOK, TokenRecords
    <2>3. linked' \in SUBSET (People \X Stores) /\ cut' \in SUBSET (People \X Stores)
      BY <1>a, <1>b DEF TypeOK
    <2> QED BY <1>b, <1>c, <2>1, <2>2, <2>3 DEF TypeOK, links
  <1>2. KeysOK' /\ StatesOK' /\ linked' \subseteq wanted'
    BY <1>a, <1>b DEF KeysOK, StatesOK, links
  <1>3. TokensOK'
    BY <1>a, <1>b, <1>d DEF TokensOK, OwnToken, Readable, Old
  <1>4. MadeOK'
    <2>1. SUFFICES ASSUME NEW f \in People, NEW u \in Stores
                   PROVE  /\ <<f, u>> \in cut' /\ token'[f][u] # None =>
                                Old(f, u, token'[f][u])
                          /\ madeAt'[f][u] # None /\ <<f, u>> \notin cut' => token'[f][u] # None
      BY <1>b DEF MadeOK, Old
    <2>2. CASE f = e /\ u = s
      BY <1>a, <1>b, <1>d, <1>e, <2>2
    <2>3. CASE ~(f = e /\ u = s)
      <3>1. /\ token'[f][u] = token[f][u] /\ madeAt'[f][u] = madeAt[f][u]
            /\ <<f, u>> \in cut' <=> <<f, u>> \in cut
        BY <1>b, <1>d, <2>3
      <3> QED BY <2>1, <3>1 DEF MadeOK
    <2> QED BY <2>2, <2>3
  <1>5. \A q \in Requests : RequestOK(q)'
    BY <1>b, <1>c, OthersStay DEF Kindly, links
  <1> QED BY <1>1, <1>2, <1>3, <1>4, <1>5

LEMMA OpenSessionStep ==
    ASSUME IInv, NEW r \in Requests, NEW x \in Sessions, OpenSession(r, x)
    PROVE  IInv'
  <1> USE DEF IInv, StoresOK, made, links
  <1> DEFINE e == req[r].email
             record == [email |-> e, expiresAt |-> now + SessionTtl]
  <1>a. /\ req[r] \in Locals /\ e \in People /\ req[r].upto < Len(StoreOrder)
        /\ now \in Nat /\ SessionTtl \in Nat
    BY ConnectionsAssumption DEF OpenSession, At, RequestOK, Addressed, TypeOK
  <1>b. /\ opened' = [opened EXCEPT ![x] = e] /\ session' = [session EXCEPT ![x] = record]
        /\ UNCHANGED <<now, ring, token, state, rotatedAt, links, made>>
    BY DEF OpenSession
  <1>c. req' \in [Requests -> Locals] /\ OthersKept(r) /\ RequestOK(r)'
    <2>1. CASE End(r)
      BY <2>1, Ended
    <2>2. CASE req' = [req EXCEPT ![r].stage = "scan", ![r].session = x]
      <3> DEFINE f == [req[r] EXCEPT !.stage = "scan", !.session = x]
      <3>1. /\ f \in Locals /\ f.stage = "scan" /\ f.email = e /\ f.session = x
            /\ f.upto = req[r].upto
        BY <1>a DEF Locals, Stages
      <3>2. req' = [req EXCEPT ![r] = f]
        BY <2>2 DEF TypeOK, Locals
      <3> HIDE DEF f
      <3>3. req' \in [Requests -> Locals] /\ OthersKept(r) /\ req'[r] = f
        BY <3>1, <3>2, Assigned
      <3> QED BY <1>a, <3>1, <3>3 DEF RequestOK, Addressed, OnCallback, OnToken
    <2> QED BY <2>1, <2>2 DEF OpenSession
  <1>1. TypeOK'
    <2>1. record \in [email : People, expiresAt : Nat]
      BY <1>a
    <2>2. session' \in [Sessions -> [email : People, expiresAt : Nat] \cup {None}]
      BY <1>b, <2>1 DEF TypeOK
    <2>3. opened' \in [Sessions -> People \cup {None}]
      BY <1>a, <1>b DEF TypeOK
    <2> QED BY <1>b, <1>c, <2>2, <2>3 DEF TypeOK
  <1>2. KeysOK' /\ StatesOK' /\ linked' \subseteq wanted'
    BY <1>b DEF KeysOK, StatesOK
  <1>3. TokensOK' /\ MadeOK'
    BY <1>b, TokensStay, MadeStays
  <1>4. \A q \in Requests : RequestOK(q)'
    BY <1>b, <1>c, OthersStay DEF Kindly
  <1> QED BY <1>1, <1>2, <1>3, <1>4

LEMMA ReencryptStep ==
    ASSUME IInv, NEW r \in Requests, Reencrypt(r)
    PROVE  IInv'
  <1> USE DEF IInv, StoresOK, history, links, made
  <1> DEFINE e == req[r].email
             s == req[r].store
             g == req[r].grant
             t == [g EXCEPT !.key = ring.newest, !.v1 = FALSE]
  <1>a. /\ e \in People /\ s \in Stores /\ g \in TokenRecords /\ OwnToken(e, s, g)
        /\ Old(e, s, g) /\ ring.newest \in 1 .. MaxKeys /\ ring.oldest <= ring.newest
    BY DEF Reencrypt, At, RequestOK, Addressed, OnToken, TypeOK, KeysOK
  <1>b. /\ token' = [token EXCEPT ![e][s] = t]
        /\ UNCHANGED <<now, ring, state, session, history>>
    BY DEF Reencrypt
  <1>c. req' \in [Requests -> Locals] /\ OthersKept(r) /\ RequestOK(r)'
    BY Ended DEF Reencrypt
  <1>d. t \in TokenRecords /\ OwnToken(e, s, t) /\ Old(e, s, t) /\ t # None
    <2>1. t \in TokenRecords /\ t # None
      BY <1>a, ConnectionsAssumption DEF TokenRecords
    <2>2. /\ t.owner = g.owner /\ t.key = ring.newest /\ t.v1 = FALSE
          /\ t.connectedAt = g.connectedAt /\ t.expiresAt = g.expiresAt
      BY <1>a DEF TokenRecords
    <2>3. ring.newest \in Nat /\ ring.oldest \in Nat
      BY <1>a, ConnectionsAssumption DEF TypeOK
    <2> HIDE DEF e, s, g, t
    <2>4. OwnToken(e, s, t) /\ Old(e, s, t)
      BY <1>a, <2>2, <2>3 DEF OwnToken, Readable, Old
    <2> QED BY <2>1, <2>4
  <1> HIDE DEF e, s, g, t
  <1>e. \A f \in People, u \in Stores :
          token'[f][u] = IF f = e /\ u = s THEN t ELSE token[f][u]
    BY <1>a, <1>b DEF TypeOK
  <1>1. TypeOK'
    <2>1. token' \in [People -> [Stores -> TokenRecords \cup {None}]]
      BY <1>a, <1>b, <1>d DEF TypeOK
    <2> QED BY <1>b, <1>c, <2>1 DEF TypeOK
  <1>2. KeysOK' /\ StatesOK' /\ linked' \subseteq wanted'
    BY <1>b DEF KeysOK, StatesOK
  <1>3. TokensOK'
    BY <1>a, <1>b, <1>d, <1>e DEF TokensOK, OwnToken, Readable, Old
  <1>4. MadeOK'
    <2>1. ASSUME NEW f \in People, NEW u \in Stores
          PROVE  /\ <<f, u>> \in cut /\ token'[f][u] # None => Old(f, u, token'[f][u])
                 /\ madeAt[f][u] # None /\ <<f, u>> \notin cut => token'[f][u] # None
      BY <1>d, <1>e, <2>1 DEF MadeOK
    <2> QED BY <1>b, <2>1 DEF MadeOK, Old
  <1>5. \A q \in Requests : RequestOK(q)'
    BY <1>b, <1>c, OthersStay DEF Kindly
  <1> QED BY <1>1, <1>2, <1>3, <1>4, <1>5

-----------------------------------------------------------------------------
LEMMA PageStep ==
    ASSUME IInv, NEW r \in Requests, Page(r)
    PROVE  IInv'
  <1>1. ASSUME NEW x \in Sessions, NEW s \in Stores, NEW p \in {"connect", "chain"},
               Post(r, x, p, s, "start")
        PROVE  IInv'
    BY <1>1, PostStep DEF Purposes
  <1>2. ASSUME NEW x \in Sessions, NEW s \in Stores, Post(r, x, "disconnect", s, "delete_token")
        PROVE  IInv'
    BY <1>2, PostStep DEF Purposes
  <1>3. ASSUME NEW x \in Sessions, Post(r, x, "signout", None, "delete_session")
        PROVE  IInv'
    BY <1>3, PostStep DEF Purposes
  <1> QED BY <1>1, <1>2, <1>3, DeleteTokenStep, DeleteSessionStep, StartStep DEF Page

LEMMA InvStep == IInv /\ [Next]_vars => IInv'
  <1> SUFFICES ASSUME IInv, [Next]_vars PROVE IInv'
    OBVIOUS
  <1>1. CASE UNCHANGED vars
    BY <1>1 DEF vars, history, links, made, IInv, TypeOK, StoresOK, KeysOK, TokensOK, StatesOK,
                MadeOK, RequestOK, Addressed, OnCallback, OnToken, OwnToken, Readable, Old
  <1>2. CASE Tick \/ AddKey \/ DropKey
    BY <1>2, TickStep, AddKeyStep, DropKeyStep
  <1>3. ASSUME NEW r \in Requests, Callback(r)
        PROVE  IInv'
    BY <1>3, TakeStateStep, CheckSessionStep, ExchangeStep, SaveStep, ScanStep DEF Callback
  <1>4. ASSUME NEW r \in Requests, SignIn(r)
        PROVE  IInv'
    BY <1>4, SignedInStep, OpenSessionStep DEF SignIn
  <1>5. ASSUME NEW r \in Requests, Tool(r)
        PROVE  IInv'
    BY <1>5, LoadStep, UseStep, ReencryptStep DEF Tool
  <1> QED BY <1>1, <1>2, <1>3, <1>4, <1>5, PageStep, LeaveStep DEF Next

LEMMA InductiveInvariant == Spec => []IInv
  BY InitInv, InvStep, PTL DEF Spec

\* Every record of the store kinds "shopify_token", "shopify_state" and
\* "session", and every request, has its type.
THEOREM TypeCorrect == Spec => []TypeOK
  <1>1. IInv => TypeOK
    BY DEF IInv
  <1> QED BY InductiveInvariant, <1>1, PTL

\* Nobody acts through someone else's staff account: the token kept for a person
\* is that person's own, a callback connects only what its person began, and two
\* callbacks with one state never both act on it (connectionCallback, saveToken).
THEOREM OnlyOwnConnectionsHolds == Spec => []OnlyOwnConnections
  <1>1. IInv => OnlyOwnConnections
    <2> SUFFICES ASSUME IInv PROVE OnlyOwnConnections
      OBVIOUS
    <2>1. ASSUME NEW k \in Links PROVE redeemed[k] <= 1
      <3>1. redeemed[k] = 0 \/ redeemed[k] = 1
        BY DEF IInv, StoresOK, StatesOK
      <3> QED BY <3>1
    <2> QED BY <2>1 DEF OnlyOwnConnections, IInv, StoresOK, TokensOK, OwnToken
  <1> QED BY InductiveInvariant, <1>1, PTL

\* No connection that Shopify still honours is ever left under a key the server
\* no longer has, whatever saves and re-encryptions go on while the keys are
\* rotated (saveToken, decryptStored).
THEOREM LiveTokensReadableHolds == Spec => []LiveTokensReadable
  <1>1. IInv => LiveTokensReadable
    <2> SUFFICES ASSUME IInv, NEW e \in People, NEW s \in Stores, Live(token[e][s])
                 PROVE  token[e][s].key \in ring.oldest .. ring.newest
      BY DEF LiveTokensReadable
    <2> DEFINE t == token[e][s]
    <2>1. t # None /\ t.expiresAt > now
      BY DEF Live
    <2>2. t \in TokenRecords /\ ring.oldest \in Nat /\ ring.newest \in Nat
      BY <2>1, ConnectionsAssumption DEF IInv, TypeOK
    <2>3. Readable(t)
      BY <2>1 DEF IInv, StoresOK, TokensOK, OwnToken
    <2> HIDE DEF t
    <2>4. t.key \in ring.oldest .. ring.newest
      BY <2>1, <2>2, <2>3 DEF Readable, TokenRecords
    <2> QED BY <2>4 DEF t
  <1> QED BY InductiveInvariant, <1>1, PTL

\* A disconnected store stays disconnected until it is connected again, but for a
\* record from before the last rotation of the keys or, in the v1 format, from
\* before the upgrade, whatever tool calls and callbacks are in flight (the delete
\* of action, against the put of decryptStored).
THEOREM RevivedOnlyIfOutdatedHolds == Spec => []RevivedOnlyIfOutdated
  <1>1. IInv => RevivedOnlyIfOutdated
    BY DEF IInv, StoresOK, MadeOK, Old, RevivedOnlyIfOutdated
  <1> QED BY InductiveInvariant, <1>1, PTL

-----------------------------------------------------------------------------
(* Reconnect all *)

\* A step of request q leaves the others alone.
LEMMA OneMoves ==
    ASSUME TypeOK, NEW q \in Requests, Page(q) \/ Callback(q) \/ SignIn(q) \/ Tool(q) \/ Leave(q)
    PROVE  OthersKept(q)
  <1> USE DEF TypeOK, OthersKept, End
  <1>1. CASE Page(q)
    BY <1>1 DEF Page, Post, DeleteToken, DeleteSession, Start
  <1>2. CASE Callback(q)
    BY <1>2 DEF Callback, TakeState, CheckSession, Exchange, Save, Scan
  <1>3. CASE SignIn(q)
    BY <1>3 DEF SignIn, SignedIn, OpenSession
  <1>4. CASE Tool(q) \/ Leave(q)
    BY <1>4 DEF Tool, Load, Use, Reencrypt, Leave, GoTo
  <1> QED BY <1>1, <1>2, <1>3, <1>4

\* A chain moves on to a store only by looking at that store's record.
LEMMA OnlyScanStarts ==
    ASSUME IInv, [Next]_vars, NEW r \in Requests, At(r, "scan"), req'[r].stage = "start"
    PROVE  Scan(r)
  <1>1. req'[r] # req[r] /\ req'[r] # Idle
    BY IdleOK DEF At
  <1>2. CASE UNCHANGED req
    BY <1>1, <1>2
  <1>3. CASE AddKey \/ DropKey
    BY <1>1, <1>3 DEF AddKey, DropKey
  <1>4. ASSUME NEW q \in Requests,
               Page(q) \/ Callback(q) \/ SignIn(q) \/ Tool(q) \/ Leave(q)
        PROVE  Scan(r)
    <2>1. q = r
      BY <1>1, <1>4, OneMoves DEF IInv, OthersKept
    <2>2. ~Leave(r)
      BY <1>1 DEF Leave, End, IInv, TypeOK
    <2>3. ~Page(r) /\ ~SignIn(r) /\ ~Tool(r)
      BY DEF At, Page, Post, DeleteToken, DeleteSession, Start, SignIn, SignedIn, OpenSession,
             Tool, Load, Use, Reencrypt
    <2>4. Callback(r) => Scan(r)
      BY DEF At, Callback, TakeState, CheckSession, Exchange, Save
    <2> QED BY <1>4, <2>1, <2>2, <2>3, <2>4
  <1> QED BY <1>2, <1>3, <1>4 DEF Next, Tick, vars

\* What ChainMovesOn says of one request's step.
MovesOn(r) ==
    At(r, "scan") /\ req'[r].stage = "start" =>
        LET e == req[r].email
            s == req'[r].store
        IN  \/ madeAt[e][s] = None \/ madeAt[e][s] + Recent <= now
            \/ <<e, s>> \in cut
            \/ token[e][s] # None /\ token[e][s].connectedAt < madeAt[e][s]

LEMMA MovesOnStep ==
    ASSUME IInv, [Next]_vars, NEW r \in Requests
    PROVE  MovesOn(r)
  <1> SUFFICES ASSUME At(r, "scan"), req'[r].stage = "start"
               PROVE  LET e == req[r].email
                          s == req'[r].store
                      IN  \/ madeAt[e][s] = None \/ madeAt[e][s] + Recent <= now
                          \/ <<e, s>> \in cut
                          \/ token[e][s] # None /\ token[e][s].connectedAt < madeAt[e][s]
    BY DEF MovesOn
  <1> DEFINE e == req[r].email
             s == StoreOrder[req[r].upto + 1]
             t == token[e][s]
  <1>1. /\ Scan(r) /\ TypeOK /\ MadeOK /\ req[r] \in Locals /\ e \in People
        /\ req[r].upto < Len(StoreOrder)
    BY OnlyScanStarts DEF IInv, StoresOK, TypeOK, RequestOK, Addressed, At
  <1>2. s \in Stores
    <2>1. req[r].upto + 1 \in 1 .. Len(StoreOrder)
      BY <1>1, ConnectionsAssumption DEF Locals
    <2> QED BY <2>1 DEF Stores
  <1>3. NeedsConnection(t) /\ req'[r].store = s
    <2>1. ~End(r)
      BY <1>1, IdleOK DEF End, TypeOK
    <2>2. req' # [req EXCEPT ![r].upto = @ + 1]
      BY <1>1 DEF At, TypeOK, Locals
    <2>3. NeedsConnection(t) /\ req' = [req EXCEPT ![r].stage = "start", ![r].store = s, ![r].upto = 0]
      BY <1>1, <2>1, <2>2 DEF Scan
    <2> HIDE DEF s, t
    <2> QED BY <1>1, <2>3 DEF TypeOK, Locals
  <1>4. madeAt[e][s] = None \/ <<e, s>> \in cut \/ t # None
    BY <1>1, <1>2 DEF MadeOK
  <1>5. CASE madeAt[e][s] # None /\ t # None
    <2>a. /\ TokensOK /\ token \in [People -> [Stores -> TokenRecords \cup {None}]]
          /\ madeAt \in [People -> [Stores -> Nat \cup {None}]]
      BY DEF IInv, StoresOK, TypeOK
    <2>b. e \in People /\ s \in Stores /\ t # None /\ madeAt[e][s] # None
      BY <1>1, <1>2, <1>5
    <2>1. /\ t \in TokenRecords /\ Readable(t) /\ madeAt[e][s] \in Nat
      <3>1. ASSUME NEW f \in People, NEW u \in Stores, token[f][u] # None, madeAt[f][u] # None
            PROVE  /\ token[f][u] \in TokenRecords /\ Readable(token[f][u])
                   /\ madeAt[f][u] \in Nat
        <4>1. token[f][u] \in TokenRecords
          BY <2>a, <3>1
        <4>2. madeAt[f][u] \in Nat
          BY <2>a, <3>1
        <4>3. OwnToken(f, u, token[f][u])
          BY <2>a, <3>1 DEF TokensOK
        <4> QED BY <4>1, <4>2, <4>3 DEF OwnToken
      <3> HIDE DEF e, s
      <3> QED BY <2>b, <3>1
    <2>2. now \in Nat /\ {Grace, TokenTtl, Recent} \subseteq Nat /\ Recent <= TokenTtl
      BY <1>1, ConnectionsAssumption DEF TypeOK
    <2>3. t.connectedAt \in Nat /\ t.expiresAt = t.connectedAt + TokenTtl
      BY <2>1 DEF TokenRecords, Readable
    <2> HIDE DEF t, e, s
    <2>4. t.connectedAt + Recent <= now
      BY <1>3, <1>5, <2>2, <2>3 DEF NeedsConnection, Kept, LacksScopes
    <2>5. CASE t.connectedAt < madeAt[e][s]
      BY <1>3, <1>5, <2>5 DEF t, e
    <2>6. CASE madeAt[e][s] <= t.connectedAt
      BY <1>3, <2>1, <2>2, <2>3, <2>4, <2>6 DEF e
    <2> QED BY <2>1, <2>3, <2>5, <2>6
  <1> QED BY <1>3, <1>4, <1>5

\* Asking again would loop Reconnect all: while the keys are not rotated, a chain
\* never goes back to a store it connected within the last ten minutes and that was
\* not disconnected since (nextUnconnected, missingScopes).
THEOREM ChainMovesOnHolds == Spec => ChainMovesOn
  <1>1. IInv /\ [Next]_vars => [\A r \in Requests : MovesOn(r)]_vars
    BY MovesOnStep
  <1>2. Spec => [][\A r \in Requests : MovesOn(r)]_vars
    BY InductiveInvariant, <1>1, PTL DEF Spec
  <1> QED BY <1>2 DEF ChainMovesOn, MovesOn
=============================================================================
