------------------------- MODULE TokenFamiliesProofs -------------------------
(***************************************************************************)
(* Proofs about TokenFamilies, for every number of requests, codes,        *)
(* families and tokens and every value of the lifetimes.                   *)
(***************************************************************************)
EXTENDS TokenFamilies, TLAPS

\* The request holds the session of the record it read or began.
Holds(r) == req[r].stage \notin {"idle", "exchange"}

\* The copies of a session agree with the sign-in that began it.
SessionsAgree ==
    /\ \A r \in Requests :
         Holds(r) =>
             /\ req[r].session \in Sessions
             /\ start[req[r].session.family] = req[r].session.startedAt
    /\ \A t \in Tokens :
         tok[t] # None =>
             /\ start[tok[t].session.family] = tok[t].session.startedAt
             /\ tok[t].expiresAt <= SessionEnd(tok[t].session)

\* A marker lives to the end of the session, whoever wrote it last.
MarkersLast ==
    \A f \in revoked : start[f] \in Nat /\ marker[f] >= start[f] + SessionMax

\* Where a request can stand that began after its family was revoked: past the
\* marker only if the session is over by now.
LateRequests ==
    \A r \in Requests :
        req[r].late =>
            /\ Holds(r)
            /\ req[r].stage \notin {"claim", "won", "lost"} \cup Issuing
            /\ req[r].session.family \in revoked
            /\ At(r, "check") \/ At(r, "accepted") => now >= SessionEnd(req[r].session)

\* Past its put of the marker, a request's family is revoked.
MarkerFirst ==
    \A r \in Requests :
        req[r].stage \in {"delete_access", "delete_refresh", "denied"}
            => req[r].session.family \in revoked

IInv == TypeOK /\ SessionsAgree /\ MarkersLast /\ LateRequests /\ MarkerFirst

-----------------------------------------------------------------------------
LEMMA InitInv == Init => IInv
  <1> SUFFICES ASSUME Init PROVE IInv
    OBVIOUS
  <1> USE FamiliesAssumption DEF Init
  <1>1. Idle \in Locals
    BY DEF Idle, Locals, Stages, NoSession
  <1>2. TypeOK
    BY <1>1 DEF TypeOK
  <1>3. SessionsAgree /\ MarkersLast /\ LateRequests /\ MarkerFirst
    BY DEF SessionsAgree, MarkersLast, LateRequests, MarkerFirst, Idle, Holds, At
  <1> QED
    BY <1>2, <1>3 DEF IInv

LEMMA StageNames ==
    /\ {"idle", "exchange", "family", "check", "claim", "won", "lost"} \subseteq Stages
    /\ {"put_access", "put_refresh", "respond"} \subseteq Stages
    /\ {"put_marker", "delete_access", "delete_refresh", "denied"} \subseteq Stages
    /\ {"verify", "verify_family", "accepted"} \subseteq Stages
  BY DEF Stages

\* The three moves every stage of a request ends with keep it well typed.
LEMMA MovesTyped ==
    ASSUME TypeOK, NEW r \in Requests, NEW stage \in Stages,
           GoTo(r, stage) \/ GoToNow(r, stage) \/ End(r)
    PROVE  req' \in [Requests -> Locals]
  <1>1. req \in [Requests -> Locals] /\ now \in Nat
    BY DEF TypeOK
  <1>2. CASE GoTo(r, stage)
    BY <1>1, <1>2 DEF GoTo, Locals
  <1>3. CASE GoToNow(r, stage)
    BY <1>1, <1>3 DEF GoToNow, Locals
  <1>4. CASE End(r)
    <2>1. Idle \in Locals
      BY StageNames DEF Idle, Locals, NoSession
    <2> QED BY <2>1, <1>1, <1>4 DEF End
  <1> QED BY <1>2, <1>3, <1>4

LEMMA RecordFields ==
    ASSUME TypeOK, NEW t \in Tokens, tok[t] # None
    PROVE  /\ tok[t] \in Records
           /\ tok[t].session \in Sessions
           /\ tok[t].session.family \in Families
           /\ tok[t].session.startedAt \in Nat
           /\ tok[t].expiresAt \in Nat
           /\ tok[t].rotated \in BOOLEAN
  <1>1. tok[t] \in Records
    BY DEF TypeOK
  <1> QED BY <1>1 DEF Records, Sessions

LEMMA TypeStep == TypeOK /\ SessionsAgree /\ [Next]_vars => TypeOK'
  <1> SUFFICES ASSUME TypeOK, SessionsAgree, [Next]_vars PROVE TypeOK'
    OBVIOUS
  <1>a. req \in [Requests -> Locals] /\ now \in Nat
    BY DEF TypeOK
  <1>1. CASE UNCHANGED vars
    BY <1>1 DEF TypeOK, vars, history
  <1>2. CASE Tick
    BY <1>2 DEF TypeOK, Tick, history
  <1>3. ASSUME NEW r \in Requests, NEW c \in Codes, TakeCode(r, c) PROVE TypeOK'
    <2>1. req' \in [Requests -> Locals]
      BY <1>a, <1>3, StageNames DEF TakeCode, Locals
    <2> QED BY <2>1, <1>3 DEF TypeOK, TakeCode, history
  <1>4. ASSUME NEW r \in Requests, NEW f \in Families, BeginFamily(r, f) PROVE TypeOK'
    <2>1. [family |-> f, startedAt |-> now] \in Sessions
      BY <1>a DEF Sessions
    <2>2. req' \in [Requests -> Locals]
      <3> DEFINE s == [family |-> f, startedAt |-> now]
      <3>1. s \in Sessions /\ "put_access" \in Stages
        BY <2>1, StageNames
      <3>2. req' = [req EXCEPT ![r].stage = "put_access", ![r].at = now, ![r].session = s]
        BY <1>4 DEF BeginFamily
      <3> HIDE DEF s
      <3> QED BY <3>1, <3>2, <1>a DEF Locals
    <2> QED BY <2>2, <1>a, <1>4 DEF TypeOK, BeginFamily
  <1>5. ASSUME NEW r \in Requests, NEW t \in Tokens, PutAccess(r, t) \/ PutRefresh(r, t)
        PROVE  TypeOK'
    <2>1. PICK kind \in {"access", "refresh"}, ttl \in Nat, stage \in Stages :
            Put(r, t, kind, ttl, stage)
      BY <1>5, StageNames, FamiliesAssumption DEF PutAccess, PutRefresh
    <2>2. /\ Holds(r)
          /\ req[r].session \in Sessions
          /\ req[r].src \in Codes \cup Tokens \cup {None}
          /\ req[r].at \in Nat
      BY <1>a, <1>5 DEF SessionsAgree, Holds, PutAccess, PutRefresh, At, Locals, Stages
    <2>3. Expiry(r, ttl) \in Nat
      BY <2>2, FamiliesAssumption DEF Expiry, SmallerOf, SessionEnd, Sessions
    <2>4. req' \in [Requests -> Locals]
      BY <2>1, <1>a DEF Put, Locals
    <2>5. tok' \in [Tokens -> Records \cup {None}]
      BY <2>1, <2>2, <2>3 DEF TypeOK, Put, Records
    <2>6. parent' \in [Tokens -> Codes \cup Tokens \cup {None}]
      BY <2>1, <2>2 DEF TypeOK, Put
    <2> QED BY <2>1, <2>4, <2>5, <2>6 DEF TypeOK, Put
  <1>6. ASSUME NEW r \in Requests, Respond(r) PROVE TypeOK'
    <2>1. req' \in [Requests -> Locals]
      BY <1>6, MovesTyped, StageNames DEF Respond
    <2>2. req[r].made \in SUBSET Tokens
      BY <1>a DEF Locals
    <2> QED BY <1>6, <2>1, <2>2 DEF TypeOK, Respond, history
  <1>7. ASSUME NEW r \in Requests, NEW t \in Tokens, GetRefresh(r, t) \/ GetAccess(r, t)
        PROVE  TypeOK'
    <2>1. tok[t] # None
      BY <1>7 DEF GetRefresh, GetAccess, Live
    <2>2. PICK stage \in Stages, held \in Nat : Adopt(r, t, stage, held)
      BY <1>7, <2>1, RecordFields, StageNames DEF GetRefresh, GetAccess
    <2>3. (tok[t].session.family \in revoked) \in BOOLEAN
      OBVIOUS
    <2>4. req' \in [Requests -> Locals]
      <3> DEFINE l == [req[r] EXCEPT !.stage = stage, !.src = t, !.session = tok[t].session,
                         !.rotated = tok[t].rotated, !.at = held,
                         !.late = tok[t].session.family \in revoked]
      <3>1. l \in Locals
        BY <2>1, <2>3, <1>a, RecordFields DEF Locals
      <3>2. req' = [req EXCEPT ![r] = l]
        BY <2>2 DEF Adopt
      <3> HIDE DEF l
      <3> QED BY <3>1, <3>2, <1>a
    <2>5. reused' \in SUBSET Families
      BY <1>7, <2>1, RecordFields DEF TypeOK, GetRefresh, GetAccess, history
    <2> QED BY <1>7, <2>4, <2>5 DEF TypeOK, GetRefresh, GetAccess, history
  <1>8. ASSUME NEW r \in Requests,
               \/ CheckAccess(r)
               \/ ReadFamily(r, "family", "check")
               \/ ReadFamily(r, "verify_family", "accepted")
               \/ CheckRefresh(r) \/ AfterClaim(r) \/ Leave(r)
        PROVE  TypeOK'
    <2>1. req' \in [Requests -> Locals]
      BY <1>8, MovesTyped, StageNames
      DEF CheckAccess, ReadFamily, CheckRefresh, AfterClaim, Leave
    <2> QED BY <1>8, <2>1
            DEF TypeOK, CheckAccess, ReadFamily, CheckRefresh, AfterClaim, Leave, history
  <1>9. ASSUME NEW r \in Requests, ClaimRefresh(r) PROVE TypeOK'
    <2>1. req' \in [Requests -> Locals]
      BY <1>9, MovesTyped, StageNames DEF ClaimRefresh
    <2>2. tok' \in [Tokens -> Records \cup {None}]
      <3> DEFINE t == req[r].src
      <3>1. CASE UNCHANGED tok
        BY <3>1 DEF TypeOK
      <3>2. CASE Live(tok[t]) /\ tok' = [tok EXCEPT ![t].rotated = TRUE]
        <4>1. t \in Tokens => [tok[t] EXCEPT !.rotated = TRUE] \in Records
          BY <3>2, RecordFields DEF Live, Records
        <4> QED BY <3>2, <4>1 DEF TypeOK
      <3> QED BY <1>9, <3>1, <3>2 DEF ClaimRefresh
    <2> QED BY <1>9, <2>1, <2>2 DEF TypeOK, ClaimRefresh, history
  <1>10. ASSUME NEW r \in Requests, PutMarker(r) PROVE TypeOK'
    <2>1. req' \in [Requests -> Locals]
      BY <1>10, MovesTyped, StageNames DEF PutMarker
    <2>2. Holds(r) /\ req[r].at \in Nat /\ req[r].session \in Sessions
      BY <1>a, <1>10 DEF SessionsAgree, Holds, PutMarker, At, Stages, Locals
    <2>3. MarkerExpiry(r) \in Nat /\ req[r].session.family \in Families
      BY <2>2, FamiliesAssumption DEF MarkerExpiry, LargerOf, SessionEnd, Sessions
    <2> QED BY <1>10, <2>1, <2>3 DEF TypeOK, PutMarker
  <1>11. ASSUME NEW r \in Requests, Revoke(r), ~PutMarker(r) PROVE TypeOK'
    <2>1. req' \in [Requests -> Locals]
      BY <1>11, MovesTyped, StageNames DEF Revoke, DeleteMatching
    <2>2. tok' \in [Tokens -> Records \cup {None}]
      BY <1>11 DEF TypeOK, Revoke, DeleteMatching
    <2> QED BY <1>11, <2>1, <2>2 DEF TypeOK, Revoke, DeleteMatching, history
  <1> QED
    BY <1>1, <1>2, <1>3, <1>4, <1>5, <1>6, <1>7, <1>8, <1>9, <1>10, <1>11
    DEF Next, Exchange, Issue, Refresh, Verify, Revoke
-----------------------------------------------------------------------------
(* The rest of the invariant *)

Strengthening == SessionsAgree /\ MarkersLast /\ LateRequests /\ MarkerFirst

OthersKept(r) == \A q \in Requests \ {r} : req'[q] = req[q]

SameHold(r) == req'[r].session = req[r].session /\ req'[r].late = req[r].late

LEMMA MoveEffects ==
    ASSUME TypeOK, NEW r \in Requests, NEW stage
    PROVE  /\ GoTo(r, stage) \/ GoToNow(r, stage) =>
                OthersKept(r) /\ SameHold(r) /\ req'[r].stage = stage
           /\ End(r) => OthersKept(r) /\ req'[r].stage = "idle" /\ ~req'[r].late
  <1>1. req \in [Requests -> Locals]
    BY DEF TypeOK
  <1>2. ASSUME GoTo(r, stage) \/ GoToNow(r, stage)
        PROVE  OthersKept(r) /\ SameHold(r) /\ req'[r].stage = stage
    BY <1>1, <1>2 DEF GoTo, GoToNow, OthersKept, SameHold, Locals
  <1>3. ASSUME End(r)
        PROVE  OthersKept(r) /\ req'[r].stage = "idle" /\ ~req'[r].late
    BY <1>1, <1>3 DEF End, OthersKept, Idle
  <1> QED BY <1>2, <1>3

\* A step that ends a request, or moves it on with the record it holds to a
\* stage it may be at, while token records at most disappear.
LEMMA MovePreserves ==
    ASSUME IInv, NEW r \in Requests, OthersKept(r),
           UNCHANGED <<now, start, marker, revoked>>,
           \A t \in Tokens :
               tok'[t] # None => /\ tok[t] # None
                                 /\ tok'[t].session = tok[t].session
                                 /\ tok'[t].expiresAt = tok[t].expiresAt,
           \/ req'[r].stage = "idle" /\ ~req'[r].late
           \/ /\ Holds(r) /\ SameHold(r) /\ req'[r].stage \notin {"idle", "exchange"}
              /\ req[r].late =>
                   /\ req'[r].stage \notin {"claim", "won", "lost"} \cup Issuing
                   /\ req'[r].stage \in {"check", "accepted"} =>
                        now >= SessionEnd(req[r].session)
              /\ req'[r].stage \in {"delete_access", "delete_refresh", "denied"} =>
                   req[r].session.family \in revoked
    PROVE  Strengthening'
  <1>1. SessionsAgree'
    BY DEF IInv, SessionsAgree, Holds, OthersKept, SameHold, SessionEnd
  <1>2. MarkersLast'
    BY DEF IInv, MarkersLast
  <1>3. LateRequests'
    BY DEF IInv, LateRequests, Holds, At, OthersKept, SameHold, SessionEnd
  <1>4. MarkerFirst'
    BY DEF IInv, MarkerFirst, OthersKept, SameHold
  <1> QED BY <1>1, <1>2, <1>3, <1>4 DEF Strengthening

LEMMA StrengtheningStep == IInv /\ TypeOK' /\ [Next]_vars => Strengthening'
  <1> SUFFICES ASSUME IInv, TypeOK', [Next]_vars PROVE Strengthening'
    OBVIOUS
  <1>a. /\ TypeOK /\ SessionsAgree /\ MarkersLast /\ LateRequests /\ MarkerFirst
        /\ req \in [Requests -> Locals] /\ now \in Nat /\ now' \in Nat
        /\ start \in [Families -> Nat \cup {None}]
        /\ marker \in [Families -> Nat]
        /\ revoked \subseteq Families
    BY DEF IInv, TypeOK
  <1>1. CASE UNCHANGED vars
    BY <1>1, <1>a DEF vars, history, Strengthening, SessionsAgree, MarkersLast,
                      LateRequests, MarkerFirst, Holds, At, SessionEnd
  <1>2. CASE Tick
    <2>1. UNCHANGED <<tok, marker, req, start, revoked>> /\ now' > now
      BY <1>2, <1>a DEF Tick, history
    <2>2. LateRequests'
      <3> SUFFICES ASSUME NEW r \in Requests, req[r].late, At(r, "check") \/ At(r, "accepted")
                   PROVE  now' >= SessionEnd(req[r].session)
        BY <2>1, <1>a DEF LateRequests, Holds, At, SessionEnd
      <3>1. now >= SessionEnd(req[r].session) /\ req[r].session \in Sessions
        BY <1>a DEF LateRequests, SessionsAgree
      <3> QED BY <3>1, <2>1, <1>a, FamiliesAssumption DEF SessionEnd, Sessions
    <2> QED BY <2>1, <2>2, <1>a DEF Strengthening, SessionsAgree, MarkersLast, MarkerFirst,
                                    Holds, SessionEnd
  <1>3. ASSUME NEW r \in Requests, NEW c \in Codes, TakeCode(r, c) PROVE Strengthening'
    <2>1. /\ UNCHANGED <<now, tok, marker, start, revoked>>
          /\ OthersKept(r) /\ req'[r].stage = "exchange" /\ req'[r].late = req[r].late
          /\ ~Holds(r)
      BY <1>3, <1>a DEF TakeCode, OthersKept, history, At, Holds, Locals
    <2> QED BY <2>1, <1>a DEF Strengthening, SessionsAgree, MarkersLast, LateRequests,
                              MarkerFirst, OthersKept, Holds, At, SessionEnd
  <1>4. ASSUME NEW r \in Requests, NEW f \in Families, BeginFamily(r, f) PROVE Strengthening'
    <2> DEFINE s == [family |-> f, startedAt |-> now]
    <2>1. /\ UNCHANGED <<now, tok, marker, revoked>>
          /\ OthersKept(r) /\ req'[r].stage = "put_access" /\ req'[r].late = req[r].late
          /\ req'[r].session = s
          /\ ~Holds(r) /\ start[f] = None /\ start' = [start EXCEPT ![f] = now]
      <3> HIDE DEF s
      <3> QED BY <1>4, <1>a DEF BeginFamily, OthersKept, At, Holds, Locals, s
    <2>2. s \in Sessions /\ s.family = f /\ s.startedAt = now
      BY <1>a DEF Sessions
    <2>3. ~req[r].late
      BY <2>1, <1>a DEF LateRequests
    <2> HIDE DEF s
    <2>4. \A g \in Families : start[g] \in Nat => start'[g] = start[g]
      BY <2>1, <1>a, FamiliesAssumption
    <2>5. start'[f] = now
      BY <2>1, <1>a
    <2>6. SessionsAgree'
      <3>1. ASSUME NEW q \in Requests, Holds(q)'
            PROVE  /\ req'[q].session \in Sessions
                   /\ start'[req'[q].session.family] = req'[q].session.startedAt
        <4>1. CASE q = r
          BY <4>1, <2>1, <2>2, <2>5
        <4>2. CASE q # r
          BY <4>2, <3>1, <2>1, <2>4, <1>a DEF SessionsAgree, Holds, OthersKept, Sessions
        <4> QED BY <4>1, <4>2
      <3>2. ASSUME NEW t \in Tokens, tok[t] # None
            PROVE  /\ start'[tok[t].session.family] = tok[t].session.startedAt
                   /\ tok[t].expiresAt <= SessionEnd(tok[t].session)
        BY <3>2, <2>4, <1>a, RecordFields DEF SessionsAgree
      <3> QED BY <3>1, <3>2, <2>1 DEF SessionsAgree, SessionEnd
    <2>7. MarkersLast'
      BY <2>1, <2>4, <1>a DEF MarkersLast
    <2>8. LateRequests' /\ MarkerFirst'
      BY <2>1, <2>3, <1>a DEF LateRequests, MarkerFirst, OthersKept, Holds, At, SessionEnd
    <2> QED BY <2>6, <2>7, <2>8 DEF Strengthening
  <1>5. ASSUME NEW r \in Requests, NEW t \in Tokens, PutAccess(r, t) \/ PutRefresh(r, t)
        PROVE  Strengthening'
    <2>1. PICK kind \in {"access", "refresh"}, ttl \in Nat, stage \in {"put_refresh", "respond"} :
            Put(r, t, kind, ttl, stage)
      BY <1>5, FamiliesAssumption DEF PutAccess, PutRefresh
    <2>2. /\ UNCHANGED <<now, marker, start, revoked>>
          /\ OthersKept(r) /\ SameHold(r) /\ req'[r].stage = stage
      BY <2>1, <1>a DEF Put, OthersKept, SameHold, Locals
    <2>3. /\ \A u \in Tokens \ {t} : tok'[u] = tok[u]
          /\ tok'[t].session = req[r].session
          /\ tok'[t].expiresAt = Expiry(r, ttl)
      BY <2>1, <1>a DEF Put, TypeOK
    <2>4. Holds(r) /\ ~req[r].late
      BY <1>5, <1>a DEF PutAccess, PutRefresh, At, Holds, LateRequests, Issuing
    <2>5. req[r].session \in Sessions /\ req[r].at \in Nat
      BY <2>4, <1>a DEF SessionsAgree, Locals
    <2>6. Expiry(r, ttl) <= SessionEnd(req[r].session)
      BY <2>5, FamiliesAssumption DEF Expiry, SmallerOf, SessionEnd, Sessions
    <2>7. SessionsAgree'
      BY <2>2, <2>3, <2>4, <2>6, <1>a DEF SessionsAgree, Holds, OthersKept, SameHold, SessionEnd
    <2> QED BY <2>2, <2>4, <2>7, <1>a
            DEF Strengthening, MarkersLast, LateRequests, MarkerFirst, OthersKept, SameHold,
                Holds, At
  <1>6. ASSUME NEW r \in Requests, Respond(r) \/ Leave(r) PROVE Strengthening'
    <2>1. End(r) /\ UNCHANGED <<now, tok, start, marker, revoked>>
      BY <1>6 DEF Respond, Leave, history
    <2> QED BY <2>1, <1>a, MoveEffects, MovePreserves
  <1>7. ASSUME NEW r \in Requests, NEW t \in Tokens, GetRefresh(r, t) \/ GetAccess(r, t)
        PROVE  Strengthening'
    <2>1. /\ tok[t] # None
          /\ UNCHANGED <<now, tok, marker, start, revoked>>
      BY <1>7 DEF GetRefresh, GetAccess, Live, history
    <2>2. PICK stage \in {"family", "verify"}, held \in Nat : Adopt(r, t, stage, held)
      BY <1>7, <2>1, <1>a, RecordFields DEF GetRefresh, GetAccess
    <2>3. /\ OthersKept(r) /\ req'[r].stage = stage
          /\ req'[r].session = tok[t].session
          /\ req'[r].late = (tok[t].session.family \in revoked)
      BY <2>2, <1>a DEF Adopt, OthersKept, Locals
    <2>4. /\ tok[t].session \in Sessions
          /\ start[tok[t].session.family] = tok[t].session.startedAt
      BY <2>1, <1>a, RecordFields DEF SessionsAgree
    <2> QED BY <2>1, <2>3, <2>4, <1>a
            DEF Strengthening, SessionsAgree, MarkersLast, LateRequests, MarkerFirst,
                OthersKept, Holds, At, Issuing, SessionEnd
  <1>8. ASSUME NEW r \in Requests, CheckAccess(r) \/ AfterClaim(r) PROVE Strengthening'
    <2>1. UNCHANGED <<now, tok, start, marker, revoked>>
      BY <1>8 DEF CheckAccess, AfterClaim, history
    <2>2. CASE End(r)
      BY <2>1, <2>2, <1>a, MoveEffects, MovePreserves
    <2>3. CASE ~End(r)
      <3>1. PICK stage \in {"verify_family", "put_access", "put_marker"} :
              /\ GoTo(r, stage) \/ GoToNow(r, stage)
              /\ Holds(r)
              /\ stage = "put_access" => ~req[r].late
        BY <1>8, <2>3, <1>a DEF CheckAccess, AfterClaim, At, Holds, LateRequests
      <3> QED BY <2>1, <3>1, <1>a, MoveEffects, MovePreserves DEF Issuing
    <2> QED BY <2>2, <2>3
  <1>9. ASSUME NEW r \in Requests, NEW from, NEW to,
               <<from, to>> \in {<<"family", "check">>, <<"verify_family", "accepted">>},
               ReadFamily(r, from, to)
        PROVE  Strengthening'
    <2>1. UNCHANGED <<now, tok, start, marker, revoked>>
      BY <1>9 DEF ReadFamily, history
    <2>2. CASE End(r)
      BY <2>1, <2>2, <1>a, MoveEffects, MovePreserves
    <2>3. CASE GoTo(r, to) /\ ~MarkerLive(req[r].session.family)
      <3>1. Holds(r) /\ to \in {"check", "accepted"} /\ req[r].session \in Sessions
        BY <1>9, <1>a DEF ReadFamily, At, Holds, SessionsAgree
      <3>2. req[r].late => now >= SessionEnd(req[r].session)
        BY <2>3, <3>1, <1>a, FamiliesAssumption
        DEF LateRequests, MarkersLast, SessionsAgree, MarkerLive, SessionEnd, Sessions
      <3> QED BY <2>1, <2>3, <3>1, <3>2, <1>a, MoveEffects, MovePreserves DEF Issuing
    <2> QED BY <1>9, <2>2, <2>3 DEF ReadFamily
  <1>10. ASSUME NEW r \in Requests, CheckRefresh(r) PROVE Strengthening'
    <2>1. Holds(r) /\ req[r].session \in Sessions /\ UNCHANGED <<now, tok, start, marker, revoked>>
      BY <1>10, <1>a DEF CheckRefresh, At, Holds, SessionsAgree, history
    <2>2. CASE GoToNow(r, "put_marker")
      BY <2>1, <2>2, <1>a, MoveEffects, MovePreserves DEF Issuing
    <2>3. CASE GoTo(r, "claim") /\ ~TooOld(r)
      <3>1. ~req[r].late
        BY <1>10, <2>1, <2>3, <1>a, FamiliesAssumption
        DEF CheckRefresh, LateRequests, TooOld, SessionEnd, Sessions
      <3> QED BY <2>1, <2>3, <3>1, <1>a, MoveEffects, MovePreserves
    <2> QED BY <1>10, <2>2, <2>3 DEF CheckRefresh
  <1>11. ASSUME NEW r \in Requests, ClaimRefresh(r) PROVE Strengthening'
    <2>1. /\ Holds(r) /\ ~req[r].late
          /\ UNCHANGED <<now, start, marker, revoked>>
      BY <1>11, <1>a DEF ClaimRefresh, At, Holds, LateRequests, history
    <2>2. ASSUME NEW t \in Tokens, tok'[t] # None
          PROVE  /\ tok[t] # None
                 /\ tok'[t].session = tok[t].session
                 /\ tok'[t].expiresAt = tok[t].expiresAt
      <3> DEFINE u == req[r].src
      <3>1. CASE UNCHANGED tok
        BY <3>1, <2>2
      <3>2. CASE Live(tok[u]) /\ tok' = [tok EXCEPT ![u].rotated = TRUE]
        BY <3>2, <2>2, <1>a, RecordFields DEF Live, Records, TypeOK
      <3> QED BY <1>11, <3>1, <3>2 DEF ClaimRefresh
    <2>3. End(r) \/ GoTo(r, "lost") \/ GoTo(r, "won")
      BY <1>11 DEF ClaimRefresh
    <2> QED BY <2>1, <2>2, <2>3, <1>a, MoveEffects, MovePreserves
  <1>12. ASSUME NEW r \in Requests, PutMarker(r) PROVE Strengthening'
    <2> DEFINE f == req[r].session.family
    <2>1. /\ UNCHANGED <<now, tok, start>>
          /\ OthersKept(r) /\ SameHold(r) /\ req'[r].stage = "delete_access"
          /\ marker' = [marker EXCEPT ![f] = MarkerExpiry(r)]
          /\ revoked' = revoked \cup {f}
      BY <1>12, <1>a, MoveEffects DEF PutMarker
    <2>2. Holds(r) /\ req[r].session \in Sessions /\ req[r].at \in Nat
      BY <1>12, <1>a DEF PutMarker, At, Holds, SessionsAgree, Locals
    <2>3. /\ f \in Families /\ start[f] = req[r].session.startedAt
          /\ start[f] \in Nat
      BY <2>2, <1>a DEF SessionsAgree, Sessions
    <2>4. MarkerExpiry(r) >= start[f] + SessionMax
      BY <2>2, <2>3, FamiliesAssumption DEF MarkerExpiry, LargerOf, SessionEnd, Sessions
    <2>5. MarkersLast'
      BY <2>1, <2>3, <2>4, <1>a DEF MarkersLast
    <2>6. SessionsAgree' /\ LateRequests' /\ MarkerFirst'
      BY <2>1, <2>2, <1>a
      DEF SessionsAgree, LateRequests, MarkerFirst, OthersKept, SameHold, Holds, At, Issuing,
          SessionEnd
    <2> QED BY <2>5, <2>6 DEF Strengthening
  <1>13. ASSUME NEW r \in Requests, Revoke(r), ~PutMarker(r) PROVE Strengthening'
    <2>1. /\ Holds(r) /\ req[r].session.family \in revoked
          /\ UNCHANGED <<now, start, marker, revoked>>
          /\ GoTo(r, "delete_refresh") \/ GoTo(r, "denied")
      BY <1>13, <1>a DEF Revoke, DeleteMatching, At, Holds, MarkerFirst, history
    <2>2. \A t \in Tokens : tok'[t] # None => tok'[t] = tok[t]
      BY <1>13 DEF Revoke, DeleteMatching
    <2> QED BY <2>1, <2>2, <1>a, MoveEffects, MovePreserves DEF Issuing
  <1> QED
    BY <1>1, <1>2, <1>3, <1>4, <1>5, <1>6, <1>7, <1>8, <1>9, <1>10, <1>11, <1>12, <1>13
    DEF Next, Exchange, Issue, Refresh, Verify, Revoke

-----------------------------------------------------------------------------
LEMMA InvStep == IInv /\ [Next]_vars => IInv'
  <1>1. IInv /\ [Next]_vars => TypeOK'
    BY TypeStep DEF IInv
  <1>2. IInv /\ TypeOK' /\ [Next]_vars => Strengthening'
    BY StrengtheningStep
  <1> QED BY <1>1, <1>2 DEF IInv, Strengthening

LEMMA InductiveInvariant == Spec => []IInv
  BY InitInv, InvStep, PTL DEF Spec

\* What the invariant says of one record, for the theorems below.
LEMMA InvImplies ==
    ASSUME IInv
    PROVE  /\ MarkerOutlivesTokens
           /\ NoIssueAfterRevocation
           /\ LateAcceptOnlyPastEnd
           /\ ReuseKillsFamily
           /\ SessionsDoNotSlide
  <1> USE FamiliesAssumption
  <1>1. now \in Nat /\ marker \in [Families -> Nat] /\ revoked \subseteq Families
    BY DEF IInv, TypeOK
  <1>2. MarkerOutlivesTokens
    <2> SUFFICES ASSUME NEW t \in Tokens, Live(tok[t]), tok[t].session.family \in revoked
                 PROVE  MarkerLive(tok[t].session.family)
      BY DEF MarkerOutlivesTokens
    <2>1. /\ tok[t] # None
          /\ tok[t].expiresAt > now /\ tok[t].expiresAt \in Nat
          /\ tok[t].session.family \in Families /\ tok[t].session.startedAt \in Nat
      BY RecordFields DEF Live, IInv
    <2>2. marker[tok[t].session.family] >= SessionEnd(tok[t].session)
      BY <2>1 DEF IInv, MarkersLast, SessionsAgree, SessionEnd
    <2>3. tok[t].expiresAt <= SessionEnd(tok[t].session)
      BY <2>1 DEF IInv, SessionsAgree
    <2> QED BY <1>1, <2>1, <2>2, <2>3 DEF MarkerLive, SessionEnd
  <1>3. NoIssueAfterRevocation
    BY DEF IInv, LateRequests, NoIssueAfterRevocation
  <1>4. LateAcceptOnlyPastEnd
    BY DEF IInv, LateRequests, LateAcceptOnlyPastEnd, At
  <1>5. ReuseKillsFamily
    <2> SUFFICES ASSUME NEW r \in Requests, At(r, "denied")
                 PROVE  /\ req[r].session.family \in revoked
                        /\ \/ MarkerLive(req[r].session.family)
                           \/ now >= SessionEnd(req[r].session)
      BY DEF ReuseKillsFamily
    <2>1. /\ req[r].session.family \in revoked /\ req[r].session \in Sessions
          /\ start[req[r].session.family] = req[r].session.startedAt
      BY DEF IInv, MarkerFirst, SessionsAgree, Holds, At
    <2> QED BY <1>1, <2>1 DEF IInv, MarkersLast, MarkerLive, SessionEnd, Sessions
  <1>6. SessionsDoNotSlide
    BY DEF IInv, SessionsAgree, SessionsDoNotSlide, SessionEnd
  <1> QED BY <1>2, <1>3, <1>4, <1>5, <1>6

-----------------------------------------------------------------------------
(* Redemption: what is exchanged is exchanged once. *)

\* A request exchanges a code, or a refresh token whose claim it won.
Redeeming == {"exchange", "won"} \cup Issuing

\* A refresh token was read and not yet claimed.
Refreshing == {"family", "check", "claim"}

\* A secret that nobody can redeem any more.
Spent(s) ==
    \/ s \in Codes /\ code[s] = None
    \/ s \in Tokens /\ parent[s] # None /\ (tok[s] = None \/ tok[s].rotated)

\* A token is issued for something, and a token that was read was issued.
SourcesKnown ==
    /\ \A t \in Tokens : tok[t] # None => parent[t] # None
    /\ \A r \in Requests :
         req[r].stage \in Refreshing => req[r].src \in Tokens /\ parent[req[r].src] # None

\* What is being redeemed, and what a token was issued for, is spent.
SpentFirst ==
    /\ \A r \in Requests : req[r].stage \in Redeeming => Spent(req[r].src)
    /\ \A t \in Tokens : parent[t] # None => Spent(parent[t])

OneWinner ==
    \A r, q \in Requests :
        r # q /\ req[r].stage \in Redeeming /\ req[q].stage \in Redeeming
            => req[r].src # req[q].src

\* What has been issued so far for the secret that a request redeems.
IssuedSoFar ==
    \A r \in Requests, t \in Tokens :
        tok[t] # None /\ parent[t] = req[r].src =>
            /\ req[r].stage \notin {"exchange", "won", "put_access"}
            /\ At(r, "put_refresh") => tok[t].kind = "access"

OneOfAKind ==
    \A t, u \in Tokens :
        t # u /\ tok[t] # None /\ tok[u] # None /\ parent[t] = parent[u]
            => tok[t].kind # tok[u].kind

Redemption == SourcesKnown /\ SpentFirst /\ OneWinner /\ IssuedSoFar /\ OneOfAKind

-----------------------------------------------------------------------------
(* Revocation: a family dies of a token that came back, or of age. *)

Reused(r) == req[r].session.family \in reused

\* A token is claimed only by a request that presented it.
ShownFirst ==
    /\ \A t \in Tokens : tok[t] # None /\ tok[t].rotated => t \in shown
    /\ \A r \in Requests : req[r].stage \in Refreshing =>
         /\ req[r].src \in shown
         /\ tok[req[r].src] # None => tok[req[r].src].session = req[r].session

\* Whoever finds a token claimed, or is not alone with one, presents it again.
CameBack ==
    /\ \A r \in Requests : req[r].stage \in Refreshing =>
         /\ req[r].rotated => Reused(r)
         /\ tok[req[r].src] # None /\ tok[req[r].src].rotated => Reused(r)
    /\ \A r, q \in Requests :
         /\ r # q /\ req[r].stage \in Refreshing /\ req[q].stage \in Refreshing
         /\ req[r].src = req[q].src
         => Reused(r)

\* So does whoever lost a claim; a marker is put for that, or for age.
CauseFirst ==
    /\ \A r \in Requests : At(r, "lost") => Reused(r)
    /\ \A r \in Requests : At(r, "put_marker") =>
         Reused(r) \/ now >= SessionEnd(req[r].session)

Causes == ShownFirst /\ CameBack /\ CauseFirst /\ RevokedForCause

RInv == Redemption /\ Causes

LEMMA RInitInv == Init => RInv
  <1> SUFFICES ASSUME Init PROVE RInv
    OBVIOUS
  <1>1. \A r \in Requests : req[r] = Idle
    BY DEF Init
  <1>2. \A t \in Tokens : tok[t] = None /\ parent[t] = None
    BY DEF Init
  <1>3. Redemption
    BY <1>1, <1>2 DEF Redemption, SourcesKnown, SpentFirst, OneWinner, IssuedSoFar, OneOfAKind,
                      Idle, Redeeming, Refreshing, Issuing
  <1>4. Causes
    BY <1>1, <1>2 DEF Init, Causes, ShownFirst, CameBack, CauseFirst, RevokedForCause,
                      Idle, Refreshing, At
  <1> QED BY <1>3, <1>4 DEF RInv

\* What a request holds of the secret it presented.
SameSource(r) ==
    /\ req'[r].src = req[r].src
    /\ req'[r].session = req[r].session
    /\ req'[r].rotated = req[r].rotated

LEMMA MoveKeepsSource ==
    ASSUME TypeOK, NEW r \in Requests, NEW stage
    PROVE  GoTo(r, stage) \/ GoToNow(r, stage) => SameSource(r)
  <1>1. req \in [Requests -> Locals]
    BY DEF TypeOK
  <1> QED BY <1>1 DEF GoTo, GoToNow, SameSource, Locals

\* A step that neither issues nor claims, nor reads a secret to be redeemed.
LEMMA MoveRedeemsNothing ==
    ASSUME IInv, RInv, NEW r \in Requests, OthersKept(r),
           UNCHANGED <<now, code, parent, shown, reused, start>>,
           \A t \in Tokens : tok'[t] # None => tok'[t] = tok[t],
           \A f \in revoked' : f \in revoked \/ f \in reused \/ now >= start[f] + SessionMax,
           \/ req'[r].stage \notin Redeeming \cup Refreshing \cup {"lost", "put_marker"}
           \/ /\ SameSource(r)
              /\ req'[r].stage \in Refreshing => req[r].stage \in Refreshing
              /\ req'[r].stage \in Redeeming => req'[r].stage = "put_access" /\ req[r].stage = "won"
              /\ req'[r].stage = "lost" => Reused(r)
              /\ req'[r].stage = "put_marker" => Reused(r) \/ now >= SessionEnd(req[r].session)
    PROVE  RInv'
  <1>a. /\ SourcesKnown /\ SpentFirst /\ OneWinner /\ IssuedSoFar /\ OneOfAKind
        /\ ShownFirst /\ CameBack /\ CauseFirst /\ RevokedForCause
    BY DEF RInv, Redemption, Causes
  <1>b. \A q \in Requests \ {r} : req'[q] = req[q]
    BY DEF OthersKept
  <1>c. \A s : Spent(s) => Spent(s)'
    BY DEF Spent
  <1>1. SourcesKnown'
    BY <1>a, <1>b DEF SourcesKnown, SameSource, Redeeming, Refreshing
  <1>2. SpentFirst'
    BY <1>a, <1>b, <1>c DEF SpentFirst, SameSource, Redeeming
  <1>3. OneWinner'
    BY <1>a, <1>b DEF OneWinner, SameSource, Redeeming
  <1>4. IssuedSoFar'
    BY <1>a, <1>b DEF IssuedSoFar, SameSource, Redeeming, Issuing, At
  <1>5. OneOfAKind'
    BY <1>a DEF OneOfAKind
  <1>d. ASSUME NEW q \in Requests, req'[q].stage \in Refreshing
        PROVE  /\ req[q].stage \in Refreshing /\ SameSource(q) /\ req[q].src \in Tokens
               /\ tok'[req[q].src] # None => tok'[req[q].src] = tok[req[q].src]
               /\ Reused(q)' = Reused(q)
    <2>1. req[q].stage \in Refreshing /\ SameSource(q)
      BY <1>b, <1>d DEF SameSource
    <2> QED BY <2>1, <1>a DEF SourcesKnown, SameSource, Reused
  <1>6. ShownFirst'
    <2>1. ASSUME NEW t \in Tokens, tok'[t] # None /\ tok'[t].rotated PROVE t \in shown'
      BY <2>1, <1>a DEF ShownFirst
    <2>2. ASSUME NEW q \in Requests, req'[q].stage \in Refreshing
          PROVE  /\ req'[q].src \in shown'
                 /\ tok'[req'[q].src] # None => tok'[req'[q].src].session = req'[q].session
      BY <2>2, <1>a, <1>d DEF ShownFirst, SameSource
    <2> QED BY <2>1, <2>2 DEF ShownFirst
  <1>7. CameBack'
    <2>1. ASSUME NEW q \in Requests, req'[q].stage \in Refreshing
          PROVE  /\ req'[q].rotated => Reused(q)'
                 /\ tok'[req'[q].src] # None /\ tok'[req'[q].src].rotated => Reused(q)'
      BY <2>1, <1>a, <1>d DEF CameBack, SameSource
    <2>2. ASSUME NEW q \in Requests, NEW p \in Requests, q # p,
                 req'[q].stage \in Refreshing, req'[p].stage \in Refreshing,
                 req'[q].src = req'[p].src
          PROVE  Reused(q)'
      <3>1. req[q].stage \in Refreshing /\ SameSource(q) /\ Reused(q)' = Reused(q)
        BY <1>d, <2>2
      <3>2. req[p].stage \in Refreshing /\ SameSource(p)
        BY <1>d, <2>2
      <3> QED BY <3>1, <3>2, <2>2, <1>a DEF CameBack, SameSource
    <2> QED BY <2>1, <2>2 DEF CameBack
  <1>8. CauseFirst'
    BY <1>a, <1>b DEF CauseFirst, SameSource, Reused, At, SessionEnd
  <1>9. RevokedForCause'
    BY <1>a DEF RevokedForCause
  <1> QED BY <1>1, <1>2, <1>3, <1>4, <1>5, <1>6, <1>7, <1>8, <1>9 DEF RInv, Redemption, Causes

\* What the steps below use of one redeemer and one token.
LEMMA Unspent ==
    ASSUME IInv, RInv, NEW s, s # None, ~Spent(s)
    PROVE  /\ \A q \in Requests : req[q].stage \in Redeeming => req[q].src # s
           /\ \A t \in Tokens : parent[t] # s
  BY DEF RInv, Redemption, SpentFirst

LEMMA TakeCodeStep ==
    ASSUME IInv, RInv, NEW r \in Requests, NEW c \in Codes, TakeCode(r, c)
    PROVE  RInv'
  <1>a. /\ SourcesKnown /\ SpentFirst /\ OneWinner /\ IssuedSoFar /\ OneOfAKind
        /\ ShownFirst /\ CameBack /\ CauseFirst /\ RevokedForCause
        /\ req \in [Requests -> Locals] /\ code \in [Codes -> [expiresAt : Nat] \cup {None}]
    BY DEF RInv, Redemption, Causes, IInv, TypeOK
  <1>b. /\ OthersKept(r) /\ req'[r].stage = "exchange" /\ req'[r].src = c
        /\ UNCHANGED <<now, tok, parent, shown, reused, start, revoked>>
        /\ code[c] # None /\ code' = [code EXCEPT ![c] = None]
    BY <1>a DEF TakeCode, OthersKept, Live, history
  <1>c. /\ \A q \in Requests : req[q].stage \in Redeeming => req[q].src # c
        /\ \A t \in Tokens : parent[t] # c
    BY <1>b, Unspent, FamiliesAssumption DEF Spent
  <1>d. Spent(c)' /\ \A s : Spent(s) => Spent(s)'
    BY <1>a, <1>b DEF Spent
  <1> USE DEF OthersKept
  <1>1. SourcesKnown'
    BY <1>a, <1>b DEF SourcesKnown, Refreshing
  <1>2. SpentFirst'
    BY <1>a, <1>b, <1>d DEF SpentFirst
  <1>3. OneWinner'
    BY <1>a, <1>b, <1>c DEF OneWinner
  <1>4. IssuedSoFar' /\ OneOfAKind'
    BY <1>a, <1>b, <1>c DEF IssuedSoFar, OneOfAKind, At
  <1>5. ShownFirst' /\ CameBack'
    BY <1>a, <1>b DEF ShownFirst, CameBack, Refreshing, Reused
  <1>6. CauseFirst' /\ RevokedForCause'
    BY <1>a, <1>b DEF CauseFirst, RevokedForCause, At, Reused, SessionEnd
  <1> QED BY <1>1, <1>2, <1>3, <1>4, <1>5, <1>6 DEF RInv, Redemption, Causes

LEMMA BeginFamilyStep ==
    ASSUME IInv, RInv, NEW r \in Requests, NEW f \in Families, BeginFamily(r, f)
    PROVE  RInv'
  <1>a. /\ SourcesKnown /\ SpentFirst /\ OneWinner /\ IssuedSoFar /\ OneOfAKind
        /\ ShownFirst /\ CameBack /\ CauseFirst /\ RevokedForCause
        /\ req \in [Requests -> Locals] /\ start \in [Families -> Nat \cup {None}]
        /\ revoked \subseteq Families
    BY DEF RInv, Redemption, Causes, IInv, TypeOK
  <1>b. /\ OthersKept(r) /\ req'[r].stage = "put_access" /\ req'[r].src = req[r].src
        /\ req[r].stage = "exchange"
        /\ UNCHANGED <<now, tok, code, parent, shown, reused, revoked>>
        /\ start[f] = None /\ start' = [start EXCEPT ![f] = now]
    <2> DEFINE s == [family |-> f, startedAt |-> now]
    <2>1. req' = [req EXCEPT ![r].stage = "put_access", ![r].at = now, ![r].session = s]
      BY DEF BeginFamily
    <2> HIDE DEF s
    <2> QED BY <1>a, <2>1 DEF BeginFamily, OthersKept, At, Locals
  <1>c. \A g \in revoked : start'[g] = start[g]
    BY <1>a, <1>b, FamiliesAssumption DEF IInv, MarkersLast
  <1>d. \A s : Spent(s) => Spent(s)'
    BY <1>b DEF Spent
  <1> USE DEF OthersKept
  <1>1. SourcesKnown'
    BY <1>a, <1>b DEF SourcesKnown, Refreshing
  <1>2. SpentFirst'
    BY <1>a, <1>b, <1>d DEF SpentFirst, Redeeming
  <1>3. OneWinner'
    BY <1>a, <1>b DEF OneWinner, Redeeming
  <1>4. IssuedSoFar' /\ OneOfAKind'
    BY <1>a, <1>b DEF IssuedSoFar, OneOfAKind, At
  <1>5. ShownFirst' /\ CameBack'
    BY <1>a, <1>b DEF ShownFirst, CameBack, Refreshing, Reused
  <1>6. CauseFirst' /\ RevokedForCause'
    BY <1>a, <1>b, <1>c DEF CauseFirst, RevokedForCause, At, Reused, SessionEnd
  <1> QED BY <1>1, <1>2, <1>3, <1>4, <1>5, <1>6 DEF RInv, Redemption, Causes

LEMMA PutStep ==
    ASSUME IInv, RInv, NEW r \in Requests, NEW t \in Tokens, PutAccess(r, t) \/ PutRefresh(r, t)
    PROVE  RInv'
  <1>a. /\ SourcesKnown /\ SpentFirst /\ OneWinner /\ IssuedSoFar /\ OneOfAKind
        /\ ShownFirst /\ CameBack /\ CauseFirst /\ RevokedForCause
        /\ req \in [Requests -> Locals] /\ tok \in [Tokens -> Records \cup {None}]
        /\ parent \in [Tokens -> Codes \cup Tokens \cup {None}]
    BY DEF RInv, Redemption, Causes, IInv, TypeOK
  <1> DEFINE s == req[r].src
             rec == tok'[t]
  <1>b. /\ OthersKept(r) /\ req'[r].src = s /\ parent[t] = None
        /\ UNCHANGED <<now, code, shown, reused, start, revoked>>
        /\ parent' = [parent EXCEPT ![t] = s]
        /\ ~rec.rotated
        /\ \A u \in Tokens \ {t} : tok'[u] = tok[u]
        /\ \/ /\ req[r].stage = "put_access" /\ req'[r].stage \in {"put_refresh", "respond"}
              /\ rec.kind = "access"
           \/ /\ req[r].stage = "put_refresh" /\ req'[r].stage = "respond"
              /\ rec.kind = "refresh"
    BY <1>a DEF PutAccess, PutRefresh, Put, OthersKept, At, Locals
  <1>c. req[r].stage \in Redeeming /\ req'[r].stage \in Redeeming
    BY <1>b DEF Redeeming, Issuing
  <1>d. s # None /\ s # t /\ Spent(s)
    BY <1>a, <1>b, <1>c, FamiliesAssumption DEF SpentFirst, Spent
  <1>e. tok[t] = None
    BY <1>a, <1>b DEF SourcesKnown
  <1>f. \A x : Spent(x) => Spent(x)'
    BY <1>a, <1>b, FamiliesAssumption DEF Spent
  <1>g. \A u \in Tokens : parent[u] # None => parent'[u] = parent[u] /\ tok'[u] = tok[u]
    BY <1>a, <1>b
  <1>h. parent'[t] = s
    BY <1>a, <1>b
  <1>i. \A q \in Requests \ {r} : req'[q] = req[q]
    BY <1>b DEF OthersKept
  <1>j. req'[r].stage \notin Refreshing /\ ~At(r, "lost")' /\ ~At(r, "put_marker")'
    BY <1>b DEF Refreshing, At
  <1>k. \A q \in Requests : req'[q].stage \in Refreshing =>
           /\ req[q].stage \in Refreshing /\ req'[q] = req[q]
           /\ tok'[req[q].src] = tok[req[q].src]
    BY <1>a, <1>g, <1>i, <1>j DEF SourcesKnown
  <1> HIDE DEF rec
  <1>1. SourcesKnown'
    <2>1. \A u \in Tokens : tok'[u] # None => parent'[u] # None
      BY <1>a, <1>b, <1>d, <1>g, <1>h DEF SourcesKnown
    <2>2. \A q \in Requests : req'[q].stage \in Refreshing =>
            req'[q].src \in Tokens /\ parent'[req'[q].src] # None
      BY <1>a, <1>g, <1>k DEF SourcesKnown
    <2> QED BY <2>1, <2>2 DEF SourcesKnown
  <1>2. SpentFirst'
    <2>1. ASSUME NEW q \in Requests, req'[q].stage \in Redeeming PROVE Spent(req[q].src)'
      BY <2>1, <1>a, <1>b, <1>c, <1>f, <1>i DEF SpentFirst
    <2>2. ASSUME NEW u \in Tokens, parent'[u] # None PROVE Spent(parent[u])'
      <3>1. CASE u = t
        BY <3>1, <1>d, <1>f, <1>h
      <3>2. CASE u # t
        BY <3>2, <2>2, <1>a, <1>b, <1>f DEF SpentFirst
      <3> QED BY <3>1, <3>2
    <2>3. \A q \in Requests : req'[q].stage \in Redeeming => Spent(req[q].src)'
      BY <2>1
    <2>4. \A u \in Tokens : parent'[u] # None => Spent(parent[u])'
      BY <2>2
    <2> QED BY <2>3, <2>4 DEF SpentFirst, Spent
  <1>3. OneWinner'
    BY <1>a, <1>b, <1>c, <1>i DEF OneWinner
  <1>4. IssuedSoFar'
    <2> SUFFICES ASSUME NEW q \in Requests, NEW u \in Tokens,
                        tok'[u] # None, parent'[u] = req'[q].src
                 PROVE  /\ req'[q].stage \notin {"exchange", "won", "put_access"}
                        /\ req'[q].stage = "put_refresh" => tok'[u].kind = "access"
      BY DEF IssuedSoFar, At
    <2>1. CASE q = r /\ u = t
      BY <2>1, <1>b DEF rec
    <2>2. CASE q = r /\ u # t
      BY <2>2, <1>a, <1>b DEF IssuedSoFar
    <2>3. CASE q # r /\ u = t
      <3>1. req[q].stage \notin Redeeming
        BY <2>3, <1>a, <1>c, <1>h, <1>i DEF OneWinner
      <3> QED BY <3>1, <2>3, <1>i DEF Redeeming, Issuing
    <2>4. CASE q # r /\ u # t
      BY <2>4, <1>a, <1>b, <1>i DEF IssuedSoFar, At
    <2> QED BY <2>1, <2>2, <2>3, <2>4
  <1>5. OneOfAKind'
    <2>1. ASSUME NEW u \in Tokens, u # t, tok[u] # None, parent[u] = s
          PROVE  tok[u].kind # rec.kind
      BY <2>1, <1>a, <1>b DEF IssuedSoFar, At
    <2> QED BY <2>1, <1>a, <1>b, <1>h DEF OneOfAKind, rec
  <1>6. ShownFirst'
    BY <1>a, <1>b, <1>k DEF ShownFirst, rec
  <1>7. CameBack'
    BY <1>a, <1>b, <1>k DEF CameBack, Reused
  <1>8. CauseFirst' /\ RevokedForCause'
    BY <1>a, <1>b, <1>i, <1>j DEF CauseFirst, RevokedForCause, At, Reused, SessionEnd
  <1> QED BY <1>1, <1>2, <1>3, <1>4, <1>5, <1>6, <1>7, <1>8 DEF RInv, Redemption, Causes

LEMMA GetRefreshStep ==
    ASSUME IInv, RInv, NEW r \in Requests, NEW t \in Tokens, GetRefresh(r, t)
    PROVE  RInv'
  <1>a. /\ SourcesKnown /\ SpentFirst /\ OneWinner /\ IssuedSoFar /\ OneOfAKind
        /\ ShownFirst /\ CameBack /\ CauseFirst /\ RevokedForCause
        /\ req \in [Requests -> Locals]
    BY DEF RInv, Redemption, Causes, IInv, TypeOK
  <1> DEFINE f == tok[t].session.family
  <1>b. /\ OthersKept(r)
        /\ req'[r].stage = "family" /\ req'[r].src = t
        /\ req'[r].session = tok[t].session /\ req'[r].rotated = tok[t].rotated
        /\ UNCHANGED <<now, code, tok, start, parent, revoked>>
        /\ tok[t] # None
        /\ shown' = shown \cup {t}
        /\ reused \subseteq reused'
        /\ t \in shown => f \in reused'
    BY <1>a DEF GetRefresh, Adopt, OthersKept, Live, Locals
  <1>c. \A s : Spent(s) => Spent(s)'
    BY <1>b DEF Spent
  <1> USE DEF OthersKept
  <1>1. SourcesKnown'
    BY <1>a, <1>b DEF SourcesKnown
  <1>2. SpentFirst'
    BY <1>a, <1>b, <1>c DEF SpentFirst, Redeeming, Issuing
  <1>3. OneWinner'
    BY <1>a, <1>b DEF OneWinner, Redeeming, Issuing
  <1>4. IssuedSoFar' /\ OneOfAKind'
    BY <1>a, <1>b DEF IssuedSoFar, OneOfAKind, At
  <1>5. ShownFirst'
    BY <1>a, <1>b DEF ShownFirst
  <1>6. CameBack'
    <2>1. ASSUME NEW q \in Requests, req'[q].stage \in Refreshing
          PROVE  /\ req'[q].rotated => Reused(q)'
                 /\ tok'[req'[q].src] # None /\ tok'[req'[q].src].rotated => Reused(q)'
      <3>1. CASE q = r
        BY <3>1, <1>a, <1>b DEF ShownFirst, Reused
      <3>2. CASE q # r
        BY <3>2, <2>1, <1>a, <1>b DEF CameBack, Reused
      <3> QED BY <3>1, <3>2
    <2>2. ASSUME NEW q \in Requests, q # r, req[q].stage \in Refreshing, req[q].src = t
          PROVE  f \in reused' /\ req[q].session.family = f
      BY <2>2, <1>a, <1>b DEF ShownFirst
    <2>3. ASSUME NEW q \in Requests, NEW p \in Requests, q # p,
                 req'[q].stage \in Refreshing, req'[p].stage \in Refreshing,
                 req'[q].src = req'[p].src
          PROVE  Reused(q)'
      <3>1. CASE q = r \/ p = r
        BY <3>1, <2>2, <2>3, <1>b DEF Reused
      <3>2. CASE q # r /\ p # r
        BY <3>2, <2>3, <1>a, <1>b DEF CameBack, Reused
      <3> QED BY <3>1, <3>2
    <2> QED BY <2>1, <2>3 DEF CameBack
  <1>7. CauseFirst' /\ RevokedForCause'
    BY <1>a, <1>b DEF CauseFirst, RevokedForCause, At, Reused, SessionEnd
  <1> QED BY <1>1, <1>2, <1>3, <1>4, <1>5, <1>6, <1>7 DEF RInv, Redemption, Causes

\* The claim that finds its token unclaimed.
LEMMA WonStep ==
    ASSUME IInv, RInv, NEW r \in Requests, NEW t, At(r, "claim"), req[r].src = t,
           tok[t] # None, ~tok[t].rotated, tok' = [tok EXCEPT ![t].rotated = TRUE],
           GoTo(r, "won"), UNCHANGED <<now, code, marker, known, history>>
    PROVE  RInv'
  <1>a. /\ SourcesKnown /\ SpentFirst /\ OneWinner /\ IssuedSoFar /\ OneOfAKind
        /\ ShownFirst /\ CameBack /\ CauseFirst /\ RevokedForCause
        /\ req \in [Requests -> Locals] /\ tok \in [Tokens -> Records \cup {None}]
    BY DEF RInv, Redemption, Causes, IInv, TypeOK
  <1>b. /\ OthersKept(r) /\ SameSource(r) /\ req'[r].stage = "won"
        /\ UNCHANGED <<now, code, parent, start, revoked, shown, reused>>
    BY <1>a, MoveEffects, MoveKeepsSource DEF IInv, history
  <1>c. t \in Tokens /\ parent[t] # None /\ t \in shown /\ req[r].stage \in Refreshing
    BY <1>a DEF SourcesKnown, ShownFirst, At, Refreshing
  <1>d. tok[t] \in Records
    BY <1>a, <1>c
  <1>e. /\ tok'[t].rotated
        /\ \A u \in Tokens \ {t} : tok'[u] = tok[u]
        /\ \A u \in Tokens : /\ tok'[u] # None => tok[u] # None
                             /\ tok'[u].kind = tok[u].kind
                             /\ tok'[u].session = tok[u].session
    <2>1. tok'[t] = [tok[t] EXCEPT !.rotated = TRUE] /\ \A u \in Tokens \ {t} : tok'[u] = tok[u]
      BY <1>a, <1>c
    <2>2. tok'[t] \in Records /\ tok'[t].rotated /\ tok'[t].kind = tok[t].kind
          /\ tok'[t].session = tok[t].session
      <3> DEFINE e == tok[t]
      <3>1. e \in Records /\ tok'[t] = [e EXCEPT !.rotated = TRUE]
        BY <2>1, <1>d
      <3> HIDE DEF e
      <3>2. /\ tok'[t] \in Records /\ tok'[t].rotated /\ tok'[t].kind = e.kind
            /\ tok'[t].session = e.session
        BY <3>1 DEF Records
      <3> QED BY <3>2 DEF e
    <2> QED BY <2>1, <2>2
  <1>f. /\ \A q \in Requests : req[q].stage \in Redeeming => req[q].src # t
        /\ \A u \in Tokens : parent[u] # t
    <2>1. t # None /\ ~Spent(t)
      BY <1>c, FamiliesAssumption DEF Spent
    <2> QED BY <2>1, Unspent
  <1>g. Spent(t)' /\ \A s : Spent(s) => Spent(s)'
    BY <1>b, <1>c, <1>e DEF Spent
  <1>h. \A q \in Requests \ {r} : req'[q] = req[q]
    BY <1>b DEF OthersKept
  <1> USE DEF SameSource
  <1>1. SourcesKnown'
    BY <1>a, <1>b, <1>e, <1>h DEF SourcesKnown, Refreshing
  <1>2. SpentFirst'
    <2>1. \A q \in Requests : req'[q].stage \in Redeeming => Spent(req[q].src)'
      BY <1>a, <1>b, <1>g, <1>h DEF SpentFirst
    <2>2. \A u \in Tokens : parent'[u] # None => Spent(parent[u])'
      BY <1>a, <1>b, <1>g DEF SpentFirst
    <2> QED BY <2>1, <2>2 DEF SpentFirst, Spent
  <1>3. OneWinner'
    BY <1>a, <1>b, <1>f, <1>h DEF OneWinner
  <1>4. IssuedSoFar'
    BY <1>a, <1>b, <1>e, <1>f, <1>h DEF IssuedSoFar, At
  <1>5. OneOfAKind'
    BY <1>a, <1>b, <1>e DEF OneOfAKind
  <1>6. ShownFirst'
    BY <1>a, <1>b, <1>c, <1>e, <1>h DEF ShownFirst, SourcesKnown, Refreshing
  <1>7. CameBack'
    <2>1. \A q \in Requests \ {r} : req[q].stage \in Refreshing /\ req[q].src = t => Reused(q)
      BY <1>a, <1>c DEF CameBack
    <2> QED BY <2>1, <1>a, <1>b, <1>e, <1>h DEF CameBack, Reused, SourcesKnown, Refreshing
  <1>8. CauseFirst' /\ RevokedForCause'
    BY <1>a, <1>b, <1>h DEF CauseFirst, RevokedForCause, At, Reused, SessionEnd
  <1> QED BY <1>1, <1>2, <1>3, <1>4, <1>5, <1>6, <1>7, <1>8 DEF RInv, Redemption, Causes

LEMMA RStep == IInv /\ RInv /\ [Next]_vars => RInv'
  <1> SUFFICES ASSUME IInv, RInv, [Next]_vars PROVE RInv'
    OBVIOUS
  <1>a. /\ SourcesKnown /\ SpentFirst /\ OneWinner /\ IssuedSoFar /\ OneOfAKind
        /\ ShownFirst /\ CameBack /\ CauseFirst /\ RevokedForCause
        /\ TypeOK /\ SessionsAgree /\ MarkersLast
        /\ req \in [Requests -> Locals] /\ now \in Nat /\ revoked \subseteq Families
    BY DEF RInv, Redemption, Causes, IInv, TypeOK
  <1>b. \A f \in revoked : f \in reused \/ now >= start[f] + SessionMax
    BY <1>a DEF RevokedForCause
  <1>1. CASE UNCHANGED vars
    <2> USE <1>1, <1>a DEF vars, history
    <2>1. Redemption'
      BY DEF Redemption, SourcesKnown, SpentFirst, Spent, OneWinner, IssuedSoFar, OneOfAKind, At
    <2>2. Causes'
      BY DEF Causes, ShownFirst, CameBack, CauseFirst, RevokedForCause, Reused, At, SessionEnd
    <2> QED BY <2>1, <2>2 DEF RInv
  <1>2. CASE Tick
    <2>1. UNCHANGED <<code, tok, req, history>> /\ now' = now + 1
      BY <1>2 DEF Tick
    <2>2. Redemption'
      BY <2>1, <1>a DEF Redemption, SourcesKnown, SpentFirst, Spent, OneWinner, IssuedSoFar,
                        OneOfAKind, At, history
    <2>3. ShownFirst' /\ CameBack'
      BY <2>1, <1>a DEF ShownFirst, CameBack, Reused, history
    <2>4. CauseFirst'
      <3>1. ASSUME NEW r \in Requests, At(r, "put_marker"), ~Reused(r)
            PROVE  now' >= SessionEnd(req[r].session)
        <4>1. now >= SessionEnd(req[r].session) /\ req[r].session \in Sessions
          BY <3>1, <1>a DEF CauseFirst, SessionsAgree, Holds, At
        <4> QED BY <4>1, <2>1, <1>a, FamiliesAssumption DEF SessionEnd, Sessions
      <3> QED BY <3>1, <2>1, <1>a DEF CauseFirst, Reused, At, SessionEnd, history
    <2>5. RevokedForCause'
      <3>1. ASSUME NEW f \in revoked, f \notin reused PROVE now' >= start[f] + SessionMax
        <4>1. now >= start[f] + SessionMax /\ start[f] \in Nat
          BY <3>1, <1>a DEF RevokedForCause, MarkersLast
        <4> QED BY <4>1, <2>1, <1>a, FamiliesAssumption
      <3> QED BY <3>1, <2>1 DEF RevokedForCause, history
    <2> QED BY <2>2, <2>3, <2>4, <2>5 DEF RInv, Causes
  <1>3. ASSUME NEW r \in Requests, NEW c \in Codes, TakeCode(r, c) PROVE RInv'
    BY <1>3, TakeCodeStep
  <1>4. ASSUME NEW r \in Requests, NEW f \in Families, BeginFamily(r, f) PROVE RInv'
    BY <1>4, BeginFamilyStep
  <1>5. ASSUME NEW r \in Requests, NEW t \in Tokens, PutAccess(r, t) \/ PutRefresh(r, t)
        PROVE  RInv'
    BY <1>5, PutStep
  <1>6. ASSUME NEW r \in Requests, Respond(r) \/ Leave(r) PROVE RInv'
    <2>1. /\ OthersKept(r) /\ req'[r].stage = "idle"
          /\ UNCHANGED <<now, code, tok, parent, shown, reused, start, revoked>>
      BY <1>6, <1>a, MoveEffects DEF Respond, Leave, history
    <2> QED BY <2>1, <1>b, MoveRedeemsNothing DEF Redeeming, Refreshing, Issuing
  <1>7. ASSUME NEW r \in Requests, NEW t \in Tokens, GetRefresh(r, t) PROVE RInv'
    BY <1>7, GetRefreshStep
  <1>8. ASSUME NEW r \in Requests, NEW t \in Tokens, GetAccess(r, t) PROVE RInv'
    <2>1. /\ OthersKept(r) /\ req'[r].stage = "verify"
          /\ UNCHANGED <<now, code, tok, parent, shown, reused, start, revoked>>
      BY <1>8, <1>a DEF GetAccess, Adopt, OthersKept, Locals, history
    <2> QED BY <2>1, <1>b, MoveRedeemsNothing DEF Redeeming, Refreshing, Issuing
  <1>9. ASSUME NEW r \in Requests,
               \/ CheckAccess(r)
               \/ ReadFamily(r, "family", "check")
               \/ ReadFamily(r, "verify_family", "accepted")
        PROVE  RInv'
    <2>1. UNCHANGED <<now, code, tok, parent, shown, reused, start, revoked>>
      BY <1>9 DEF CheckAccess, ReadFamily, history
    <2>2. /\ OthersKept(r)
          /\ \/ req'[r].stage \in {"idle", "verify_family", "accepted"}
             \/ req'[r].stage = "check" /\ SameSource(r) /\ req[r].stage = "family"
      BY <1>9, <1>a, MoveEffects, MoveKeepsSource DEF CheckAccess, ReadFamily, At
    <2> QED BY <2>1, <2>2, <1>b, MoveRedeemsNothing DEF Redeeming, Refreshing, Issuing
  <1>10. ASSUME NEW r \in Requests, CheckRefresh(r) PROVE RInv'
    <2>1. UNCHANGED <<now, code, tok, parent, shown, reused, start, revoked>>
      BY <1>10 DEF CheckRefresh, history
    <2>2. CASE GoToNow(r, "put_marker") /\ (req[r].rotated \/ TooOld(r))
      <3>1. Reused(r) \/ now >= SessionEnd(req[r].session)
        <4>1. req[r].session \in Sessions
          BY <1>10, <1>a DEF CheckRefresh, At, SessionsAgree, Holds
        <4>2. CASE req[r].rotated
          BY <4>2, <1>10, <1>a DEF CheckRefresh, At, CameBack, Refreshing
        <4>3. CASE TooOld(r)
          BY <4>1, <4>3, <1>a, FamiliesAssumption DEF TooOld, SessionEnd, Sessions
        <4> QED BY <2>2, <4>2, <4>3
      <3>2. OthersKept(r) /\ SameSource(r) /\ req'[r].stage = "put_marker"
        BY <2>2, <1>a, MoveEffects, MoveKeepsSource
      <3> QED BY <2>1, <3>1, <3>2, <1>b, MoveRedeemsNothing DEF Redeeming, Refreshing, Issuing
    <2>3. CASE GoTo(r, "claim")
      <3>1. OthersKept(r) /\ SameSource(r) /\ req'[r].stage = "claim" /\ req[r].stage = "check"
        BY <2>3, <1>10, <1>a, MoveEffects, MoveKeepsSource DEF CheckRefresh, At
      <3> QED BY <2>1, <3>1, <1>b, MoveRedeemsNothing DEF Redeeming, Refreshing, Issuing
    <2> QED BY <1>10, <2>2, <2>3 DEF CheckRefresh
  <1>11. ASSUME NEW r \in Requests, ClaimRefresh(r) PROVE RInv'
    <2>1. /\ At(r, "claim") /\ req[r].stage \in Refreshing
          /\ UNCHANGED <<now, code, marker, known, history>>
      BY <1>11 DEF ClaimRefresh, At, Refreshing
    <2>2. CASE UNCHANGED tok /\ End(r)
      <3>1. OthersKept(r) /\ req'[r].stage = "idle"
        BY <2>2, <1>a, MoveEffects
      <3> QED BY <2>1, <2>2, <3>1, <1>b, MoveRedeemsNothing
              DEF Redeeming, Refreshing, Issuing, history
    <2>3. CASE /\ UNCHANGED tok /\ GoTo(r, "lost")
               /\ Live(tok[req[r].src]) /\ tok[req[r].src].rotated
      <3>1. OthersKept(r) /\ SameSource(r) /\ req'[r].stage = "lost"
        BY <2>3, <1>a, MoveEffects, MoveKeepsSource
      <3>2. Reused(r)
        BY <2>1, <2>3, <1>a DEF CameBack, Live
      <3> QED BY <2>1, <2>3, <3>1, <3>2, <1>b, MoveRedeemsNothing
              DEF Redeeming, Refreshing, Issuing, history
    <2>4. CASE /\ tok' = [tok EXCEPT ![req[r].src].rotated = TRUE] /\ GoTo(r, "won")
               /\ Live(tok[req[r].src]) /\ ~tok[req[r].src].rotated
      BY <2>1, <2>4, WonStep DEF Live
    <2> QED BY <1>11, <2>2, <2>3, <2>4 DEF ClaimRefresh
  <1>12. ASSUME NEW r \in Requests, AfterClaim(r) PROVE RInv'
    <2>1. UNCHANGED <<now, code, tok, parent, shown, reused, start, revoked>>
      BY <1>12 DEF AfterClaim, history
    <2>2. /\ OthersKept(r) /\ SameSource(r)
          /\ \/ req[r].stage = "won" /\ req'[r].stage = "put_access"
             \/ Reused(r) /\ req'[r].stage = "put_marker"
      BY <1>12, <1>a, MoveEffects, MoveKeepsSource DEF AfterClaim, At, CauseFirst
    <2> QED BY <2>1, <2>2, <1>b, MoveRedeemsNothing DEF Redeeming, Refreshing, Issuing
  <1>13. ASSUME NEW r \in Requests, PutMarker(r) PROVE RInv'
    <2> DEFINE f == req[r].session.family
    <2>1. /\ UNCHANGED <<now, code, tok, parent, shown, reused, start>>
          /\ revoked' = revoked \cup {f}
          /\ OthersKept(r) /\ req'[r].stage = "delete_access"
      BY <1>13, <1>a, MoveEffects DEF PutMarker
    <2>2. f \in reused \/ now >= start[f] + SessionMax
      BY <1>13, <1>a DEF PutMarker, CauseFirst, Reused, SessionsAgree, Holds, At, SessionEnd
    <2>3. \A g \in revoked' : g \in revoked \/ g \in reused \/ now >= start[g] + SessionMax
      BY <2>1, <2>2
    <2> QED BY <2>1, <2>3, MoveRedeemsNothing DEF Redeeming, Refreshing, Issuing
  <1>14. ASSUME NEW r \in Requests, Revoke(r), ~PutMarker(r) PROVE RInv'
    <2>1. /\ UNCHANGED <<now, code, parent, shown, reused, start, revoked>>
          /\ GoTo(r, "delete_refresh") \/ GoTo(r, "denied")
          /\ \A t \in Tokens : tok'[t] # None => tok'[t] = tok[t]
      BY <1>14 DEF Revoke, DeleteMatching, history
    <2>2. OthersKept(r) /\ req'[r].stage \in {"delete_refresh", "denied"}
      BY <2>1, <1>a, MoveEffects
    <2> QED BY <2>1, <2>2, <1>b, MoveRedeemsNothing DEF Redeeming, Refreshing, Issuing
  <1> QED
    BY <1>1, <1>2, <1>3, <1>4, <1>5, <1>6, <1>7, <1>8, <1>9, <1>10, <1>11, <1>12, <1>13, <1>14
    DEF Next, Exchange, Issue, Refresh, Verify, Revoke

\* Whoever is past its exchange or claim is the only one with that secret.
LEMMA RInvImplies == RInv => RotationIsExact
  <1> SUFFICES ASSUME RInv PROVE SingleUse /\ RevokedForCause
    BY DEF RotationIsExact
  <1>1. Issuing \subseteq Redeeming
    BY DEF Redeeming
  <1>2. SingleUse
    BY <1>1 DEF RInv, Redemption, OneWinner, OneOfAKind, SingleUse
  <1>3. RevokedForCause
    BY DEF RInv, Causes
  <1> QED BY <1>2, <1>3

-----------------------------------------------------------------------------
\* Type correctness: records and request locals keep their shape.
THEOREM TypeCorrect == Spec => []TypeOK
  <1>1. IInv => TypeOK
    BY DEF IInv
  <1> QED BY InductiveInvariant, <1>1, PTL

\* A revocation marker outlives every token of its family, those a concurrent
\* refresh stores after revokeFamily's deletes included.
THEOREM MarkerOutlivesTokensHolds == Spec => []MarkerOutlivesTokens
  <1>1. IInv => MarkerOutlivesTokens
    BY InvImplies
  <1> QED BY InductiveInvariant, <1>1, PTL

\* refreshTokenGrant never spends or issues a token for a request that began
\* after its family was revoked.
THEOREM NoIssueAfterRevocationHolds == Spec => []NoIssueAfterRevocation
  <1>1. IInv => NoIssueAfterRevocation
    BY InvImplies
  <1> QED BY InductiveInvariant, <1>1, PTL

\* verifyAccessToken accepts a token of a family revoked before the check began
\* only past the end of the session.
THEOREM LateAcceptHolds == Spec => []LateAcceptOnlyPastEnd
  <1>1. IInv => LateAcceptOnlyPastEnd
    BY InvImplies
  <1> QED BY InductiveInvariant, <1>1, PTL

\* Once a family is revoked, nothing is issued in it, nothing of it is accepted
\* before its session ends, and its marker outlives its tokens.
THEOREM RevocationIsFinalHolds == Spec => []RevocationIsFinal
  <1>1. NoIssueAfterRevocation /\ LateAcceptOnlyPastEnd /\ MarkerOutlivesTokens
          => RevocationIsFinal
    BY DEF RevocationIsFinal
  <1> QED BY NoIssueAfterRevocationHolds, LateAcceptHolds, MarkerOutlivesTokensHolds, <1>1, PTL

\* A caller told that its refresh token was reused has no live family left.
THEOREM ReuseKillsFamilyHolds == Spec => []ReuseKillsFamily
  <1>1. IInv => ReuseKillsFamily
    BY InvImplies
  <1> QED BY InductiveInvariant, <1>1, PTL

\* No chain of rotations outlives the maximum age of the sign-in.
THEOREM SessionsDoNotSlideHolds == Spec => []SessionsDoNotSlide
  <1>1. IInv => SessionsDoNotSlide
    BY InvImplies
  <1> QED BY InductiveInvariant, <1>1, PTL

\* Of all who present a code or a refresh token at most one is ever given tokens
\* for it, and one pair at most; and a family is revoked only after one of its
\* tokens came back or its session reached the maximum age.
THEOREM RotationIsExactHolds == Spec => []RotationIsExact
  <1>1. Init => IInv /\ RInv
    BY InitInv, RInitInv
  <1>2. (IInv /\ RInv) /\ [Next]_vars => (IInv /\ RInv)'
    BY InvStep, RStep
  <1>3. IInv /\ RInv => RotationIsExact
    BY RInvImplies
  <1> QED BY <1>1, <1>2, <1>3, PTL DEF Spec
=============================================================================
