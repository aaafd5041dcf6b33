---------------------------- MODULE TokenFamilies ----------------------------
(***************************************************************************)
(* The token endpoint and the bearer check of the hosted authorization     *)
(* server (src/src/hosted/oauth.ts): codes are exchanged for a token       *)
(* family, refresh tokens rotate, a reused refresh token revokes its       *)
(* family, and every MCP call verifies its access token.                   *)
(*                                                                         *)
(* A request is a sequence of store operations with awaits between them.   *)
(* Every store operation is one action (it is atomic on the map of one     *)
(* Node process and in a Durable Object) and so is every stretch of local  *)
(* code between two of them that reads the clock or branches.  Requests    *)
(* interleave at those points.                                             *)
(*                                                                         *)
(* Client, resource, redirect URI and PKCE verifier are abstracted to      *)
(* whether the check on them passes.  Expired records are hidden by Live,  *)
(* as the store's reads do; when they are purged cannot be observed.       *)
(***************************************************************************)
EXTENDS Integers

CONSTANTS
    Requests,    \* requests in flight at once
    Codes,       \* authorization codes the sign-in issued
    Families,    \* family ids
    Tokens,      \* access and refresh token secrets
    None,        \* no record in a store map, nothing held by a request
    CodeTtl,     \* life of a code
    AccessTtl,   \* accessTtlMs
    RefreshTtl,  \* refreshTtlMs
    SessionMax,  \* sessionMaxAgeMs
    Slack,       \* the minute a revocation marker lives at least
    MaxTime      \* bound of the model's clock

ASSUME FamiliesAssumption ==
    /\ {CodeTtl, AccessTtl, RefreshTtl, SessionMax, Slack, MaxTime} \subseteq Nat
    /\ None \notin Tokens \cup Codes \cup Nat
    /\ Codes \cap Tokens = {}

VARIABLES
    now,      \* the clock every component reads
    code,     \* store kind "code"
    tok,      \* store kinds "access" and "refresh"
    marker,   \* store kind "revoked_family": its expiry, 0 when there is none
    req,      \* the requests in flight
    known,    \* tokens some client received
    (* history *)
    start,    \* when each family began
    parent,   \* what each token was issued in exchange for
    revoked,  \* families whose marker was ever written
    shown,    \* refresh tokens presented while live
    reused    \* families one of whose refresh tokens was presented again

history == <<start, parent, revoked, shown, reused>>
vars    == <<now, code, tok, marker, req, known, history>>

NoSession == [family |-> None, startedAt |-> 0]
Sessions  == [family : Families, startedAt : Nat]
Records   == [kind : {"access", "refresh"}, session : Sessions,
              expiresAt : Nat, rotated : BOOLEAN]

Stages == {"idle", "exchange", "family", "check", "claim", "won", "lost",
           "put_access", "put_refresh", "respond",
           "put_marker", "delete_access", "delete_refresh", "denied",
           "verify", "verify_family", "accepted"}

\* What a request holds across its awaits: the secret presented, the record
\* read, the clock reading (or, in a bearer check, the expiry) it goes on with
\* and the tokens it stored.  late is history: the family was revoked already
\* when the request read its record.
Locals == [stage : Stages, src : Codes \cup Tokens \cup {None},
           session : Sessions \cup {NoSession}, rotated : BOOLEAN,
           at : Nat, made : SUBSET Tokens, late : BOOLEAN]
Idle   == [stage |-> "idle", src |-> None, session |-> NoSession,
           rotated |-> FALSE, at |-> 0, made |-> {}, late |-> FALSE]

SmallerOf(a, b) == IF a < b THEN a ELSE b
LargerOf(a, b)  == IF a > b THEN a ELSE b

\* Mutant: the maximum age subtracted.
SessionEndBackwards(s) == s.startedAt - SessionMax

SessionEnd(s) == s.startedAt + SessionMax
Live(e)       == e # None /\ e.expiresAt > now
MarkerLive(f) == marker[f] > now

-----------------------------------------------------------------------------
Init ==
    /\ now = 0
    /\ code = [c \in Codes |-> [expiresAt |-> CodeTtl]]
    /\ tok = [t \in Tokens |-> None]
    /\ marker = [f \in Families |-> 0]
    /\ req = [r \in Requests |-> Idle]
    /\ known = {}
    /\ start = [f \in Families |-> None]
    /\ parent = [t \in Tokens |-> None]
    /\ revoked = {}
    /\ shown = {}
    /\ reused = {}

Tick ==
    /\ now < MaxTime
    /\ now' = now + 1
    /\ UNCHANGED <<code, tok, marker, req, known, history>>

At(r, stage)   == req[r].stage = stage
GoTo(r, stage) == req' = [req EXCEPT ![r].stage = stage]
End(r)         == req' = [req EXCEPT ![r] = Idle]

\* To the next stage with a reading of the clock.
GoToNow(r, stage) == req' = [req EXCEPT ![r].stage = stage, ![r].at = now]

-----------------------------------------------------------------------------
(* grant_type=authorization_code *)

\* The code is removed before any other check.
TakeCode(r, c) ==
    /\ At(r, "idle")
    /\ Live(code[c])
    /\ code' = [code EXCEPT ![c] = None]
    /\ req' = [req EXCEPT ![r].stage = "exchange", ![r].src = c]
    /\ UNCHANGED <<now, tok, marker, known, history>>

BeginFamily(r, f) ==
    /\ At(r, "exchange")
    /\ start[f] = None
    /\ start' = [start EXCEPT ![f] = now]
    /\ req' = [req EXCEPT ![r].stage = "put_access", ![r].at = now,
                          ![r].session = [family |-> f, startedAt |-> now]]
    /\ UNCHANGED <<now, code, tok, marker, known, parent, revoked, shown, reused>>

-----------------------------------------------------------------------------
(* issueTokens: both expiries come from one clock reading before the puts *)

\* Mutant: not capped at the end of the session.
ExpiryUncapped(r, ttl) == req[r].at + ttl

Expiry(r, ttl) == SmallerOf(req[r].at + ttl, SessionEnd(req[r].session))

Put(r, t, kind, ttl, stage) ==
    /\ parent[t] = None
    /\ parent' = [parent EXCEPT ![t] = req[r].src]
    /\ tok' = [tok EXCEPT ![t] = [kind |-> kind, session |-> req[r].session,
                                 expiresAt |-> Expiry(r, ttl), rotated |-> FALSE]]
    /\ req' = [req EXCEPT ![r].stage = stage, ![r].made = @ \cup {t}]
    /\ UNCHANGED <<now, code, marker, known, start, revoked, shown, reused>>

\* A client registered without the refresh_token grant gets no refresh token.
PutAccess(r, t) ==
    /\ At(r, "put_access")
    /\ \E stage \in {"put_refresh", "respond"} : Put(r, t, "access", AccessTtl, stage)

PutRefresh(r, t) ==
    /\ At(r, "put_refresh")
    /\ Put(r, t, "refresh", RefreshTtl, "respond")

Respond(r) ==
    /\ At(r, "respond")
    /\ known' = known \cup req[r].made
    /\ End(r)
    /\ UNCHANGED <<now, code, tok, marker, history>>

-----------------------------------------------------------------------------
(* The two lookups: a refresh grant and a bearer check read their record *)

Adopt(r, t, stage, held) ==
    req' = [req EXCEPT ![r] =
              [@ EXCEPT !.stage = stage, !.src = t, !.session = tok[t].session,
                        !.rotated = tok[t].rotated, !.at = held,
                        !.late = tok[t].session.family \in revoked]]

GetRefresh(r, t) ==
    /\ At(r, "idle")
    /\ t \in known /\ Live(tok[t]) /\ tok[t].kind = "refresh"
    /\ Adopt(r, t, "family", 0)
    /\ shown' = shown \cup {t}
    /\ reused' = IF t \in shown THEN reused \cup {tok[t].session.family} ELSE reused
    /\ UNCHANGED <<now, code, tok, marker, known, start, parent, revoked>>

GetAccess(r, t) ==
    /\ At(r, "idle")
    /\ t \in known /\ Live(tok[t]) /\ tok[t].kind = "access"
    /\ Adopt(r, t, "verify", tok[t].expiresAt)
    /\ UNCHANGED <<now, code, tok, marker, known, history>>

\* verifyAccessToken compares the expiry with the clock again.
CheckAccess(r) ==
    /\ At(r, "verify")
    /\ IF req[r].at <= now THEN End(r) ELSE GoTo(r, "verify_family")
    /\ UNCHANGED <<now, code, tok, marker, known, history>>

\* Mutant: the marker is not looked at.
ReadFamilyUnchecked(r, from, to) ==
    /\ At(r, from)
    /\ GoTo(r, to)
    /\ UNCHANGED <<now, code, tok, marker, known, history>>

\* familyRevoked, for a refresh grant and for a bearer check.
ReadFamily(r, from, to) ==
    /\ At(r, from)
    /\ IF MarkerLive(req[r].session.family) THEN End(r) ELSE GoTo(r, to)
    /\ UNCHANGED <<now, code, tok, marker, known, history>>

-----------------------------------------------------------------------------
(* grant_type=refresh_token, after its reads *)

TooOld(r) == now - req[r].session.startedAt >= SessionMax

\* Mutant: the session's age compared with the life of an access token.
CheckRefreshShort(r) ==
    /\ At(r, "check")
    /\ IF req[r].rotated \/ now - req[r].session.startedAt >= AccessTtl
       THEN GoToNow(r, "put_marker") ELSE GoTo(r, "claim")
    /\ UNCHANGED <<now, code, tok, marker, known, history>>

\* Every check that can refuse the request runs before the token is spent.
CheckRefresh(r) ==
    /\ At(r, "check")
    /\ IF req[r].rotated \/ TooOld(r)
       THEN GoToNow(r, "put_marker") ELSE GoTo(r, "claim")
    /\ UNCHANGED <<now, code, tok, marker, known, history>>

\* Mutant: whether the flag was set before is not reported.
ClaimRefreshBlind(r) ==
    LET t == req[r].src
    IN  /\ At(r, "claim")
        /\ Live(tok[t])
        /\ tok' = [tok EXCEPT ![t].rotated = TRUE]
        /\ GoTo(r, "won")
        /\ UNCHANGED <<now, code, marker, known, history>>

ClaimRefresh(r) ==
    LET t == req[r].src
    IN  /\ At(r, "claim")
        /\ \/ ~Live(tok[t]) /\ End(r) /\ UNCHANGED tok
           \/ Live(tok[t]) /\ tok[t].rotated /\ GoTo(r, "lost") /\ UNCHANGED tok
           \/ /\ Live(tok[t]) /\ ~tok[t].rotated
              /\ tok' = [tok EXCEPT ![t].rotated = TRUE]
              /\ GoTo(r, "won")
        /\ UNCHANGED <<now, code, marker, known, history>>

\* Mutant: a lost claim deletes the family's tokens but writes no marker.
AfterClaimUnmarked(r) ==
    /\ \/ At(r, "won")  /\ GoToNow(r, "put_access")
       \/ At(r, "lost") /\ GoToNow(r, "delete_access")
    /\ UNCHANGED <<now, code, tok, marker, known, history>>

\* The winner issues tokens of the same family; a token that was claimed
\* before is treated as leaked (refreshReused).
AfterClaim(r) ==
    /\ \/ At(r, "won")  /\ GoToNow(r, "put_access")
       \/ At(r, "lost") /\ GoToNow(r, "put_marker")
    /\ UNCHANGED <<now, code, tok, marker, known, history>>

-----------------------------------------------------------------------------
(* revokeFamily: the marker first, then the family's tokens *)

\* Mutant: the marker lives only the minimum.
MarkerExpiryBrief(r) == req[r].at + Slack

MarkerExpiry(r) == LargerOf(SessionEnd(req[r].session), req[r].at + Slack)

PutMarker(r) ==
    LET f == req[r].session.family
    IN  /\ At(r, "put_marker")
        /\ marker' = [marker EXCEPT ![f] = MarkerExpiry(r)]
        /\ revoked' = revoked \cup {f}
        /\ GoTo(r, "delete_access")
        /\ UNCHANGED <<now, code, tok, known, start, parent, shown, reused>>

DeleteMatching(r, from, kind, to) ==
    /\ At(r, from)
    /\ tok' = [t \in Tokens |->
                 IF /\ tok[t] # None
                    /\ tok[t].kind = kind
                    /\ tok[t].session.family = req[r].session.family
                 THEN None ELSE tok[t]]
    /\ GoTo(r, to)
    /\ UNCHANGED <<now, code, marker, known, history>>

\* The request ends at this await: a check on its client, redirect URI, PKCE
\* verifier or resource refused it (a code stays spent), a store call threw,
\* before or after it took effect, the process died, or the answer was lost.
Leave(r) ==
    /\ ~At(r, "idle")
    /\ End(r)
    /\ UNCHANGED <<now, code, tok, marker, known, history>>

-----------------------------------------------------------------------------
Exchange(r) ==
    \/ \E c \in Codes : TakeCode(r, c)
    \/ \E f \in Families : BeginFamily(r, f)

Issue(r) ==
    \/ \E t \in Tokens : PutAccess(r, t)
    \/ \E t \in Tokens : PutRefresh(r, t)
    \/ Respond(r)

Refresh(r) ==
    \/ \E t \in Tokens : GetRefresh(r, t)
    \/ ReadFamily(r, "family", "check")
    \/ CheckRefresh(r)
    \/ ClaimRefresh(r)
    \/ AfterClaim(r)

Revoke(r) ==
    \/ PutMarker(r)
    \/ DeleteMatching(r, "delete_access", "access", "delete_refresh")
    \/ DeleteMatching(r, "delete_refresh", "refresh", "denied")

Verify(r) ==
    \/ \E t \in Tokens : GetAccess(r, t)
    \/ CheckAccess(r)
    \/ ReadFamily(r, "verify_family", "accepted")

Next ==
    \/ Tick
    \/ \E r \in Requests :
         Exchange(r) \/ Issue(r) \/ Refresh(r) \/ Revoke(r) \/ Verify(r) \/ Leave(r)

Spec == Init /\ [][Next]_vars

-----------------------------------------------------------------------------
Issuing == {"put_access", "put_refresh", "respond"}

\* Every variable has its type (the records of the store kinds "code",
\* "access", "refresh" and "revoked_family", and the locals of a request).
TypeOK ==
    /\ now \in Nat
    /\ code \in [Codes -> [expiresAt : Nat] \cup {None}]
    /\ tok \in [Tokens -> Records \cup {None}]
    /\ marker \in [Families -> Nat]
    /\ req \in [Requests -> Locals]
    /\ known \in SUBSET Tokens
    /\ start \in [Families -> Nat \cup {None}]
    /\ parent \in [Tokens -> Codes \cup Tokens \cup {None}]
    /\ revoked \in SUBSET Families
    /\ shown \in SUBSET Tokens
    /\ reused \in SUBSET Families

\* Single use: "of several concurrent uses of one token exactly one wins".  A
\* code or a refresh token is never exchanged by two requests, nor for two
\* tokens of one kind, wherever the requests stand between their checks and
\* their puts (authorizationCodeGrant, refreshTokenGrant, claim).
SingleUse ==
    /\ \A r, q \in Requests :
         /\ r # q
         /\ req[r].stage \in Issuing /\ req[q].stage \in Issuing
         => req[r].src # req[q].src
    /\ \A t, u \in Tokens :
         /\ t # u /\ tok[t] # None /\ tok[u] # None
         /\ parent[t] = parent[u]
         => tok[t].kind # tok[u].kind

\* The marker "lives as long as any token of the family could": no token of a
\* revoked family, the ones a concurrent winner stores after the deletes
\* included, outlives the family's marker (revokeFamily, issueTokens).
MarkerOutlivesTokens ==
    \A t \in Tokens :
        Live(tok[t]) /\ tok[t].session.family \in revoked
            => MarkerLive(tok[t].session.family)

\* A refresh that began after its family was revoked never spends a token and
\* never issues one, however its reads and the clock interleave.
NoIssueAfterRevocation ==
    \A r \in Requests :
        req[r].late => req[r].stage \notin {"claim", "won", "lost"} \cup Issuing

\* A bearer check that began after its family was revoked accepts the token
\* only if the family's session has ended meanwhile.
LateAcceptOnlyPastEnd ==
    \A r \in Requests :
        At(r, "accepted") /\ req[r].late => now >= SessionEnd(req[r].session)

\* Revocation is final: after it a refresh issues nothing, a bearer check accepts
\* nothing that its session still covered, and the marker they find outlives
\* every token of the family (revokeFamily, familyRevoked, verifyAccessToken).
RevocationIsFinal == NoIssueAfterRevocation /\ LateAcceptOnlyPastEnd /\ MarkerOutlivesTokens

\* When the caller is told that its refresh token is refused, the family is
\* dead: it is marked, or its session is over (refreshReused, revokeFamily).
ReuseKillsFamily ==
    \A r \in Requests :
        At(r, "denied") =>
            /\ req[r].session.family \in revoked
            /\ \/ MarkerLive(req[r].session.family)
               \/ now >= SessionEnd(req[r].session)

\* "Sessions do not slide forever": whatever the chain of rotations, a token
\* expires no later than SessionMax after the sign-in that began its family.
SessionsDoNotSlide ==
    \A t \in Tokens :
        tok[t] # None =>
            tok[t].expiresAt <= start[tok[t].session.family] + SessionMax

\* A family is revoked only because one of its own refresh tokens came back or
\* its session reached the maximum age: a client that uses each token once is
\* never signed out early by other requests.
RevokedForCause ==
    \A f \in revoked : f \in reused \/ now >= start[f] + SessionMax

\* Rotation is exact: what is redeemed is redeemed once, whoever races for it,
\* and a family dies of nothing but a token that came back, or of age.
RotationIsExact == SingleUse /\ RevokedForCause
=============================================================================
