-------------------------------- MODULE AdminApi --------------------------------
(***************************************************************************)
(* Calls of one process to the Admin API of one store: the client-         *)
(* credentials token, cached and asked for once at a time                  *)
(* (src/src/config.ts), the queue that runs the calls of one token one     *)
(* after the other (src/src/concurrency.ts), and the request itself with   *)
(* its retries (src/src/shopify.ts).                                       *)
(*                                                                         *)
(* A call is a chain of steps between awaits; calls interleave at each.    *)
(* Shopify is the environment: it may run a request whose answer the       *)
(* caller no longer waits for.                                             *)
(***************************************************************************)
EXTENDS Integers, Sequences

CONSTANTS
    Calls,       \* calls of adminGraphql, each made once
    Mutations,   \* the calls whose document is a mutation; the others query
    MaxSecrets,  \* bound on the client secrets of the store's app, in order
    None,        \* no call
    MaxTokens,   \* bound on the tokens Shopify issues
    MaxRetries   \* MAX_THROTTLE_RETRIES

ASSUME AdminApiAssumption ==
    /\ Mutations \subseteq Calls
    /\ None \notin Calls
    /\ {MaxSecrets, MaxTokens, MaxRetries} \subseteq Nat /\ MaxSecrets > 0

VARIABLES
    secret,      \* the client secret in the keychain now
    issued,      \* issued[t]: the secret for which Shopify issued token t
    aged,        \* tokens with less than five minutes left
    cache,       \* oauthTokenCache, per secret: a token, or 0
    asked,       \* oauthTokenRequests, per secret: the call that asks
    answer,      \* what the request for a token that a call made came to
    call,        \* per call: its stage and what it still holds
    tail,        \* queues, per token: the last call in line
    released,    \* calls whose place in line is given up
    server,      \* the last request of each call: with Shopify, or its answer
    (* history *)
    ahead,       \* per call in line: those that came before it and are not done
    runs         \* how often Shopify ran the mutation of each call

oauth   == <<issued, aged, cache, asked, answer>>
queue   == <<tail, released>>
vars    == <<secret, oauth, call, queue, server, ahead, runs>>

Secrets == 1 .. MaxSecrets
Tokens  == 1 .. MaxTokens
Stages  == {"idle", "secret", "token", "queued", "sent", "backoff", "done"}
Results == {"none", "data", "throttled", "error"}

\* What the request for a token came to so far: no answer, an error, or a token.
Open   == -1
Failed == 0

CallRecords ==
    [stage : Stages, secret : {0} \cup Secrets, token : {0} \cup Tokens,
     leader : Calls \cup {None}, previous : Calls \cup {None},
     attempt : 0 .. MaxRetries, result : Results]

NewCall == [stage |-> "idle", secret |-> 0, token |-> 0, leader |-> None,
            previous |-> None, attempt |-> 0, result |-> "none"]

\* A call in the queue of its token, and one that has its turn.
InLine(c)  == call[c].stage \in {"queued", "sent", "backoff"}
Running(c) == call[c].stage \in {"sent", "backoff"}

Init ==
    /\ secret = 1
    /\ issued = <<>>
    /\ aged = {}
    /\ cache = [s \in Secrets |-> 0]
    /\ asked = [s \in Secrets |-> None]
    /\ answer = [c \in Calls |-> Open]
    /\ call = [c \in Calls |-> NewCall]
    /\ tail = [t \in Tokens |-> None]
    /\ released = {}
    /\ server = [c \in Calls |-> "idle"]
    /\ ahead = [c \in Calls |-> {}]
    /\ runs = [c \in Calls |-> 0]

-----------------------------------------------------------------------------
(* The environment. *)

\* The store is connected again with another client secret.
RotateSecret ==
    /\ secret + 1 \in Secrets
    /\ secret' = secret + 1
    /\ UNCHANGED <<oauth, call, queue, server, ahead, runs>>

\* Time passes: a cached token comes within five minutes of its end.
Age(s) ==
    /\ cache[s] \notin {0} \cup aged
    /\ aged' = aged \cup {cache[s]}
    /\ UNCHANGED <<secret, issued, cache, asked, answer, call, queue, server, ahead, runs>>

\* Shopify takes up a request, whether or not the caller still waits.  It runs
\* it, refuses it, or throttles it; a mutation throttled half way has data.
Serve(c) ==
    /\ server[c] = "asked"
    /\ \E outcome \in {"ran", "refused", "throttled"}
                        \cup (IF c \in Mutations THEN {"partial"} ELSE {}) :
         /\ server' = [server EXCEPT ![c] = outcome]
         /\ runs' = IF c \in Mutations /\ outcome \in {"ran", "partial"}
                    THEN [runs EXCEPT ![c] = @ + 1]
                    ELSE runs
    /\ UNCHANGED <<secret, oauth, call, queue, ahead>>

-----------------------------------------------------------------------------
(* The token: getAccessToken and getClientCredentialsToken. *)

\* The caller waits for the keychain.
Begin(c) ==
    /\ call[c].stage = "idle"
    /\ call' = [call EXCEPT ![c].stage = "secret"]
    /\ UNCHANGED <<secret, oauth, queue, server, ahead, runs>>

\* The call takes its place behind the last one in line for its token.
JoinQueue(c, s, t) ==
    /\ call' = [call EXCEPT ![c] = [@ EXCEPT !.stage = "queued", !.secret = s,
                                             !.token = t, !.leader = None,
                                             !.previous = tail[t]]]
    /\ tail' = [tail EXCEPT ![t] = c]
    /\ ahead' = [ahead EXCEPT ![c] = {d \in Calls : InLine(d) /\ call[d].token = t}]
    /\ UNCHANGED released

\* Mutant: tokens are kept per store, whatever the secret.
CacheKeyOfStore(s) == 1

\* Tokens are cached and asked for per secret: its hash is part of the key.
CacheKey(s) == s

\* Mutant: the request under way is not looked for.
LeaderAlone(c, key) == c

\* Whose request for a token a call waits for: the one under way, or its own.
Leader(c, key) == IF asked[key] = None THEN c ELSE asked[key]

\* The keychain answers: a cached token with time left is used; otherwise the
\* call waits for the request under way, or makes one.  Or the keychain fails.
ReadSecret(c) ==
    LET key == CacheKey(secret) IN
    /\ call[c].stage = "secret"
    /\ \/ /\ cache[key] \notin {0} \cup aged
          /\ JoinQueue(c, secret, cache[key])
          /\ UNCHANGED asked
       \/ /\ cache[key] \in {0} \cup aged
          /\ call' = [call EXCEPT ![c] = [@ EXCEPT !.stage = "token",
                                                   !.secret = secret,
                                                   !.leader = Leader(c, key)]]
          /\ asked' = [asked EXCEPT ![key] = Leader(c, key)]
          /\ UNCHANGED <<queue, ahead>>
       \/ /\ call' = [call EXCEPT ![c] = [@ EXCEPT !.stage = "done", !.result = "error"]]
          /\ UNCHANGED <<asked, queue, ahead>>
    /\ UNCHANGED <<secret, issued, aged, cache, answer, server, runs>>

\* Shopify issues a token: it replaces every token of the store in the cache.
GrantToken(c) ==
    LET t == Len(issued) + 1
        s == call[c].secret IN
    /\ call[c].stage = "token" /\ call[c].leader = c
    /\ answer[c] = Open
    /\ t \in Tokens
    /\ issued' = Append(issued, s)
    /\ cache' = [k \in Secrets |-> IF k = CacheKey(s) THEN t ELSE 0]
    /\ answer' = [answer EXCEPT ![c] = t]
    /\ UNCHANGED <<secret, aged, asked, call, queue, server, ahead, runs>>

\* No token: an error, an answer that is not JSON, or none within 30 seconds.
RefuseToken(c) ==
    /\ call[c].stage = "token" /\ call[c].leader = c
    /\ answer[c] = Open
    /\ answer' = [answer EXCEPT ![c] = Failed]
    /\ UNCHANGED <<secret, issued, aged, cache, asked, call, queue, server, ahead, runs>>

\* Mutant: a request that failed stays on the map.
DropRequestOnSuccess(c) ==
    LET key == CacheKey(call[c].secret) IN
    IF asked[key] = c /\ answer[c] # Failed THEN [asked EXCEPT ![key] = None] ELSE asked

\* The call that asked takes its request off the map, however it came out.
DropRequest(c) ==
    LET key == CacheKey(call[c].secret) IN
    IF asked[key] = c THEN [asked EXCEPT ![key] = None] ELSE asked

\* A call that waited for a token goes on with it, or ends with the error.
TokenArrives(c) ==
    LET t == answer[call[c].leader] IN
    /\ call[c].stage = "token"
    /\ t # Open
    /\ \/ /\ t # Failed
          /\ JoinQueue(c, call[c].secret, t)
       \/ /\ t = Failed
          /\ call' = [call EXCEPT ![c] = [@ EXCEPT !.stage = "done", !.leader = None,
                                                   !.result = "error"]]
          /\ UNCHANGED <<queue, ahead>>
    /\ asked' = DropRequest(c)
    /\ UNCHANGED <<secret, issued, aged, cache, answer, server, runs>>

-----------------------------------------------------------------------------
(* The request: serializeStore, adminGraphqlWithToken and graphqlRequest. *)

\* The call before in line is done: this one sends its document.
Send(c) ==
    /\ call[c].stage = "queued"
    /\ call[c].previous \in released \cup {None}
    /\ call' = [call EXCEPT ![c] = [@ EXCEPT !.stage = "sent", !.previous = None]]
    /\ server' = [server EXCEPT ![c] = "asked"]
    /\ UNCHANGED <<secret, oauth, queue, ahead, runs>>

\* Mutant: the queue is dropped although another call is behind in it.
DropQueueAlways(c) == [tail EXCEPT ![call[c].token] = None]

\* The queue is dropped when the call is the last one in it.
DropQueue(c) ==
    IF tail[call[c].token] = c THEN [tail EXCEPT ![call[c].token] = None] ELSE tail

\* Mutant: a call that failed keeps its place.
ReleaseOnSuccess(c, result) ==
    IF result = "data" THEN released' = released \cup {c} /\ tail' = DropQueue(c)
                       ELSE UNCHANGED queue

\* The place in line is given up, whatever came of the call.
Release(c, result) ==
    /\ released' = released \cup {c}
    /\ tail' = DropQueue(c)

End(c, result) ==
    /\ call' = [call EXCEPT ![c] = [@ EXCEPT !.stage = "done", !.attempt = 0,
                                             !.result = result]]
    /\ Release(c, result)
    /\ ahead' = [d \in Calls |-> ahead[d] \ {c}]

\* An answer that is used: its data, unless it is too long to hand on.
TakeAnswer(c) ==
    /\ call[c].stage = "sent"
    /\ server[c] \in {"ran", "partial"}
    /\ \E result \in {"data", "error"} : End(c, result)
    /\ server' = [server EXCEPT ![c] = "idle"]
    /\ UNCHANGED <<secret, oauth, runs>>

\* Mutant: a mutation throttled half way is taken for one that did not run.
ThrottledAnswerWithData(c) == server[c] \in {"throttled", "partial"}

\* Shopify throttled the request and there is no data: nothing ran.
ThrottledAnswer(c) == server[c] = "throttled"

\* Mutant: one retry too many.
MayRetryOnceMore(c) == c \notin Mutations

\* Queries are sent again, a few times; mutations never are.
MayRetry(c) == c \notin Mutations /\ call[c].attempt < MaxRetries

\* Shopify throttled the request: it is sent again after a delay, unless it may
\* not be or the delay is too long.  A mutation ends as not applied.
Throttled(c) ==
    /\ call[c].stage = "sent"
    /\ ThrottledAnswer(c)
    /\ \/ /\ MayRetry(c)
          /\ call' = [call EXCEPT ![c].stage = "backoff", ![c].attempt = @ + 1]
          /\ UNCHANGED <<queue, ahead>>
       \/ End(c, IF c \in Mutations THEN "throttled" ELSE "error")
    /\ server' = [server EXCEPT ![c] = "idle"]
    /\ UNCHANGED <<secret, oauth, runs>>

\* The delay is over.
Retry(c) ==
    /\ call[c].stage = "backoff"
    /\ call' = [call EXCEPT ![c].stage = "sent"]
    /\ server' = [server EXCEPT ![c] = "asked"]
    /\ UNCHANGED <<secret, oauth, queue, ahead, runs>>

\* An HTTP error; or no answer that can be read within 30 seconds, though the
\* request may be with Shopify and run later.
Fail(c) ==
    /\ call[c].stage = "sent"
    /\ End(c, "error")
    /\ server' = [server EXCEPT ![c] = IF @ = "asked" THEN @ ELSE "idle"]
    /\ UNCHANGED <<secret, oauth, runs>>

-----------------------------------------------------------------------------
\* What a call that began does next; its stage says which of these it can be.
Step(c) ==
    \/ ReadSecret(c) \/ GrantToken(c) \/ RefuseToken(c) \/ TokenArrives(c)
    \/ Send(c) \/ TakeAnswer(c) \/ Throttled(c) \/ Retry(c) \/ Fail(c)

Next ==
    \/ RotateSecret
    \/ \E s \in Secrets : Age(s)
    \/ \E c \in Calls :
         \/ Begin(c) \/ Serve(c) \/ Step(c)

\* The keychain answers, promises and timers settle, and every request is
\* aborted after 30 seconds.  Shopify need not do anything.
Fairness == \A c \in Calls : WF_vars(Step(c))

Spec == Init /\ [][Next]_vars /\ Fairness

-----------------------------------------------------------------------------
(* Properties. *)

TypeOK ==
    /\ secret \in Secrets
    /\ issued \in Seq(Secrets) /\ Len(issued) <= MaxTokens
    /\ aged \subseteq 1 .. Len(issued)
    /\ cache \in [Secrets -> 0 .. Len(issued)]
    /\ asked \in [Secrets -> Calls \cup {None}]
    /\ answer \in [Calls -> {Open, Failed} \cup (1 .. Len(issued))]
    /\ call \in [Calls -> CallRecords]
    /\ tail \in [Tokens -> Calls \cup {None}]
    /\ released \subseteq Calls
    /\ server \in [Calls -> {"idle", "asked", "ran", "partial", "refused", "throttled"}]
    /\ ahead \in [Calls -> SUBSET Calls]
    /\ runs \in [Calls -> Nat]

\* Of the calls with one token, only the first in line runs: no two run at
\* once, and none overtakes one that came before it.
InOrder ==
    \A c \in Calls : Running(c) =>
        /\ ahead[c] = {}
        /\ \A d \in Calls \ {c} : Running(d) => call[d].token # call[c].token

\* A call runs with a token that was issued for the secret it read, also when
\* the secret changed while it, or the call it waited for, asked for a token.
TokenFollowsSecret ==
    \A c \in Calls : call[c].token # 0 => issued[call[c].token] = call[c].secret

\* Two calls never ask for a token with the same secret at the same time.
SingleFlight ==
    \A c, d \in Calls :
        /\ c # d /\ call[c].secret = call[d].secret
        /\ call[c].stage = "token" /\ call[c].leader = c
        /\ call[d].stage = "token" /\ call[d].leader = d
        => answer[c] # Open \/ answer[d] # Open

\* The maps hold no call that is over: a failed request for a token is not
\* what later calls are given, and a queue nobody waits in is dropped.
NothingLeftBehind ==
    /\ \A s \in Secrets : asked[s] # None => call[asked[s]].stage = "token"
    /\ \A t \in Tokens : tail[t] # None => InLine(tail[t])

\* The queue of a token serves its calls in turn and is gone after the last, and
\* so is a request for a token: nobody overtakes, and nobody is left behind
\* (serializeStore, getClientCredentialsToken).
ServedInTurn == InOrder /\ NothingLeftBehind

\* Calls share one request for a token, and the token they get by it is one of
\* the secret that each of them read (getClientCredentialsToken, its cache).
SharedToken == SingleFlight /\ TokenFollowsSecret

\* Shopify never runs a mutation twice for one call, and never runs one that
\* the caller was told is not applied and safe to send again.
RunsOnce ==
    \A c \in Mutations :
        /\ runs[c] <= 1
        /\ call[c].result = "throttled" => runs[c] = 0

\* Every call that began ends: no call waits for a token or in a queue for one
\* that failed, timed out or threw.  (Each call is made once, so that from some
\* point on all that began are done.)
EveryCallEnds ==
    []<>(\A c \in Calls : call[c].stage \in {"idle", "done"})
=============================================================================
