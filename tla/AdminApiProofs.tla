---------------------------- MODULE AdminApiProofs ----------------------------
(***************************************************************************)
(* Proofs about AdminApi, for every number of calls, secrets and tokens    *)
(* and any number of retries.                                              *)
(***************************************************************************)
EXTENDS AdminApi, TLAPS

\* A token belongs to the secret it was issued for, wherever a copy of it is.
CacheTrue ==
    \A s \in Secrets : cache[s] # 0 => issued[cache[s]] = s

AnswerTrue(c) ==
    answer[c] \notin {Open, Failed} => issued[answer[c]] = call[c].secret

TokenTrue(c) ==
    call[c].token # 0 =>
        call[c].token \in 1 .. Len(issued) /\ issued[call[c].token] = call[c].secret

\* A call that has not read the secret holds nothing yet.
StartsEmpty(c) ==
    call[c].stage \in {"idle", "secret"} =>
        call[c].secret = 0 /\ call[c].token = 0 /\ answer[c] = Open

\* A call waits for a request that was made with the secret it read.
LeaderSharesSecret(c) ==
    call[c].stage = "token" =>
        /\ call[c].leader \in Calls
        /\ call[c].secret \in Secrets
        /\ call[call[c].leader].secret = call[c].secret

\* The map of requests holds those under way, each under its own secret ...
AskedIsLeader ==
    \A s \in Secrets : asked[s] # None =>
        /\ call[asked[s]].stage = "token"
        /\ call[asked[s]].leader = asked[s]
        /\ call[asked[s]].secret = s

\* ... and every one that has no answer yet.
LeaderIsAsked(c) ==
    call[c].stage = "token" /\ call[c].leader = c /\ answer[c] = Open
        => asked[call[c].secret] = c

TokenInv ==
    /\ CacheTrue
    /\ AskedIsLeader
    /\ \A c \in Calls : /\ AnswerTrue(c) /\ TokenTrue(c) /\ StartsEmpty(c)
                        /\ LeaderSharesSecret(c) /\ LeaderIsAsked(c)

\* The calls in line for the token t.
Line(t) == {c \in Calls : InLine(c) /\ call[c].token = t}

\* Who is ahead of a call is in line for the same token.
AheadInLine(c) ==
    IF InLine(c) THEN call[c].token \in Tokens /\ ahead[c] \subseteq Line(call[c].token) \ {c}
                 ELSE ahead[c] = {}

\* Of two calls in one line, one is ahead of the other.
LineIsOrdered ==
    \A c, d \in Calls :
        /\ c # d /\ InLine(c) /\ InLine(d) /\ call[c].token = call[d].token
        => c \in ahead[d] \/ d \in ahead[c]

\* A call waits for the one just before it, and so for all that are ahead.
WaitsForAll(c) ==
    LET p == call[c].previous IN
    call[c].stage = "queued" =>
        IF p \in released \cup {None} THEN ahead[c] = {}
        ELSE p # c /\ p \in Line(call[c].token) /\ ahead[c] = ahead[p] \cup {p}

FirstRuns(c) == Running(c) => ahead[c] = {}

ReleasedIsDone == \A c \in released : call[c].stage = "done"

\* The map of queues holds the last call in line, behind all the others.
TailIsLast ==
    \A t \in Tokens :
        IF tail[t] = None THEN Line(t) = {}
        ELSE tail[t] \in Line(t) /\ Line(t) \ {tail[t]} \subseteq ahead[tail[t]]

QueueInv ==
    /\ LineIsOrdered /\ ReleasedIsDone /\ TailIsLast
    /\ \A c \in Calls : AheadInLine(c) /\ WaitsForAll(c) /\ FirstRuns(c)

\* A mutation is sent once; Shopify has run it only if its request is answered
\* with data, or nobody waits for the answer any more.
SentOnce(c) ==
    /\ call[c].stage # "backoff"
    /\ call[c].stage \in {"idle", "secret", "token", "queued"} =>
           server[c] = "idle" /\ runs[c] = 0
    /\ server[c] \in {"asked", "refused", "throttled"} => runs[c] = 0
    /\ runs[c] <= 1
    /\ call[c].result = "throttled" =>
           call[c].stage = "done" /\ server[c] = "idle" /\ runs[c] = 0

RunInv == \A c \in Mutations : SentOnce(c)

IInv == TypeOK /\ TokenInv /\ QueueInv /\ RunInv

-----------------------------------------------------------------------------
LEMMA Constants ==
    /\ MaxSecrets \in Nat /\ MaxSecrets > 0 /\ MaxTokens \in Nat /\ MaxRetries \in Nat
    /\ Mutations \subseteq Calls /\ None \notin Calls
  BY AdminApiAssumption

LEMMA InitInv == Init => IInv
  <1> SUFFICES ASSUME Init PROVE IInv
    OBVIOUS
  <1> USE Constants DEF Init, NewCall, Stages, Results
  <1>1. TypeOK
    <2>1. NewCall \in CallRecords
      BY DEF CallRecords
    <2> QED BY <2>1 DEF TypeOK, Secrets, Tokens, Open, Failed
  <1>2. TokenInv
    BY DEF TokenInv, CacheTrue, AskedIsLeader, AnswerTrue, TokenTrue, StartsEmpty,
           LeaderSharesSecret, LeaderIsAsked
  <1>3. QueueInv
    BY DEF QueueInv, LineIsOrdered, ReleasedIsDone, TailIsLast, AheadInLine, WaitsForAll,
           FirstRuns, InLine, Running, Line
  <1>4. ASSUME NEW c \in Mutations PROVE SentOnce(c)
    <2>1. c \in Calls
      OBVIOUS
    <2>2. call[c] = NewCall /\ server[c] = "idle" /\ runs[c] = 0
      BY <2>1
    <2> QED BY <2>2 DEF SentOnce
  <1> QED BY <1>1, <1>2, <1>3, <1>4 DEF IInv, RunInv

-----------------------------------------------------------------------------
(* Types. *)

LEMMA CallFields ==
    ASSUME TypeOK, NEW c \in Calls
    PROVE  /\ call[c] \in CallRecords
           /\ call[c].stage \in Stages
           /\ call[c].secret \in {0} \cup Secrets
           /\ call[c].token \in {0} \cup Tokens
           /\ call[c].leader \in Calls \cup {None}
           /\ call[c].previous \in Calls \cup {None}
           /\ call[c].attempt \in 0 .. MaxRetries
           /\ call[c].result \in Results
  <1>1. call[c] \in CallRecords
    BY DEF TypeOK
  <1> QED BY <1>1 DEF CallRecords

\* A call gets a place in line with a token that was issued.
LEMMA JoinTyped ==
    ASSUME TypeOK, NEW c \in Calls, NEW s \in {0} \cup Secrets,
           NEW t \in 1 .. Len(issued), JoinQueue(c, s, t)
    PROVE  /\ call' \in [Calls -> CallRecords]
           /\ tail' \in [Tokens -> Calls \cup {None}]
           /\ released' \subseteq Calls
           /\ ahead' \in [Calls -> SUBSET Calls]
  <1>1. t \in Tokens /\ tail[t] \in Calls \cup {None}
    BY Constants DEF TypeOK, Tokens
  <1>2. [call[c] EXCEPT !.stage = "queued", !.secret = s, !.token = t, !.leader = None,
                        !.previous = tail[t]] \in CallRecords
    BY <1>1, CallFields DEF CallRecords, Stages, Results
  <1>3. call' \in [Calls -> CallRecords]
    BY <1>2 DEF JoinQueue, TypeOK
  <1> QED BY <1>1, <1>3 DEF JoinQueue, TypeOK

LEMMA EndTyped ==
    ASSUME TypeOK, NEW c \in Calls, NEW result \in Results, End(c, result)
    PROVE  /\ call' \in [Calls -> CallRecords]
           /\ tail' \in [Tokens -> Calls \cup {None}]
           /\ released' \subseteq Calls
           /\ ahead' \in [Calls -> SUBSET Calls]
  <1>1. [call[c] EXCEPT !.stage = "done", !.attempt = 0, !.result = result] \in CallRecords
    <2>1. 0 \in 0 .. MaxRetries /\ "done" \in Stages
      BY Constants DEF Stages
    <2> QED BY <2>1, CallFields DEF CallRecords
  <1>2. call' \in [Calls -> CallRecords]
    BY <1>1 DEF End, TypeOK
  <1>3. tail' \in [Tokens -> Calls \cup {None}]
    BY DEF End, Release, DropQueue, TypeOK
  <1>4. released' \subseteq Calls /\ ahead' \in [Calls -> SUBSET Calls]
    BY DEF End, Release, TypeOK
  <1> QED BY <1>2, <1>3, <1>4

LEMMA TypeStep == TypeOK /\ TokenInv /\ [Next]_vars => TypeOK'
  <1> SUFFICES ASSUME TypeOK, TokenInv, [Next]_vars PROVE TypeOK'
    OBVIOUS
  <1> USE Constants DEF Stages, Results
  <1>1. CASE UNCHANGED vars
    BY <1>1 DEF TypeOK, vars, oauth, queue
  <1>2. CASE RotateSecret
    BY <1>2 DEF TypeOK, RotateSecret, oauth, queue
  <1>3. ASSUME NEW s \in Secrets, Age(s) PROVE TypeOK'
    <2>1. cache[s] \in 1 .. Len(issued)
      BY <1>3 DEF TypeOK, Age
    <2> QED BY <2>1, <1>3 DEF TypeOK, Age, oauth, queue
  <1>4. ASSUME NEW c \in Calls, Begin(c) PROVE TypeOK'
    <2>1. [call[c] EXCEPT !.stage = "secret"] \in CallRecords
      BY CallFields DEF CallRecords
    <2>2. call' \in [Calls -> CallRecords]
      BY <2>1, <1>4 DEF TypeOK, Begin
    <2> QED BY <2>2, <1>4 DEF TypeOK, Begin, oauth, queue
  <1>5. ASSUME NEW c \in Calls, Serve(c) PROVE TypeOK'
    <2>1. runs' \in [Calls -> Nat]
      BY <1>5 DEF TypeOK, Serve
    <2> QED BY <2>1, <1>5 DEF TypeOK, Serve, oauth, queue
  <1>6. ASSUME NEW c \in Calls, ReadSecret(c) PROVE TypeOK'
    <2> DEFINE key == CacheKey(secret)
    <2>1. key \in Secrets /\ secret \in Secrets
      BY DEF TypeOK, CacheKey
    <2>2. CASE cache[key] \notin {0} \cup aged /\ JoinQueue(c, secret, cache[key])
               /\ UNCHANGED asked
      <3>1. cache[key] \in 1 .. Len(issued)
        BY <2>1, <2>2 DEF TypeOK
      <3> QED BY <2>1, <2>2, <3>1, <1>6, JoinTyped DEF TypeOK, ReadSecret
    <2>3. CASE /\ call' = [call EXCEPT ![c] = [@ EXCEPT !.stage = "token", !.secret = secret,
                                                        !.leader = Leader(c, key)]]
               /\ asked' = [asked EXCEPT ![key] = Leader(c, key)]
               /\ UNCHANGED <<queue, ahead>>
      <3>1. Leader(c, key) \in Calls
        BY <2>1 DEF TypeOK, Leader
      <3>2. [call[c] EXCEPT !.stage = "token", !.secret = secret,
                            !.leader = Leader(c, key)] \in CallRecords
        BY <2>1, <3>1, CallFields DEF CallRecords
      <3>3. call' \in [Calls -> CallRecords]
        BY <2>3, <3>2 DEF TypeOK
      <3>4. asked' \in [Secrets -> Calls \cup {None}]
        BY <2>3, <3>1 DEF TypeOK
      <3> QED BY <2>3, <3>3, <3>4, <1>6 DEF TypeOK, ReadSecret, queue
    <2>4. CASE /\ call' = [call EXCEPT ![c] = [@ EXCEPT !.stage = "done", !.result = "error"]]
               /\ UNCHANGED <<asked, queue, ahead>>
      <3>1. [call[c] EXCEPT !.stage = "done", !.result = "error"] \in CallRecords
        BY CallFields DEF CallRecords
      <3>2. call' \in [Calls -> CallRecords]
        BY <2>4, <3>1 DEF TypeOK
      <3> QED BY <2>4, <3>2, <1>6 DEF TypeOK, ReadSecret, queue
    <2> QED BY <2>2, <2>3, <2>4, <1>6 DEF ReadSecret
  <1>7. ASSUME NEW c \in Calls, GrantToken(c) PROVE TypeOK'
    <2> DEFINE t == Len(issued) + 1
    <2>1. call[c].secret \in Secrets
      BY <1>7 DEF TokenInv, LeaderSharesSecret, GrantToken
    <2>2. Len(issued) \in Nat /\ t <= MaxTokens
      BY <1>7 DEF TypeOK, GrantToken, Tokens
    <2>3. issued' \in Seq(Secrets) /\ Len(issued') = t
      BY <1>7, <2>1 DEF TypeOK, GrantToken
    <2>4. cache' \in [Secrets -> 0 .. Len(issued')]
      BY <1>7, <2>2, <2>3 DEF GrantToken
    <2>5. answer' \in [Calls -> {Open, Failed} \cup (1 .. Len(issued'))]
      BY <1>7, <2>2, <2>3 DEF TypeOK, GrantToken
    <2>6. aged' \subseteq 1 .. Len(issued')
      BY <1>7, <2>2, <2>3 DEF TypeOK, GrantToken
    <2> QED BY <2>2, <2>3, <2>4, <2>5, <2>6, <1>7 DEF TypeOK, GrantToken, queue
  <1>8. ASSUME NEW c \in Calls, RefuseToken(c) PROVE TypeOK'
    BY <1>8 DEF TypeOK, RefuseToken, queue
  <1>9. ASSUME NEW c \in Calls, TokenArrives(c) PROVE TypeOK'
    <2> DEFINE t == answer[call[c].leader]
    <2>1. asked' \in [Secrets -> Calls \cup {None}]
      BY <1>9 DEF TypeOK, TokenArrives, DropRequest
    <2>2. CASE t # Failed /\ JoinQueue(c, call[c].secret, t)
      <3>1. t \in 1 .. Len(issued)
        BY <2>2, <1>9 DEF TypeOK, TokenInv, LeaderSharesSecret, TokenArrives
      <3>2. call[c].secret \in {0} \cup Secrets
        BY CallFields
      <3> QED BY <2>1, <2>2, <3>1, <3>2, <1>9, JoinTyped DEF TypeOK, TokenArrives
    <2>3. CASE /\ call' = [call EXCEPT ![c] = [@ EXCEPT !.stage = "done", !.leader = None,
                                                        !.result = "error"]]
               /\ UNCHANGED <<queue, ahead>>
      <3>1. [call[c] EXCEPT !.stage = "done", !.leader = None, !.result = "error"]
                \in CallRecords
        BY CallFields DEF CallRecords
      <3>2. call' \in [Calls -> CallRecords]
        BY <2>3, <3>1 DEF TypeOK
      <3> QED BY <2>1, <2>3, <3>2, <1>9 DEF TypeOK, TokenArrives, queue
    <2> QED BY <2>2, <2>3, <1>9 DEF TokenArrives
  <1>10. ASSUME NEW c \in Calls, Send(c) PROVE TypeOK'
    <2>1. [call[c] EXCEPT !.stage = "sent", !.previous = None] \in CallRecords
      BY CallFields DEF CallRecords
    <2>2. call' \in [Calls -> CallRecords]
      BY <2>1, <1>10 DEF TypeOK, Send
    <2> QED BY <2>2, <1>10 DEF TypeOK, Send, oauth, queue
  <1>11. ASSUME NEW c \in Calls, TakeAnswer(c) PROVE TypeOK'
    <2>1. PICK result \in Results : End(c, result)
      BY <1>11 DEF TakeAnswer
    <2> QED BY <2>1, <1>11, EndTyped DEF TypeOK, TakeAnswer, oauth
  <1>12. ASSUME NEW c \in Calls, Throttled(c) PROVE TypeOK'
    <2>1. CASE /\ MayRetry(c)
               /\ call' = [call EXCEPT ![c].stage = "backoff", ![c].attempt = @ + 1]
               /\ UNCHANGED <<queue, ahead>>
      <3>1. call[c].attempt + 1 \in 0 .. MaxRetries
        BY <2>1, CallFields DEF MayRetry
      <3> DEFINE next == call[c].attempt + 1
      <3>2. call' = [call EXCEPT ![c].stage = "backoff", ![c].attempt = next]
        BY <2>1
      <3>3. next \in 0 .. MaxRetries
        BY <3>1
      <3> HIDE DEF next
      <3>4. call \in [Calls -> CallRecords] /\ "backoff" \in Stages
        BY DEF TypeOK
      <3>5. call' \in [Calls -> CallRecords]
        BY <3>2, <3>3, <3>4 DEF CallRecords
      <3> QED BY <2>1, <3>5, <1>12 DEF TypeOK, Throttled, oauth, queue
    <2>2. CASE End(c, IF c \in Mutations THEN "throttled" ELSE "error")
      <3>1. PICK result \in Results : End(c, result)
        BY <2>2
      <3> QED BY <3>1, <1>12, EndTyped DEF TypeOK, Throttled, oauth
    <2> QED BY <2>1, <2>2, <1>12 DEF Throttled
  <1>13. ASSUME NEW c \in Calls, Retry(c) PROVE TypeOK'
    <2>1. [call[c] EXCEPT !.stage = "sent"] \in CallRecords
      BY CallFields DEF CallRecords
    <2>2. call' \in [Calls -> CallRecords]
      BY <2>1, <1>13 DEF TypeOK, Retry
    <2> QED BY <2>2, <1>13 DEF TypeOK, Retry, oauth, queue
  <1>14. ASSUME NEW c \in Calls, Fail(c) PROVE TypeOK'
    BY <1>14, EndTyped DEF TypeOK, Fail, oauth
  <1> QED BY <1>1, <1>2, <1>3, <1>4, <1>5, <1>6, <1>7, <1>8, <1>9, <1>10, <1>11, <1>12,
             <1>13, <1>14 DEF Next, Step

-----------------------------------------------------------------------------
(* Tokens and the requests for them. *)

\* A step that leaves tokens, secrets and who waits for a token alone.
Quiet ==
    /\ UNCHANGED <<issued, cache, asked, answer>>
    /\ \A c \in Calls :
         /\ call'[c].secret = call[c].secret
         /\ call'[c].token = call[c].token
         /\ call'[c].stage \in {"idle", "secret"} => call[c].stage \in {"idle", "secret"}
         /\ \/ call'[c].stage = call[c].stage /\ call'[c].leader = call[c].leader
            \/ call'[c].stage # "token" /\ call[c].stage # "token"

LEMMA QuietStep ==
    ASSUME TypeOK, TokenInv, Quiet
    PROVE  TokenInv'
  <1>1. CacheTrue'
    BY DEF Quiet, TokenInv, CacheTrue
  <1>2. AskedIsLeader'
    <2> SUFFICES ASSUME NEW s \in Secrets, asked[s] # None
                 PROVE  /\ call'[asked[s]].stage = "token"
                        /\ call'[asked[s]].leader = asked[s]
                        /\ call'[asked[s]].secret = s
      BY DEF Quiet, AskedIsLeader
    <2>1. asked[s] \in Calls /\ call[asked[s]].stage = "token"
      BY DEF TypeOK, TokenInv, AskedIsLeader
    <2> QED BY <2>1 DEF Quiet, TokenInv, AskedIsLeader
  <1>3. ASSUME NEW d \in Calls
        PROVE  /\ AnswerTrue(d)' /\ TokenTrue(d)' /\ StartsEmpty(d)'
               /\ LeaderSharesSecret(d)' /\ LeaderIsAsked(d)'
    <2>1. AnswerTrue(d)' /\ TokenTrue(d)' /\ StartsEmpty(d)'
      BY DEF Quiet, TokenInv, AnswerTrue, TokenTrue, StartsEmpty
    <2>2. LeaderSharesSecret(d)'
      BY DEF Quiet, TokenInv, LeaderSharesSecret
    <2>3. LeaderIsAsked(d)'
      BY DEF Quiet, TokenInv, LeaderIsAsked
    <2> QED BY <2>1, <2>2, <2>3
  <1> QED BY <1>1, <1>2, <1>3 DEF TokenInv

LEMMA EndIsQuiet ==
    ASSUME TypeOK, NEW c \in Calls, NEW result, call[c].stage = "sent", End(c, result),
           UNCHANGED oauth
    PROVE  Quiet
  BY CallFields DEF End, Quiet, oauth, TypeOK, CallRecords

LEMMA ReadSecretTokens ==
    ASSUME TypeOK, TokenInv, NEW c \in Calls, ReadSecret(c)
    PROVE  TokenInv'
  <1> DEFINE key == CacheKey(secret)
  <1>1. key = secret /\ secret \in Secrets
    BY DEF CacheKey, TypeOK
  <1>2. call[c].stage = "secret" /\ call[c].secret = 0 /\ call[c].token = 0 /\ answer[c] = Open
    BY DEF ReadSecret, TokenInv, StartsEmpty
  <1>3. UNCHANGED <<issued, cache, answer>>
    BY DEF ReadSecret
  \* Nobody waits for a call that has not read the secret.
  <1>4. ASSUME NEW d \in Calls, call[d].stage = "token" PROVE call[d].leader # c
    <2>1. call[d].secret \in Secrets /\ call[call[d].leader].secret = call[d].secret
      BY <1>4 DEF TokenInv, LeaderSharesSecret
    <2> QED BY <1>2, <2>1 DEF Secrets
  <1>5. \A s \in Secrets : asked[s] # c
    BY <1>2, Constants DEF TokenInv, AskedIsLeader
  <1>6. CacheTrue'
    BY <1>3 DEF TokenInv, CacheTrue
  <1>7. CASE cache[key] \notin {0} \cup aged /\ JoinQueue(c, secret, cache[key])
             /\ UNCHANGED asked
    <2>1. \A d \in Calls : d # c => call'[d] = call[d]
      BY <1>7 DEF JoinQueue, TypeOK
    <2>2. /\ call'[c].stage = "queued" /\ call'[c].secret = secret
          /\ call'[c].token = cache[key]
      BY <1>7 DEF JoinQueue, TypeOK, CallRecords
    <2>3. cache[key] \in 1 .. Len(issued) /\ issued[cache[key]] = secret
      BY <1>1, <1>7 DEF TypeOK, TokenInv, CacheTrue
    <2>4. AskedIsLeader'
      BY <1>7, <1>5, <2>1 DEF TokenInv, AskedIsLeader, TypeOK
    <2>5. ASSUME NEW d \in Calls
          PROVE  /\ AnswerTrue(d)' /\ TokenTrue(d)' /\ StartsEmpty(d)'
                 /\ LeaderSharesSecret(d)' /\ LeaderIsAsked(d)'
      <3>1. AnswerTrue(d)' /\ TokenTrue(d)' /\ StartsEmpty(d)'
        BY <1>2, <1>3, <2>1, <2>2, <2>3
           DEF TokenInv, AnswerTrue, TokenTrue, StartsEmpty
      <3>2. LeaderSharesSecret(d)'
        BY <1>4, <2>1, <2>2 DEF TokenInv, LeaderSharesSecret
      <3>3. LeaderIsAsked(d)'
        BY <1>3, <1>7, <2>1, <2>2 DEF TokenInv, LeaderIsAsked
      <3> QED BY <3>1, <3>2, <3>3
    <2> QED BY <1>6, <2>4, <2>5 DEF TokenInv
  <1>8. CASE /\ call' = [call EXCEPT ![c] = [@ EXCEPT !.stage = "token", !.secret = secret,
                                                      !.leader = Leader(c, key)]]
             /\ asked' = [asked EXCEPT ![key] = Leader(c, key)]
    <2> DEFINE lead == Leader(c, key)
    <2>1. \A d \in Calls : d # c => call'[d] = call[d]
      BY <1>8 DEF TypeOK
    <2>2. /\ call'[c].stage = "token" /\ call'[c].secret = secret
          /\ call'[c].token = 0 /\ call'[c].leader = lead
      BY <1>2, <1>8 DEF TypeOK, CallRecords
    <2>3. \/ asked[key] = None /\ lead = c
          \/ lead = asked[key] /\ lead \in Calls \ {c} /\ call[lead].stage = "token"
             /\ call[lead].leader = lead /\ call[lead].secret = secret
      BY <1>1, <1>5 DEF TypeOK, TokenInv, AskedIsLeader, Leader
    <2>4. asked'[key] = lead /\ \A s \in Secrets \ {key} : asked'[s] = asked[s]
      BY <1>1, <1>8 DEF TypeOK
    <2> HIDE DEF lead, key
    <2>5. AskedIsLeader'
      <3> SUFFICES ASSUME NEW s \in Secrets, asked'[s] # None
                   PROVE  /\ call'[asked'[s]].stage = "token"
                          /\ call'[asked'[s]].leader = asked'[s]
                          /\ call'[asked'[s]].secret = s
        BY DEF AskedIsLeader
      <3>1. CASE s = key
        BY <3>1, <1>1, <2>1, <2>2, <2>3, <2>4
      <3>2. CASE s # key
        BY <3>2, <1>5, <2>1, <2>4 DEF TokenInv, AskedIsLeader, TypeOK
      <3> QED BY <3>1, <3>2
    <2>6. ASSUME NEW d \in Calls
          PROVE  /\ AnswerTrue(d)' /\ TokenTrue(d)' /\ StartsEmpty(d)'
                 /\ LeaderSharesSecret(d)' /\ LeaderIsAsked(d)'
      <3>1. AnswerTrue(d)' /\ TokenTrue(d)' /\ StartsEmpty(d)'
        BY <1>2, <1>3, <2>1, <2>2 DEF TokenInv, AnswerTrue, TokenTrue, StartsEmpty
      <3>2. LeaderSharesSecret(d)'
        BY <1>1, <1>4, <2>1, <2>2, <2>3 DEF TokenInv, LeaderSharesSecret
      <3>3. LeaderIsAsked(d)'
        <4>1. CASE d = c
          BY <4>1, <1>1, <2>2, <2>4 DEF LeaderIsAsked
        <4>2. CASE d # c
          <5> SUFFICES ASSUME call[d].stage = "token", call[d].leader = d, answer[d] = Open
                       PROVE  asked'[call[d].secret] = d
            BY <4>2, <1>3, <2>1 DEF LeaderIsAsked
          <5>1. asked[call[d].secret] = d /\ call[d].secret \in Secrets
            BY DEF TokenInv, LeaderIsAsked, LeaderSharesSecret
          <5> QED BY <5>1, <2>3, <2>4, Constants
        <4> QED BY <4>1, <4>2
      <3> QED BY <3>1, <3>2, <3>3
    <2> QED BY <1>6, <2>5, <2>6 DEF TokenInv
  <1>9. CASE /\ call' = [call EXCEPT ![c] = [@ EXCEPT !.stage = "done", !.result = "error"]]
             /\ UNCHANGED asked
    <2>1. Quiet
      BY <1>2, <1>3, <1>9 DEF Quiet, TypeOK, CallRecords
    <2> QED BY <2>1, QuietStep
  <1> QED BY <1>7, <1>8, <1>9 DEF ReadSecret

LEMMA GrantTokens ==
    ASSUME TypeOK, TokenInv, NEW c \in Calls, GrantToken(c)
    PROVE  TokenInv'
  <1> DEFINE t == Len(issued) + 1
             s == call[c].secret
  <1>1. s \in Secrets /\ Len(issued) \in Nat
    BY DEF TokenInv, LeaderSharesSecret, GrantToken, TypeOK
  <1>2. /\ issued' = Append(issued, s)
        /\ cache' = [k \in Secrets |-> IF k = CacheKey(s) THEN t ELSE 0]
        /\ answer' = [answer EXCEPT ![c] = t]
        /\ UNCHANGED <<asked, call>>
    BY DEF GrantToken
  <1>3. /\ issued'[t] = s
        /\ \A i \in 1 .. Len(issued) : i \in 1 .. Len(issued') /\ issued'[i] = issued[i]
    BY <1>1, <1>2 DEF TypeOK
  <1>4. answer'[c] = t /\ \A d \in Calls \ {c} : answer'[d] = answer[d]
    BY <1>2 DEF TypeOK
  <1>5. call[c].stage = "token"
    BY DEF GrantToken
  <1>6. CacheTrue'
    BY <1>1, <1>2, <1>3 DEF CacheTrue, CacheKey
  <1>7. AskedIsLeader'
    BY <1>2 DEF TokenInv, AskedIsLeader
  <1>8. ASSUME NEW d \in Calls
        PROVE  /\ AnswerTrue(d)' /\ TokenTrue(d)' /\ StartsEmpty(d)'
               /\ LeaderSharesSecret(d)' /\ LeaderIsAsked(d)'
    <2>1. AnswerTrue(d)'
      <3>1. CASE d = c
        BY <3>1, <1>2, <1>3, <1>4 DEF AnswerTrue
      <3>2. CASE d # c
        <4>1. answer[d] \notin {Open, Failed} => answer[d] \in 1 .. Len(issued)
          BY DEF TypeOK
        <4> QED BY <3>2, <4>1, <1>2, <1>3, <1>4 DEF TokenInv, AnswerTrue
      <3> QED BY <3>1, <3>2
    <2>2. TokenTrue(d)'
      BY <1>2, <1>3 DEF TokenInv, TokenTrue
    <2>3. StartsEmpty(d)'
      BY <1>2, <1>4, <1>5 DEF TokenInv, StartsEmpty
    <2>4. LeaderSharesSecret(d)'
      BY <1>2 DEF TokenInv, LeaderSharesSecret
    <2>5. LeaderIsAsked(d)'
      BY <1>1, <1>2, <1>4 DEF TokenInv, LeaderIsAsked, Open
    <2> QED BY <2>1, <2>2, <2>3, <2>4, <2>5
  <1> QED BY <1>6, <1>7, <1>8 DEF TokenInv

LEMMA RefuseTokens ==
    ASSUME TypeOK, TokenInv, NEW c \in Calls, RefuseToken(c)
    PROVE  TokenInv'
  <1>1. /\ answer'[c] = Failed /\ \A d \in Calls \ {c} : answer'[d] = answer[d]
        /\ UNCHANGED <<issued, cache, asked, call>> /\ call[c].stage = "token"
    BY DEF RefuseToken, TypeOK
  <1>2. CacheTrue' /\ AskedIsLeader'
    BY <1>1 DEF TokenInv, CacheTrue, AskedIsLeader
  <1>3. ASSUME NEW d \in Calls
        PROVE  /\ AnswerTrue(d)' /\ TokenTrue(d)' /\ StartsEmpty(d)'
               /\ LeaderSharesSecret(d)' /\ LeaderIsAsked(d)'
    BY <1>1 DEF TokenInv, AnswerTrue, TokenTrue, StartsEmpty, LeaderSharesSecret,
                LeaderIsAsked, Open, Failed
  <1> QED BY <1>2, <1>3 DEF TokenInv

LEMMA TokenArrivesTokens ==
    ASSUME TypeOK, TokenInv, NEW c \in Calls, TokenArrives(c)
    PROVE  TokenInv'
  <1> DEFINE s == call[c].secret
             t == answer[call[c].leader]
  <1>1. /\ call[c].stage = "token" /\ s \in Secrets /\ call[c].leader \in Calls
        /\ call[call[c].leader].secret = s
    BY DEF TokenArrives, TokenInv, LeaderSharesSecret
  <1>2. UNCHANGED <<issued, cache, answer>> /\ t # Open
    BY DEF TokenArrives
  <1>3. \A d \in Calls : d # c => call'[d] = call[d]
    BY DEF TokenArrives, JoinQueue, TypeOK
  <1>4. /\ call'[c].stage \in {"queued", "done"} /\ call'[c].secret = s
        /\ call'[c].token = call[c].token \/ (t # Failed /\ call'[c].token = t)
    <2>1. CASE t # Failed /\ JoinQueue(c, s, t)
      BY <2>1 DEF JoinQueue, TypeOK, CallRecords
    <2>2. CASE call' = [call EXCEPT ![c] = [@ EXCEPT !.stage = "done", !.leader = None,
                                                     !.result = "error"]]
      <3>1. /\ call'[c].stage = "done" /\ call'[c].secret = call[c].secret
            /\ call'[c].token = call[c].token
        BY <2>2, CallFields DEF TypeOK, CallRecords
      <3> QED BY <3>1
    <2> QED BY <2>1, <2>2 DEF TokenArrives
  <1>5. asked' = IF asked[s] = c THEN [asked EXCEPT ![s] = None] ELSE asked
    BY DEF TokenArrives, DropRequest, CacheKey
  <1>6. t # Failed => t \in 1 .. Len(issued) /\ issued[t] = s
    BY <1>1, <1>2 DEF TypeOK, TokenInv, AnswerTrue
  <1> HIDE DEF s, t
  <1>7. CacheTrue'
    BY <1>2 DEF TokenInv, CacheTrue
  <1>8. AskedIsLeader'
    <2> SUFFICES ASSUME NEW k \in Secrets, asked'[k] # None
                 PROVE  /\ call'[asked'[k]].stage = "token"
                        /\ call'[asked'[k]].leader = asked'[k]
                        /\ call'[asked'[k]].secret = k
      BY DEF AskedIsLeader
    <2>1. asked'[k] = asked[k]
      BY <1>1, <1>5 DEF TypeOK
    <2>2. asked[k] \in Calls /\ asked[k] # c
      <3>1. asked[k] = c => k = s
        BY <2>1, Constants DEF TokenInv, AskedIsLeader, s
      <3> QED BY <3>1, <2>1, <1>1, <1>5 DEF TypeOK
    <2> QED BY <2>1, <2>2, <1>3 DEF TokenInv, AskedIsLeader
  <1>9. ASSUME NEW d \in Calls
        PROVE  /\ AnswerTrue(d)' /\ TokenTrue(d)' /\ StartsEmpty(d)'
               /\ LeaderSharesSecret(d)' /\ LeaderIsAsked(d)'
    <2>1. AnswerTrue(d)'
      BY <1>2, <1>3, <1>4 DEF TokenInv, AnswerTrue, s
    <2>2. TokenTrue(d)'
      BY <1>2, <1>3, <1>4, <1>6 DEF TokenInv, TokenTrue, s
    <2>3. StartsEmpty(d)'
      BY <1>2, <1>3, <1>4 DEF TokenInv, StartsEmpty
    <2>4. LeaderSharesSecret(d)'
      BY <1>3, <1>4 DEF TokenInv, LeaderSharesSecret, s
    <2>5. LeaderIsAsked(d)'
      <3>1. CASE d = c
        BY <3>1, <1>4 DEF LeaderIsAsked
      <3>2. CASE d # c
        <4> SUFFICES ASSUME call[d].stage = "token", call[d].leader = d, answer[d] = Open
                     PROVE  asked'[call[d].secret] = d
          BY <3>2, <1>2, <1>3 DEF LeaderIsAsked
        <4>1. asked[call[d].secret] = d /\ call[d].secret \in Secrets
          BY DEF TokenInv, LeaderIsAsked, LeaderSharesSecret
        <4> QED BY <3>2, <4>1, <1>5 DEF TypeOK
      <3> QED BY <3>1, <3>2
    <2> QED BY <2>1, <2>2, <2>3, <2>4, <2>5
  <1> QED BY <1>7, <1>8, <1>9 DEF TokenInv

LEMMA TokenStep == TypeOK /\ TokenInv /\ [Next]_vars => TokenInv'
  <1> SUFFICES ASSUME TypeOK, TokenInv, [Next]_vars PROVE TokenInv'
    OBVIOUS
  <1>1. CASE UNCHANGED vars
    BY <1>1, QuietStep DEF Quiet, vars, oauth
  <1>2. CASE RotateSecret
    BY <1>2, QuietStep DEF Quiet, RotateSecret, oauth
  <1>3. ASSUME NEW s \in Secrets, Age(s) PROVE TokenInv'
    BY <1>3, QuietStep DEF Quiet, Age
  <1>4. ASSUME NEW c \in Calls, Begin(c) \/ Send(c) \/ Retry(c) PROVE TokenInv'
    <2>1. CASE Begin(c)
      BY <2>1, QuietStep DEF Begin, Quiet, oauth, TypeOK, CallRecords
    <2>2. CASE Send(c)
      BY <2>2, QuietStep DEF Send, Quiet, oauth, TypeOK, CallRecords
    <2>3. CASE Retry(c)
      BY <2>3, QuietStep DEF Retry, Quiet, oauth, TypeOK, CallRecords
    <2> QED BY <1>4, <2>1, <2>2, <2>3
  <1>5. ASSUME NEW c \in Calls, Serve(c) PROVE TokenInv'
    BY <1>5, QuietStep DEF Quiet, Serve, oauth
  <1>6. ASSUME NEW c \in Calls, TakeAnswer(c) \/ Throttled(c) \/ Fail(c) PROVE TokenInv'
    <2>1. call[c].stage = "sent" /\ UNCHANGED oauth
      BY <1>6 DEF TakeAnswer, Throttled, Fail
    <2>2. CASE \E result \in Results : End(c, result)
      BY <2>1, <2>2, EndIsQuiet, QuietStep
    <2>3. CASE call' = [call EXCEPT ![c].stage = "backoff", ![c].attempt = @ + 1]
      <3>1. Quiet
        BY <2>1, <2>3 DEF Quiet, oauth, TypeOK, CallRecords
      <3> QED BY <3>1, QuietStep
    <2> QED BY <1>6, <2>2, <2>3 DEF TakeAnswer, Throttled, Fail, Results
  <1> QED BY <1>1, <1>2, <1>3, <1>4, <1>5, <1>6, ReadSecretTokens, GrantTokens, RefuseTokens,
             TokenArrivesTokens DEF Next, Step

-----------------------------------------------------------------------------
(* The queue. *)

\* A step that moves nobody in any line.
Still ==
    /\ UNCHANGED <<tail, released, ahead>>
    /\ \A c \in Calls :
         /\ InLine(c)' <=> InLine(c)
         /\ Running(c)' <=> Running(c)
         /\ InLine(c) => call'[c].token = call[c].token
         /\ call'[c].stage = "queued" => call'[c].previous = call[c].previous
         /\ call[c].stage = "done" => call'[c].stage = "done"

LEMMA StillStep ==
    ASSUME QueueInv, released \subseteq Calls, Still
    PROVE  QueueInv'
  <1>1. \A t : Line(t)' = Line(t)
    BY DEF Still, Line
  <1>2. LineIsOrdered'
    BY DEF QueueInv, LineIsOrdered, Still
  <1>3. ReleasedIsDone'
    BY DEF QueueInv, ReleasedIsDone, Still
  <1>4. TailIsLast'
    BY <1>1 DEF QueueInv, TailIsLast, Still
  <1>5. ASSUME NEW c \in Calls PROVE AheadInLine(c)' /\ WaitsForAll(c)' /\ FirstRuns(c)'
    <2>1. AheadInLine(c)'
      BY <1>1 DEF QueueInv, AheadInLine, Still
    <2>2. WaitsForAll(c)'
      <3>1. call'[c].stage = "queued" => call[c].stage = "queued" /\ InLine(c)
        BY DEF Still, InLine, Running
      <3> QED BY <1>1, <3>1 DEF QueueInv, WaitsForAll, Still
    <2>3. FirstRuns(c)'
      BY DEF QueueInv, FirstRuns, Still
    <2> QED BY <2>1, <2>2, <2>3
  <1> QED BY <1>2, <1>3, <1>4, <1>5 DEF QueueInv

LEMMA JoinStep ==
    ASSUME TypeOK, QueueInv, NEW c \in Calls, NEW s, NEW t \in Tokens,
           call[c].stage \in {"secret", "token"}, JoinQueue(c, s, t)
    PROVE  QueueInv'
  <1>1. /\ call'[c].stage = "queued" /\ call'[c].token = t /\ call'[c].previous = tail[t]
        /\ \A d \in Calls : d # c => call'[d] = call[d]
    BY DEF JoinQueue, TypeOK, CallRecords
  <1>2. /\ tail'[t] = c
        /\ \A u \in Tokens : u # t => tail'[u] = tail[u]
        /\ released' = released
    BY DEF JoinQueue, TypeOK
  <1>3. ahead'[c] = Line(t) /\ \A d \in Calls : d # c => ahead'[d] = ahead[d]
    BY DEF JoinQueue, TypeOK, Line
  <1>4. ~InLine(c) /\ c \notin released /\ InLine(c)'
    BY <1>1 DEF InLine, QueueInv, ReleasedIsDone
  <1>5. \A d \in Calls : d # c => (InLine(d)' <=> InLine(d)) /\ (Running(d)' <=> Running(d))
    BY <1>1 DEF InLine, Running
  <1>6. c \notin Line(t) /\ Line(t)' = Line(t) \cup {c}
    BY <1>1, <1>4, <1>5 DEF Line
  <1>7. \A u \in Tokens : u # t => c \notin Line(u) /\ Line(u)' = Line(u)
    BY <1>1, <1>4, <1>5 DEF Line
  <1>8. LineIsOrdered'
    <2> SUFFICES ASSUME NEW d \in Calls, NEW e \in Calls, d # e, InLine(d)', InLine(e)',
                        call'[d].token = call'[e].token
                 PROVE  d \in ahead'[e] \/ e \in ahead'[d]
      BY DEF LineIsOrdered
    <2>1. CASE d = c
      BY <2>1, <1>1, <1>3, <1>5 DEF Line
    <2>2. CASE e = c
      BY <2>2, <1>1, <1>3, <1>5 DEF Line
    <2>3. CASE d # c /\ e # c
      BY <2>3, <1>1, <1>3, <1>5 DEF QueueInv, LineIsOrdered
    <2> QED BY <2>1, <2>2, <2>3
  <1>9. ReleasedIsDone'
    BY <1>1, <1>2, <1>4 DEF QueueInv, ReleasedIsDone, TypeOK
  <1>10. TailIsLast'
    <2> SUFFICES ASSUME NEW u \in Tokens
                 PROVE  IF tail'[u] = None THEN Line(u)' = {}
                        ELSE /\ tail'[u] \in Line(u)'
                             /\ Line(u)' \ {tail'[u]} \subseteq ahead'[tail'[u]]
      BY DEF TailIsLast
    <2>1. CASE u = t
      BY <2>1, <1>2, <1>3, <1>6, Constants
    <2>2. CASE u # t
      BY <2>2, <1>2, <1>3, <1>7 DEF QueueInv, TailIsLast, TypeOK
    <2> QED BY <2>1, <2>2
  <1>11. ASSUME NEW d \in Calls PROVE AheadInLine(d)' /\ WaitsForAll(d)' /\ FirstRuns(d)'
    <2>1. CASE d = c
      <3>1. AheadInLine(c)'
        BY <1>1, <1>3, <1>4, <1>6 DEF AheadInLine
      <3>2. WaitsForAll(c)'
        <4>1. CASE tail[t] \in released \cup {None}
          <5>1. tail[t] = None
            BY <4>1 DEF QueueInv, TailIsLast, ReleasedIsDone, Line, InLine
          <5> QED BY <5>1, <1>1, <1>2, <1>3 DEF QueueInv, TailIsLast, WaitsForAll
        <4>2. CASE tail[t] \notin released \cup {None}
          <5>1. /\ tail[t] \in Line(t) /\ tail[t] \in Calls /\ tail[t] # c
                /\ Line(t) \ {tail[t]} \subseteq ahead[tail[t]]
            BY <4>2, <1>6 DEF QueueInv, TailIsLast, TypeOK
          <5>2. ahead[tail[t]] \subseteq Line(t) \ {tail[t]}
            BY <5>1 DEF QueueInv, AheadInLine, Line
          <5>3. ahead'[c] = ahead'[tail[t]] \cup {tail[t]}
            BY <5>1, <5>2, <1>3
          <5> QED BY <4>2, <5>1, <5>3, <1>1, <1>2, <1>6 DEF WaitsForAll
        <4> QED BY <4>1, <4>2
      <3>3. FirstRuns(c)'
        BY <1>1 DEF FirstRuns, Running
      <3> QED BY <2>1, <3>1, <3>2, <3>3
    <2>2. CASE d # c
      <3>1. AheadInLine(d)'
        BY <2>2, <1>1, <1>3, <1>5, <1>6, <1>7 DEF QueueInv, AheadInLine
      <3>2. WaitsForAll(d)'
        <4> SUFFICES ASSUME call[d].stage = "queued"
                     PROVE  LET p == call[d].previous IN
                            IF p \in released \cup {None} THEN ahead[d] = {}
                            ELSE /\ p # d /\ p \in Line(call[d].token)'
                                 /\ ahead[d] = ahead'[p] \cup {p}
          BY <2>2, <1>1, <1>2, <1>3 DEF WaitsForAll
        <4>1. call[d].token \in Tokens
          BY DEF QueueInv, AheadInLine, InLine
        <4>2. CASE call[d].previous \notin released \cup {None}
          <5>1. /\ call[d].previous # d /\ call[d].previous \in Line(call[d].token)
                /\ ahead[d] = ahead[call[d].previous] \cup {call[d].previous}
            BY <4>2 DEF QueueInv, WaitsForAll
          <5>2. call[d].previous # c /\ call[d].previous \in Calls
            BY <5>1, <1>4 DEF Line
          <5>3. call[d].previous \in Line(call[d].token)'
            BY <2>2, <4>1, <5>1, <1>1, <1>6, <1>7
          <5> QED BY <4>2, <5>1, <5>2, <5>3, <1>3
        <4>3. CASE call[d].previous \in released \cup {None}
          BY <4>3 DEF QueueInv, WaitsForAll
        <4> QED BY <4>2, <4>3
      <3>3. FirstRuns(d)'
        BY <2>2, <1>3, <1>5 DEF QueueInv, FirstRuns
      <3> QED BY <3>1, <3>2, <3>3
    <2> QED BY <2>1, <2>2
  <1> QED BY <1>8, <1>9, <1>10, <1>11 DEF QueueInv

\* The call before in line is done: so are all that were ahead.
LEMMA TurnComes ==
    ASSUME TypeOK, QueueInv, NEW c \in Calls, Send(c)
    PROVE  QueueInv'
  <1>1. /\ call[c].stage = "queued" /\ call[c].previous \in released \cup {None}
        /\ call'[c].stage = "sent" /\ call'[c].token = call[c].token
        /\ \A d \in Calls : d # c => call'[d] = call[d]
        /\ UNCHANGED <<tail, released, ahead>>
    BY DEF Send, TypeOK, CallRecords, queue
  <1>2. ahead[c] = {}
    BY <1>1 DEF QueueInv, WaitsForAll
  <1>3. /\ InLine(c) /\ InLine(c)'
        /\ \A d \in Calls : d # c => (InLine(d)' <=> InLine(d)) /\ (Running(d)' <=> Running(d))
    BY <1>1 DEF InLine, Running
  <1>4. \A t : Line(t)' = Line(t)
    BY <1>1, <1>3 DEF Line
  <1>5. LineIsOrdered'
    BY <1>1, <1>3 DEF QueueInv, LineIsOrdered
  <1>6. ReleasedIsDone'
    BY <1>1 DEF QueueInv, ReleasedIsDone, TypeOK
  <1>7. TailIsLast'
    BY <1>1, <1>4 DEF QueueInv, TailIsLast
  <1>8. ASSUME NEW d \in Calls PROVE AheadInLine(d)' /\ WaitsForAll(d)' /\ FirstRuns(d)'
    <2>1. AheadInLine(d)'
      BY <1>1, <1>3, <1>4 DEF QueueInv, AheadInLine
    <2>2. WaitsForAll(d)'
      BY <1>1, <1>4 DEF QueueInv, WaitsForAll
    <2>3. FirstRuns(d)'
      BY <1>1, <1>2, <1>3 DEF QueueInv, FirstRuns
    <2> QED BY <2>1, <2>2, <2>3
  <1> QED BY <1>5, <1>6, <1>7, <1>8 DEF QueueInv

\* Nobody is ahead of a call that ends, so that only those behind lose one.
LEMMA EndStep ==
    ASSUME TypeOK, QueueInv, NEW c \in Calls, NEW result,
           call[c].stage = "sent", End(c, result)
    PROVE  QueueInv'
  <1> DEFINE t == call[c].token
  <1>1. /\ call'[c].stage = "done" /\ \A d \in Calls : d # c => call'[d] = call[d]
        /\ released' = released \cup {c}
    BY DEF End, Release, TypeOK, CallRecords
  <1>2. \A d \in Calls : ahead'[d] = ahead[d] \ {c}
    BY DEF End
  <1>3. t \in Tokens /\ InLine(c) /\ ahead[c] = {} /\ ~InLine(c)'
    BY <1>1 DEF QueueInv, AheadInLine, FirstRuns, InLine, Running
  <1>4. tail' = IF tail[t] = c THEN [tail EXCEPT ![t] = None] ELSE tail
    BY DEF End, Release, DropQueue
  <1>5. \A d \in Calls : d # c => (InLine(d)' <=> InLine(d)) /\ (Running(d)' <=> Running(d))
    BY <1>1 DEF InLine, Running
  <1>6. \A u \in Tokens : Line(u)' = Line(u) \ {c}
    BY <1>1, <1>3, <1>5 DEF Line
  <1>7. c \in Line(t) /\ \A u \in Tokens : c \in Line(u) => u = t
    BY <1>3 DEF Line
  <1> HIDE DEF t
  <1>8. LineIsOrdered'
    BY <1>1, <1>2, <1>3, <1>5 DEF QueueInv, LineIsOrdered
  <1>9. ReleasedIsDone'
    BY <1>1 DEF QueueInv, ReleasedIsDone, TypeOK
  <1>10. TailIsLast'
    <2> SUFFICES ASSUME NEW u \in Tokens
                 PROVE  IF tail'[u] = None THEN Line(u)' = {}
                        ELSE /\ tail'[u] \in Line(u)'
                             /\ Line(u)' \ {tail'[u]} \subseteq ahead'[tail'[u]]
      BY DEF TailIsLast
    <2>0. IF tail[u] = None THEN Line(u) = {}
          ELSE tail[u] \in Line(u) /\ Line(u) \ {tail[u]} \subseteq ahead[tail[u]]
      BY DEF QueueInv, TailIsLast
    <2>1. CASE tail[u] = c
      <3>1. u = t /\ tail'[u] = None
        BY <2>0, <2>1, <1>3, <1>4, <1>7, Constants DEF TypeOK
      <3>2. Line(u) \ {c} = {}
        BY <2>0, <2>1, <1>3, Constants
      <3> QED BY <3>1, <3>2, <1>6
    <2>2. CASE tail[u] # c
      <3>1. tail'[u] = tail[u]
        BY <2>2, <1>3, <1>4 DEF TypeOK
      <3>2. tail[u] # None => tail[u] \in Calls
        BY DEF TypeOK
      <3> QED BY <3>1, <3>2, <2>0, <2>2, <1>2, <1>6
    <2> QED BY <2>1, <2>2
  <1>11. ASSUME NEW d \in Calls PROVE AheadInLine(d)' /\ WaitsForAll(d)' /\ FirstRuns(d)'
    <2>1. CASE d = c
      <3>1. ahead'[c] = {}
        BY <1>2, <1>3
      <3> QED BY <2>1, <3>1, <1>1, <1>3 DEF AheadInLine, WaitsForAll, FirstRuns
    <2>2. CASE d # c
      <3>1. AheadInLine(d)'
        BY <2>2, <1>1, <1>2, <1>5, <1>6 DEF QueueInv, AheadInLine
      <3>2. WaitsForAll(d)'
        <4> DEFINE p == call[d].previous
        <4> SUFFICES ASSUME call[d].stage = "queued"
                     PROVE  IF p \in released' \cup {None} THEN ahead'[d] = {}
                            ELSE /\ p # d /\ p \in Line(call[d].token)'
                                 /\ ahead'[d] = ahead'[p] \cup {p}
          BY <2>2, <1>1 DEF WaitsForAll
        <4>1. call[d].token \in Tokens /\ call'[d].token = call[d].token
          BY <2>2, <1>1 DEF QueueInv, AheadInLine, InLine
        <4>2. IF p \in released \cup {None} THEN ahead[d] = {}
              ELSE p # d /\ p \in Line(call[d].token) /\ ahead[d] = ahead[p] \cup {p}
          BY DEF QueueInv, WaitsForAll
        <4> HIDE DEF p
        <4>3. CASE p \in released \cup {None}
          BY <4>2, <4>3, <1>1, <1>2
        <4>4. CASE p \notin released \cup {None} /\ p = c
          BY <4>2, <4>4, <1>1, <1>2, <1>3
        <4>5. CASE p \notin released \cup {None} /\ p # c
          <5>1. p \in Calls
            BY <4>2, <4>5 DEF Line
          <5> QED BY <4>1, <4>2, <4>5, <5>1, <1>1, <1>2, <1>6
        <4> QED BY <4>3, <4>4, <4>5
      <3>3. FirstRuns(d)'
        BY <2>2, <1>2, <1>5 DEF QueueInv, FirstRuns
      <3> QED BY <3>1, <3>2, <3>3
    <2> QED BY <2>1, <2>2
  <1> QED BY <1>8, <1>9, <1>10, <1>11 DEF QueueInv

LEMMA QueueStep == TypeOK /\ TokenInv /\ QueueInv /\ [Next]_vars => QueueInv'
  <1> SUFFICES ASSUME TypeOK, TokenInv, QueueInv, [Next]_vars PROVE QueueInv'
    OBVIOUS
  <1>a. released \subseteq Calls
    BY DEF TypeOK
  \* The environment and the requests for tokens move nobody.
  <1>1. CASE UNCHANGED <<call, queue, ahead>>
    BY <1>1, <1>a, StillStep DEF Still, queue, InLine, Running
  <1>3. ASSUME NEW c \in Calls, Begin(c) PROVE QueueInv'
    BY <1>3, <1>a, StillStep DEF Begin, Still, queue, InLine, Running, TypeOK, CallRecords
  <1>4. ASSUME NEW c \in Calls, ReadSecret(c) PROVE QueueInv'
    <2> DEFINE key == CacheKey(secret)
    <2>1. call[c].stage = "secret"
      BY <1>4 DEF ReadSecret
    <2>2. CASE cache[key] \notin {0} \cup aged /\ JoinQueue(c, secret, cache[key])
      <3>1. cache[key] \in Tokens
        <4>1. key \in Secrets
          BY DEF TypeOK, CacheKey
        <4> QED BY <2>2, <4>1, Constants DEF TypeOK, Tokens
      <3> QED BY <2>1, <2>2, <3>1, JoinStep
    <2>3. CASE /\ call' = [call EXCEPT ![c] = [@ EXCEPT !.stage = "token", !.secret = secret,
                                                        !.leader = Leader(c, key)]]
               /\ UNCHANGED <<queue, ahead>>
      BY <2>1, <2>3, <1>a, StillStep DEF Still, queue, InLine, Running, TypeOK, CallRecords
    <2>4. CASE /\ call' = [call EXCEPT ![c] = [@ EXCEPT !.stage = "done", !.result = "error"]]
               /\ UNCHANGED <<asked, queue, ahead>>
      BY <2>1, <2>4, <1>a, StillStep DEF Still, queue, InLine, Running, TypeOK, CallRecords
    <2> QED BY <2>2, <2>3, <2>4, <1>4 DEF ReadSecret
  <1>5. ASSUME NEW c \in Calls, TokenArrives(c) PROVE QueueInv'
    <2> DEFINE t == answer[call[c].leader]
    <2>1. call[c].stage = "token" /\ t # Open
      BY <1>5 DEF TokenArrives
    <2>2. CASE t # Failed /\ JoinQueue(c, call[c].secret, t)
      <3>1. t \in Tokens
        BY <2>1, <2>2, Constants DEF TypeOK, TokenInv, LeaderSharesSecret, Tokens
      <3> QED BY <2>1, <2>2, <3>1, JoinStep
    <2>3. CASE /\ call' = [call EXCEPT ![c] = [@ EXCEPT !.stage = "done", !.leader = None,
                                                        !.result = "error"]]
               /\ UNCHANGED <<queue, ahead>>
      BY <2>1, <2>3, <1>a, StillStep DEF Still, queue, InLine, Running, TypeOK, CallRecords
    <2> QED BY <2>2, <2>3, <1>5 DEF TokenArrives
  <1>6. ASSUME NEW c \in Calls, TakeAnswer(c) \/ Throttled(c) \/ Fail(c) PROVE QueueInv'
    <2>1. call[c].stage = "sent"
      BY <1>6 DEF TakeAnswer, Throttled, Fail
    <2>2. CASE \E result \in Results : End(c, result)
      BY <2>1, <2>2, EndStep
    <2>3. CASE /\ call' = [call EXCEPT ![c].stage = "backoff", ![c].attempt = @ + 1]
               /\ UNCHANGED <<queue, ahead>>
      BY <2>1, <2>3, <1>a, StillStep DEF Still, queue, InLine, Running, TypeOK, CallRecords
    <2> QED BY <1>6, <2>2, <2>3 DEF TakeAnswer, Throttled, Fail, Results
  <1>7. ASSUME NEW c \in Calls, Retry(c) PROVE QueueInv'
    BY <1>7, <1>a, StillStep DEF Retry, Still, queue, InLine, Running, TypeOK, CallRecords
  <1>8. \/ UNCHANGED <<call, queue, ahead>>
        \/ \E c \in Calls : Begin(c) \/ ReadSecret(c) \/ TokenArrives(c) \/ Send(c)
                            \/ TakeAnswer(c) \/ Throttled(c) \/ Fail(c) \/ Retry(c)
    BY DEF Next, Step, vars, RotateSecret, Age, Serve, GrantToken, RefuseToken
  <1> QED BY <1>1, <1>3, <1>4, <1>5, <1>6, <1>7, <1>8, TurnComes

-----------------------------------------------------------------------------
(* Mutations. *)

LEMMA RunStep == TypeOK /\ RunInv /\ [Next]_vars => RunInv'
  <1> SUFFICES ASSUME TypeOK, RunInv, [Next]_vars, NEW m \in Mutations PROVE SentOnce(m)'
    BY DEF RunInv
  <1>a. m \in Calls /\ SentOnce(m)
    BY Constants DEF RunInv
  <1>b. runs[m] \in Nat
    BY <1>a DEF TypeOK
  <1>1. CASE UNCHANGED <<call, server, runs>>
    BY <1>1, <1>a DEF SentOnce
  \* A call that only gets on with its token or its turn.
  <1>2. ASSUME NEW c \in Calls, Begin(c) \/ ReadSecret(c) \/ TokenArrives(c)
        PROVE  SentOnce(m)'
    <2>1. UNCHANGED <<server, runs>> /\ \A d \in Calls : d # c => call'[d] = call[d]
      BY <1>2 DEF Begin, ReadSecret, TokenArrives, JoinQueue, TypeOK
    <2>2. call[c].stage \in {"idle", "secret", "token"}
      BY <1>2 DEF Begin, ReadSecret, TokenArrives
    <2>3. CASE Begin(c)
      <3>1. call'[c].stage = "secret" /\ call'[c].result = call[c].result
        BY <2>3 DEF Begin, TypeOK, CallRecords
      <3> QED BY <3>1, <1>a, <1>b, <2>1, <2>2 DEF SentOnce
    <2>4. CASE \E s, t : JoinQueue(c, s, t)
      <3>1. call'[c].stage = "queued" /\ call'[c].result = call[c].result
        BY <2>4 DEF JoinQueue, TypeOK, CallRecords
      <3> QED BY <3>1, <1>a, <1>b, <2>1, <2>2 DEF SentOnce
    <2>5. CASE call' = [call EXCEPT ![c] = [@ EXCEPT !.stage = "token", !.secret = secret,
                                              !.leader = Leader(c, CacheKey(secret))]]
      <3>1. call'[c].stage = "token" /\ call'[c].result = call[c].result
        BY <2>5 DEF TypeOK, CallRecords
      <3> QED BY <3>1, <1>a, <1>b, <2>1, <2>2 DEF SentOnce
    <2>6. CASE call'[c].stage = "done" /\ call'[c].result = "error"
      BY <2>6, <1>a, <1>b, <2>1, <2>2 DEF SentOnce
    <2>7. CASE call' = [call EXCEPT ![c] = [@ EXCEPT !.stage = "done", !.result = "error"]]
      BY <2>6, <2>7 DEF TypeOK, CallRecords
    <2>8. CASE call' = [call EXCEPT ![c] = [@ EXCEPT !.stage = "done", !.leader = None,
                                                     !.result = "error"]]
      BY <2>6, <2>8 DEF TypeOK, CallRecords
    <2> QED BY <1>2, <2>3, <2>4, <2>5, <2>7, <2>8 DEF ReadSecret, TokenArrives
  <1>3. ASSUME NEW c \in Calls, Send(c) PROVE SentOnce(m)'
    <2>1. /\ call[c].stage = "queued" /\ call'[c].stage = "sent" /\ server'[c] = "asked"
          /\ call'[c].result = call[c].result
          /\ \A d \in Calls : d # c => call'[d] = call[d] /\ server'[d] = server[d]
          /\ UNCHANGED runs
      BY <1>3 DEF Send, TypeOK, CallRecords
    <2> QED BY <1>a, <1>b, <2>1 DEF SentOnce
  <1>4. ASSUME NEW c \in Calls, Serve(c) PROVE SentOnce(m)'
    <2>1. CASE c # m
      BY <1>4, <1>a, <2>1 DEF Serve, SentOnce, TypeOK
    <2>2. CASE c = m
      <3>1. server[m] = "asked" /\ runs[m] = 0 /\ UNCHANGED call
        BY <1>4, <1>a, <2>2 DEF Serve, SentOnce
      <3>2. \/ server'[m] \in {"ran", "partial"} /\ runs'[m] = 1
            \/ server'[m] \in {"refused", "throttled"} /\ runs'[m] = 0
        BY <1>4, <1>a, <2>2, <3>1 DEF Serve, TypeOK
      <3> QED BY <1>a, <3>1, <3>2 DEF SentOnce
    <2> QED BY <2>1, <2>2
  <1>5. ASSUME NEW c \in Calls, NEW result, End(c, result), UNCHANGED runs,
               call[c].stage = "sent",
               \A d \in Calls : d # c => server'[d] = server[d],
               result = "throttled" => server'[c] = "idle" /\ runs[c] = 0,
               server'[c] = "idle" \/ server'[c] = server[c]
        PROVE  SentOnce(m)'
    <2>1. /\ call'[c].stage = "done" /\ call'[c].result = result
          /\ \A d \in Calls : d # c => call'[d] = call[d]
      BY <1>5 DEF End, TypeOK, CallRecords
    <2> QED BY <1>5, <1>a, <1>b, <2>1 DEF SentOnce
  <1>6. ASSUME NEW c \in Calls, TakeAnswer(c) \/ Fail(c) PROVE SentOnce(m)'
    <2>1. PICK result \in {"data", "error"} : End(c, result)
      BY <1>6 DEF TakeAnswer, Fail
    <2>2. /\ UNCHANGED runs /\ call[c].stage = "sent"
          /\ \A d \in Calls : d # c => server'[d] = server[d]
          /\ server'[c] = "idle" \/ server'[c] = server[c]
      BY <1>6 DEF TakeAnswer, Fail, TypeOK
    <2> QED BY <2>1, <2>2, <1>5
  <1>7. ASSUME NEW c \in Calls, Throttled(c) PROVE SentOnce(m)'
    <2>1. /\ UNCHANGED runs /\ call[c].stage = "sent"
          /\ server[c] = "throttled" /\ server'[c] = "idle"
          /\ \A d \in Calls : d # c => server'[d] = server[d]
      BY <1>7 DEF Throttled, ThrottledAnswer, TypeOK
    <2>2. CASE End(c, IF c \in Mutations THEN "throttled" ELSE "error")
      <3>1. c \in Mutations => runs[c] = 0
        BY <2>1 DEF RunInv, SentOnce
      <3> QED BY <2>1, <2>2, <3>1, <1>5
    <2>3. CASE /\ MayRetry(c)
               /\ call' = [call EXCEPT ![c].stage = "backoff", ![c].attempt = @ + 1]
      <3>1. c # m /\ call'[m] = call[m]
        BY <2>3, <1>a DEF MayRetry, TypeOK
      <3> QED BY <3>1, <2>1, <1>a DEF SentOnce
    <2> QED BY <1>7, <2>2, <2>3 DEF Throttled
  <1>8. ASSUME NEW c \in Calls, Retry(c) PROVE SentOnce(m)'
    <2>1. c # m
      BY <1>8, <1>a DEF Retry, SentOnce
    <2> QED BY <1>8, <1>a, <2>1 DEF Retry, SentOnce, TypeOK
  <1>9. \/ UNCHANGED <<call, server, runs>>
        \/ \E c \in Calls : Begin(c) \/ ReadSecret(c) \/ TokenArrives(c) \/ Send(c) \/ Serve(c)
                            \/ TakeAnswer(c) \/ Throttled(c) \/ Fail(c) \/ Retry(c)
    BY DEF Next, Step, vars, RotateSecret, Age, GrantToken, RefuseToken
  <1> QED BY <1>1, <1>2, <1>3, <1>4, <1>6, <1>7, <1>8, <1>9

-----------------------------------------------------------------------------
\* Every reachable state satisfies the inductive invariant.
THEOREM Invariant == Spec => []IInv
  <1>1. IInv /\ [Next]_vars => IInv'
    BY TypeStep, TokenStep, QueueStep, RunStep DEF IInv
  <1> QED BY <1>1, InitInv, PTL DEF Spec

\* The state has its types, for any number of calls, secrets and tokens.
THEOREM TypeCorrect == Spec => []TypeOK
  <1>1. IInv => TypeOK
    BY DEF IInv
  <1> QED BY <1>1, Invariant, PTL

\* In the line of one token the calls run one at a time, each only when none
\* that came before it is left: the promise chain of serializeStore.
THEOREM InOrderHolds == Spec => []InOrder
  <1>1. IInv => InOrder
    <2> SUFFICES ASSUME IInv, NEW c \in Calls, Running(c)
                 PROVE  /\ ahead[c] = {}
                        /\ \A d \in Calls \ {c} : Running(d) => call[d].token # call[c].token
      BY DEF InOrder
    <2> QED BY DEF IInv, QueueInv, FirstRuns, LineIsOrdered, InLine, Running
  <1> QED BY <1>1, Invariant, PTL

\* A call runs with a token issued for the secret it read, whatever the calls
\* before it, the cache or the request it shared did in between.
THEOREM TokenFollowsSecretHolds == Spec => []TokenFollowsSecret
  <1>1. IInv => TokenFollowsSecret
    BY DEF IInv, TokenInv, TokenTrue, TokenFollowsSecret
  <1> QED BY <1>1, Invariant, PTL

\* One request for a token at a time with one secret: calls that come while it
\* is under way wait for it.
THEOREM SingleFlightHolds == Spec => []SingleFlight
  <1>1. IInv => SingleFlight
    BY DEF IInv, TokenInv, LeaderIsAsked, SingleFlight
  <1> QED BY <1>1, Invariant, PTL

\* Neither map keeps a call that is over, whether it came out well or not.
THEOREM NothingLeftBehindHolds == Spec => []NothingLeftBehind
  <1>1. IInv => NothingLeftBehind
    BY DEF IInv, TokenInv, AskedIsLeader, QueueInv, TailIsLast, Line, NothingLeftBehind
  <1> QED BY <1>1, Invariant, PTL

\* The queues serve every call in turn, and they and the requests for tokens end
\* with the last.
THEOREM ServedInTurnHolds == Spec => []ServedInTurn
  <1>1. InOrder /\ NothingLeftBehind => ServedInTurn
    BY DEF ServedInTurn
  <1> QED BY InOrderHolds, NothingLeftBehindHolds, <1>1, PTL

\* A shared request gives each of its callers a token of the secret it read.
THEOREM SharedTokenHolds == Spec => []SharedToken
  <1>1. SingleFlight /\ TokenFollowsSecret => SharedToken
    BY DEF SharedToken
  <1> QED BY SingleFlightHolds, TokenFollowsSecretHolds, <1>1, PTL

\* A mutation runs once at most, and not at all if its caller is told that it
\* was throttled and may be sent again.
THEOREM RunsOnceHolds == Spec => []RunsOnce
  <1>1. IInv => RunsOnce
    BY DEF IInv, RunInv, SentOnce, RunsOnce
  <1> QED BY <1>1, Invariant, PTL

=============================================================================
