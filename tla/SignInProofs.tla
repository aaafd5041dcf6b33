------------------------------ MODULE SignInProofs ------------------------------
(***************************************************************************)
(* Proofs about SignIn, for every number of browsers, sign-ins, consents,  *)
(* stores and requests and every value of the lifetimes.                   *)
(***************************************************************************)
EXTENDS SignIn, TLAPS

\* The sign-in was begun in this browser.
BegunBy(b, l) == began[l] # None /\ began[l].browser = b

\* What makes it right that the browser of x ends signed in as the person of x:
\* it began the sign-in, and the person is connected to a store it picked.
Granted(x) ==
    /\ BegunBy(x.browser, x.login)
    /\ x.store \in picked[x.login]
    /\ <<x.email, x.store>> \in connected

\* If this consent still waits for its decision, it waits in this browser.
ShownTo(b, k) == k \in asked /\ (consent[k] # None => consent[k].browser = b)

\* A pending sign-in expires as it did when it began, however often it is put
\* back, and names no store but one its beginner picked.
PendingKept ==
    \A l \in Logins : pending[l] # None =>
        /\ began[l] # None
        /\ pending[l].expiresAt = began[l].at + PendingTtl
        /\ pending[l].store # None => pending[l].store \in picked[l]

\* A binding cookie is held only by the browser that began the sign-in, a
\* consent screen only by the browser its record is bound to.
BrowsersBound ==
    /\ \A b \in Browsers : \A l \in cookies[b] : BegunBy(b, l)
    /\ \A b \in Browsers : \A k \in form[b] : ShownTo(b, k)

\* A consent is asked for only after the sign-in is right.
ConsentsRight == \A k \in Consents : consent[k] # None => k \in asked /\ Granted(consent[k])

\* A consent that gave a code is gone, and its id is not given again.
CodesFinal ==
    \A k \in Consents : codes[k] # 0 => codes[k] = 1 /\ k \in asked /\ consent[k] = None

StoresOK ==
    /\ PendingKept /\ BrowsersBound /\ ConsentsRight /\ CodesFinal
    /\ \A x \in signedIn : Granted(x)

\* A request on its way through the chooser and the callback.
OnLogin(e) ==
    /\ e.stage \in {"choose", "set_get", "set_put", "callback", "take", "exchange", "complete"} =>
         e.login \in Logins /\ e.store \in Stores /\ began[e.login] # None
    /\ e.stage \in {"choose", "callback"} /\ e.bound => BegunBy(e.browser, e.login)
    /\ e.stage \in {"set_get", "set_put", "take", "exchange", "complete"}
         => BegunBy(e.browser, e.login)
    /\ e.stage \in {"set_get", "set_put"} => e.store \in picked[e.login]
    /\ e.stage \in {"choose", "set_get", "set_put"} => e.reply \in {"keep", "set"}
    /\ e.stage = "set_put" =>
         e.record \in PendingRecords /\ e.record.expiresAt = began[e.login].at + PendingTtl
    /\ e.stage \in {"exchange", "complete"} =>
         /\ e.record \in PendingRecords
         /\ e.record.store = e.store /\ e.store \in picked[e.login]
    /\ e.stage = "complete" => e.email \in Browsers /\ <<e.email, e.store>> \in connected

\* A request on its way through the decision.
OnConsent(e) ==
    /\ e.stage \in {"decide", "take_consent", "issue"} => e.consent \in asked
    /\ e.stage = "decide" /\ e.bound => ShownTo(e.browser, e.consent)
    /\ e.stage \in {"take_consent", "issue"} =>
         e.record \in ConsentRecords /\ Granted(e.record) /\ e.record.browser = e.browser
    /\ e.stage = "issue" => consent[e.consent] = None /\ codes[e.consent] = 0

\* A response on its way to the browser.
OnReturn(e) ==
    /\ e.stage # "idle" => e.browser \in Browsers
    /\ e.stage = "respond" /\ e.reply = "set" => e.login \in Logins /\ BegunBy(e.browser, e.login)
    /\ e.stage = "respond" /\ e.reply = "show" =>
         e.consent \in Consents /\ ShownTo(e.browser, e.consent)

RequestOK(q) == OnLogin(req[q]) /\ OnConsent(req[q]) /\ OnReturn(req[q])

\* Nobody else acts on the decision that a request issues a code for.
OneIssuer ==
    \A r, q \in Requests :
        r # q /\ At(r, "issue") /\ At(q, "issue") => req[r].consent # req[q].consent

IInv == TypeOK /\ StoresOK /\ (\A q \in Requests : RequestOK(q)) /\ OneIssuer

-----------------------------------------------------------------------------
LEMMA InitInv == Init => IInv
  <1> SUFFICES ASSUME Init PROVE IInv
    OBVIOUS
  <1> USE DEF Init
  <1>1. TypeOK
    <2>1. Idle \in Locals
      BY DEF Idle, Locals, Stages
    <2> QED BY <2>1 DEF TypeOK
  <1>2. StoresOK
    BY DEF StoresOK, PendingKept, BrowsersBound, ConsentsRight, CodesFinal
  <1>3. \A q \in Requests : RequestOK(q)
    BY DEF RequestOK, OnLogin, OnConsent, OnReturn, Idle
  <1>4. OneIssuer
    BY DEF OneIssuer, At, Idle
  <1> QED BY <1>1, <1>2, <1>3, <1>4 DEF IInv

OthersKept(r) == \A q \in Requests \ {r} : req'[q] = req[q]

\* A request goes on with the locals e.
LEMMA Assigned ==
    ASSUME TypeOK, NEW r \in Requests, NEW e \in Locals, req' = [req EXCEPT ![r] = e]
    PROVE  req' \in [Requests -> Locals] /\ OthersKept(r) /\ req'[r] = e
  BY DEF TypeOK, OthersKept

\* The moves that end an action of a request.
LEMMA Moves ==
    ASSUME TypeOK, NEW r \in Requests
    PROVE  /\ End(r) => /\ req' \in [Requests -> Locals] /\ OthersKept(r)
                        /\ req'[r] = Idle /\ req'[r].stage = "idle"
           /\ \A re \in {"keep", "set", "clear", "show", "decided"} :
                RespondWith(r, re) =>
                  /\ req' \in [Requests -> Locals] /\ OthersKept(r)
                  /\ req'[r].stage = "respond" /\ req'[r].reply = re
                  /\ req'[r].browser = req[r].browser /\ req'[r].login = req[r].login
                  /\ req'[r].consent = req[r].consent
           /\ \A stage \in Stages :
                GoTo(r, stage) =>
                  /\ req' \in [Requests -> Locals] /\ OthersKept(r)
                  /\ req'[r] = [req[r] EXCEPT !.stage = stage]
                  /\ req'[r].stage = stage /\ req'[r].browser = req[r].browser
                  /\ req'[r].login = req[r].login /\ req'[r].store = req[r].store
                  /\ req'[r].consent = req[r].consent /\ req'[r].record = req[r].record
                  /\ req'[r].bound = req[r].bound /\ req'[r].reply = req[r].reply
                  /\ req'[r].email = req[r].email
  <1>1. req \in [Requests -> Locals] /\ req[r] \in Locals
    BY DEF TypeOK
  <1>2. ASSUME End(r)
        PROVE  /\ req' \in [Requests -> Locals] /\ OthersKept(r)
               /\ req'[r] = Idle /\ req'[r].stage = "idle"
    <2>1. Idle \in Locals /\ Idle.stage = "idle"
      BY DEF Idle, Locals, Stages
    <2> QED BY <1>2, <2>1, Assigned DEF End
  <1>3. ASSUME NEW re \in {"keep", "set", "clear", "show", "decided"}, RespondWith(r, re)
        PROVE  /\ req' \in [Requests -> Locals] /\ OthersKept(r)
               /\ req'[r].stage = "respond" /\ req'[r].reply = re
               /\ req'[r].browser = req[r].browser /\ req'[r].login = req[r].login
               /\ req'[r].consent = req[r].consent
    <2> DEFINE e == [Idle EXCEPT !.stage = "respond", !.browser = req[r].browser,
                       !.login = req[r].login, !.consent = req[r].consent, !.reply = re]
    <2>1. /\ e \in Locals /\ e.stage = "respond" /\ e.reply = re
          /\ e.browser = req[r].browser /\ e.login = req[r].login /\ e.consent = req[r].consent
      BY <1>1 DEF Idle, Locals, Stages
    <2>2. req' = [req EXCEPT ![r] = e]
      BY <1>3 DEF RespondWith
    <2> HIDE DEF e
    <2> QED BY <2>1, <2>2, Assigned
  <1>4. ASSUME NEW stage \in Stages, GoTo(r, stage)
        PROVE  /\ req' \in [Requests -> Locals] /\ OthersKept(r)
               /\ req'[r] = [req[r] EXCEPT !.stage = stage]
               /\ req'[r].stage = stage /\ req'[r].browser = req[r].browser
               /\ req'[r].login = req[r].login /\ req'[r].store = req[r].store
               /\ req'[r].consent = req[r].consent /\ req'[r].record = req[r].record
               /\ req'[r].bound = req[r].bound /\ req'[r].reply = req[r].reply
               /\ req'[r].email = req[r].email
    <2> DEFINE e == [req[r] EXCEPT !.stage = stage]
    <2>1. /\ e \in Locals /\ e.stage = stage /\ e.browser = req[r].browser
          /\ e.login = req[r].login /\ e.store = req[r].store /\ e.consent = req[r].consent
          /\ e.record = req[r].record /\ e.bound = req[r].bound /\ e.reply = req[r].reply
          /\ e.email = req[r].email
      BY <1>1 DEF Locals
    <2>2. req' = [req EXCEPT ![r] = e]
      BY <1>4, <1>1 DEF GoTo
    <2> QED BY <2>1, <2>2, Assigned
  <1> QED BY <1>2, <1>3, <1>4

\* What a step of request r may do to what the other requests rely on.
Grown(r) ==
    /\ OthersKept(r)
    /\ \A l \in Logins : began[l] # None => began'[l] = began[l] /\ picked[l] \subseteq picked'[l]
    /\ connected \subseteq connected' /\ asked \subseteq asked'
    /\ \A k \in asked : consent'[k] \in {consent[k], None}
    /\ \A q \in Requests \ {r} :
         At(q, "issue") => codes'[req[q].consent] = codes[req[q].consent]

LEMMA GrantedStays ==
    ASSUME NEW r, Grown(r), NEW x, x.login \in Logins, Granted(x)
    PROVE  Granted(x)'
  BY DEF Grown, Granted, BegunBy

LEMMA OthersStay ==
    ASSUME IInv, NEW r \in Requests, Grown(r)
    PROVE  \A q \in Requests \ {r} : RequestOK(q)'
  <1> SUFFICES ASSUME NEW q \in Requests \ {r} PROVE RequestOK(q)'
    OBVIOUS
  <1> DEFINE e == req[q]
  <1>1. req'[q] = e /\ RequestOK(q) /\ asked \subseteq Consents
    BY DEF Grown, OthersKept, IInv, TypeOK
  <1>2. OnLogin(e)'
    <2>1. OnLogin(e)
      BY <1>1 DEF RequestOK
    <2> QED BY <1>1, <2>1 DEF OnLogin, BegunBy, Grown
  <1>3. OnConsent(e)'
    <2>1. OnConsent(e)
      BY <1>1 DEF RequestOK
    <2>2. e.stage \in {"take_consent", "issue"} => Granted(e.record)'
      <3>1. e.stage \in {"take_consent", "issue"} => e.record.login \in Logins /\ Granted(e.record)
        BY <2>1 DEF OnConsent, ConsentRecords
      <3> QED BY <1>1, <3>1 DEF Granted, BegunBy, Grown
    <2>3. e.stage = "decide" /\ e.bound => ShownTo(e.browser, e.consent)'
      BY <1>1, <2>1 DEF OnConsent, ShownTo, Grown
    <2>4. e.stage = "issue" => consent'[e.consent] = None /\ codes'[e.consent] = 0
      BY <1>1, <2>1 DEF OnConsent, Grown, At
    <2> QED BY <1>1, <2>1, <2>2, <2>3, <2>4 DEF OnConsent, Grown
  <1>4. OnReturn(e)'
    <2>1. OnReturn(e)
      BY <1>1 DEF RequestOK
    <2> QED BY <1>1, <2>1 DEF OnReturn, BegunBy, ShownTo, Grown
  <1> QED BY <1>2, <1>3, <1>4 DEF RequestOK

LEMMA StoresStay ==
    ASSUME IInv, UNCHANGED <<pending, consent, browser, began, asked, codes, signedIn>>,
           connected \subseteq connected',
           \A l \in Logins : picked[l] \subseteq picked'[l]
    PROVE  StoresOK'
  <1> USE DEF IInv, StoresOK, browser
  <1>1. PendingKept'
    BY DEF PendingKept
  <1>2. BrowsersBound'
    BY DEF BrowsersBound, BegunBy, ShownTo
  <1>3. ConsentsRight'
    <2>1. \A k \in Consents : consent[k] # None => consent[k].login \in Logins
      BY DEF TypeOK, ConsentRecords
    <2> QED BY <2>1 DEF ConsentsRight, Granted, BegunBy
  <1>4. CodesFinal'
    BY DEF CodesFinal
  <1>5. \A x \in signedIn' : Granted(x)'
    <2>1. \A x \in signedIn : x.login \in Logins
      BY DEF TypeOK, Outcomes
    <2> QED BY <2>1 DEF Granted, BegunBy
  <1> QED BY <1>1, <1>2, <1>3, <1>4, <1>5

\* A step that changes a request, and at most lets its browser pick a store.
LEMMA QuietStep ==
    ASSUME IInv, NEW r \in Requests, OthersKept(r), req' \in [Requests -> Locals],
           UNCHANGED <<now, pending, consent, connected, browser,
                       began, taken, asked, codes, signedIn>>,
           picked' \in [Logins -> SUBSET Stores], \A l \in Logins : picked[l] \subseteq picked'[l],
           RequestOK(r)', ~At(r, "issue")'
    PROVE  IInv'
  <1>1. TypeOK'
    BY DEF IInv, TypeOK, browser
  <1>2. Grown(r)
    BY DEF Grown
  <1>3. \A q \in Requests : RequestOK(q)'
    BY <1>2, OthersStay
  <1>4. OneIssuer'
    BY DEF IInv, OneIssuer, OthersKept, At
  <1> QED BY <1>1, <1>3, <1>4, StoresStay DEF IInv

\* A request that ends, or answers with nothing but "clear" or "decided", holds
\* nothing that the invariant speaks of.
LEMMA AnswerOK ==
    ASSUME IInv, NEW r \in Requests, ~At(r, "idle"),
           End(r) \/ RespondWith(r, "clear") \/ RespondWith(r, "decided")
    PROVE  /\ RequestOK(r)' /\ ~At(r, "issue")'
           /\ OthersKept(r) /\ req' \in [Requests -> Locals]
  <1>1. TypeOK /\ req[r].browser \in Browsers
    BY DEF IInv, RequestOK, OnReturn, At
  <1>2. CASE End(r)
    BY <1>1, <1>2, Moves DEF RequestOK, OnLogin, OnConsent, OnReturn, At
  <1>3. CASE RespondWith(r, "clear") \/ RespondWith(r, "decided")
    <2>1. /\ req' \in [Requests -> Locals] /\ OthersKept(r)
          /\ req'[r].stage = "respond" /\ req'[r].reply \in {"clear", "decided"}
          /\ req'[r].browser = req[r].browser
      BY <1>1, <1>3, Moves
    <2> QED BY <1>1, <2>1 DEF RequestOK, OnLogin, OnConsent, OnReturn, At
  <1> QED BY <1>2, <1>3

-----------------------------------------------------------------------------
(* One lemma per kind of step: sign-in *)

LEMMA BeginStep ==
    ASSUME IInv, NEW r \in Requests, NEW b \in Browsers, NEW l \in Logins,
           NEW kind \in {"app", "page"}, Begin(r, b, l, kind)
    PROVE  IInv'
  <1>a. /\ TypeOK /\ StoresOK /\ OneIssuer /\ RequestOK(r) /\ now \in Nat
        /\ began[l] = None /\ At(r, "idle")
    BY DEF IInv, Begin, TypeOK
  <1> DEFINE first  == [browser |-> b, at |-> now]
             record == [browser |-> b, kind |-> kind, store |-> None,
                        expiresAt |-> now + PendingTtl]
  <1>b. /\ first \in Beginnings /\ first.browser = b /\ first.at = now
        /\ record \in PendingRecords /\ record.store = None
        /\ record.expiresAt = now + PendingTtl
    BY <1>a, SignInAssumption DEF PendingRecords, Beginnings
  <1>c. /\ began' = [began EXCEPT ![l] = first] /\ pending' = [pending EXCEPT ![l] = record]
        /\ UNCHANGED <<now, consent, connected, browser, taken, asked, codes, signedIn>>
    BY DEF Begin
  <1> HIDE DEF first, record
  <1>d. first # None
    BY <1>b, SignInAssumption
  <1>e. /\ req' \in [Requests -> Locals] /\ OthersKept(r)
        /\ req'[r].browser = b /\ req'[r].login = l /\ req'[r].reply = "set"
        /\ picked' \in [Logins -> SUBSET Stores]
        /\ \A m \in Logins \ {l} : picked'[m] = picked[m]
        /\ \/ req'[r].stage = "respond"
           \/ /\ req'[r].stage = "set_get" /\ req'[r].store \in Stores
              /\ req'[r].store \in picked'[l]
    <2>1. CASE /\ UNCHANGED picked
               /\ req' = [req EXCEPT ![r] = [Idle EXCEPT !.stage = "respond", !.browser = b,
                                                         !.login = l, !.reply = "set"]]
      <3> DEFINE e == [Idle EXCEPT !.stage = "respond", !.browser = b, !.login = l, !.reply = "set"]
      <3>1. /\ e \in Locals /\ e.stage = "respond" /\ e.browser = b /\ e.login = l
            /\ e.reply = "set"
        BY DEF Idle, Locals, Stages
      <3> HIDE DEF e
      <3> QED BY <2>1, <3>1, <1>a, Assigned DEF TypeOK, e
    <2>2. ASSUME NEW s \in Stores,
                 req' = [req EXCEPT ![r] = [Idle EXCEPT !.stage = "set_get", !.browser = b,
                                            !.login = l, !.store = s, !.reply = "set"]],
                 picked' = [picked EXCEPT ![l] = {s}]
          PROVE  /\ req' \in [Requests -> Locals] /\ OthersKept(r)
                 /\ req'[r].browser = b /\ req'[r].login = l /\ req'[r].reply = "set"
                 /\ picked' \in [Logins -> SUBSET Stores]
                 /\ \A m \in Logins \ {l} : picked'[m] = picked[m]
                 /\ req'[r].stage = "set_get" /\ req'[r].store \in Stores
                 /\ req'[r].store \in picked'[l]
      <3> DEFINE e == [Idle EXCEPT !.stage = "set_get", !.browser = b, !.login = l,
                                   !.store = s, !.reply = "set"]
      <3>1. /\ e \in Locals /\ e.stage = "set_get" /\ e.browser = b /\ e.login = l
            /\ e.reply = "set" /\ e.store = s
        BY DEF Idle, Locals, Stages
      <3>2. req' = [req EXCEPT ![r] = e]
        BY <2>2
      <3> HIDE DEF e
      <3>3. /\ req' \in [Requests -> Locals] /\ OthersKept(r) /\ req'[r] = e
        BY <3>1, <3>2, <1>a, Assigned
      <3>4. /\ picked' \in [Logins -> SUBSET Stores] /\ picked'[l] = {s}
            /\ \A m \in Logins \ {l} : picked'[m] = picked[m]
        BY <2>2, <1>a DEF TypeOK
      <3> QED BY <3>1, <3>3, <3>4
    <2> QED BY <2>1, <2>2 DEF Begin
  <1>f. began'[l] = first /\ \A m \in Logins \ {l} : began'[m] = began[m]
    BY <1>a, <1>c DEF TypeOK
  <1>g. Grown(r)
    BY <1>a, <1>c, <1>e, <1>f DEF Grown
  <1>h. BegunBy(b, l)'
    BY <1>b, <1>d, <1>f DEF BegunBy
  <1>1. TypeOK'
    <2>1. began' \in [Logins -> Beginnings \cup {None}]
      BY <1>a, <1>b, <1>c DEF TypeOK
    <2>2. pending' \in [Logins -> PendingRecords \cup {None}]
      BY <1>a, <1>b, <1>c DEF TypeOK
    <2> QED BY <1>a, <1>c, <1>e, <2>1, <2>2 DEF TypeOK, browser
  <1>2. RequestOK(r)'
    BY <1>e, <1>f, <1>h, <1>b, <1>d DEF RequestOK, OnLogin, OnConsent, OnReturn, BegunBy
  <1>3. StoresOK'
    <2>1. PendingKept'
      <3>1. ASSUME NEW m \in Logins, m # l, pending'[m] # None
            PROVE  /\ began'[m] # None /\ pending'[m].expiresAt = began'[m].at + PendingTtl
                   /\ pending'[m].store # None => pending'[m].store \in picked'[m]
        BY <3>1, <1>a, <1>c, <1>e, <1>f DEF StoresOK, PendingKept, TypeOK
      <3>2. pending'[l] = record
        BY <1>a, <1>c DEF TypeOK
      <3> QED BY <3>1, <3>2, <1>b, <1>d, <1>f DEF PendingKept
    <2>2. BrowsersBound'
      <3>1. \A d \in Browsers : cookies[d] \subseteq Logins
        BY <1>a DEF TypeOK
      <3> QED BY <3>1, <1>a, <1>c, <1>f DEF StoresOK, BrowsersBound, BegunBy, ShownTo, browser
    <2>3. ConsentsRight'
      <3>1. \A k \in Consents : consent[k] # None => consent[k].login \in Logins
        BY <1>a DEF TypeOK, ConsentRecords
      <3> QED BY <3>1, <1>a, <1>c, <1>e, <1>f DEF StoresOK, ConsentsRight, Granted, BegunBy
    <2>4. CodesFinal'
      BY <1>a, <1>c DEF StoresOK, CodesFinal
    <2>5. \A x \in signedIn' : Granted(x)'
      <3>1. \A x \in signedIn : x.login \in Logins
        BY <1>a DEF TypeOK, Outcomes
      <3> QED BY <3>1, <1>a, <1>c, <1>e, <1>f DEF StoresOK, Granted, BegunBy
    <2> QED BY <2>1, <2>2, <2>3, <2>4, <2>5 DEF StoresOK
  <1>4. OneIssuer'
    BY <1>a, <1>e DEF OneIssuer, OthersKept, At
  <1>5. \A q \in Requests : RequestOK(q)'
    BY <1>2, <1>g, OthersStay
  <1> QED BY <1>1, <1>3, <1>4, <1>5 DEF IInv

LEMMA SendStep ==
    ASSUME IInv, NEW r \in Requests, NEW b \in Browsers, NEW l \in Logins, NEW s \in Stores,
           SendChoice(r, b, l, s) \/ SendCallback(r, b, l, s)
    PROVE  IInv'
  <1>a. TypeOK /\ StoresOK /\ began[l] # None
    BY DEF IInv, SendChoice, SendCallback
  <1>1. PICK stage \in {"choose", "callback"} :
          /\ req' = [req EXCEPT ![r] = [Idle EXCEPT !.stage = stage, !.browser = b,
                                   !.bound = HoldsBinding(b, l), !.login = l, !.store = s]]
          /\ UNCHANGED <<now, pending, consent, connected, browser, history>>
    BY DEF SendChoice, SendCallback
  <1> DEFINE bind == HoldsBinding(b, l)
             e == [Idle EXCEPT !.stage = stage, !.browser = b, !.bound = bind, !.login = l,
                               !.store = s]
  <1>2. bind \in BOOLEAN /\ (bind => BegunBy(b, l))
    BY <1>a DEF HoldsBinding, StoresOK, BrowsersBound
  <1>3. req' = [req EXCEPT ![r] = e]
    BY <1>1
  <1> HIDE DEF bind
  <1>4. /\ e \in Locals /\ e.stage = stage /\ e.browser = b /\ (e.bound <=> bind)
        /\ e.login = l /\ e.store = s
    <2>1. CASE bind = TRUE
      BY <2>1 DEF Idle, Locals, Stages
    <2>2. CASE bind = FALSE
      BY <2>2 DEF Idle, Locals, Stages
    <2> QED BY <1>2, <2>1, <2>2
  <1> HIDE DEF e
  <1>5. req' \in [Requests -> Locals] /\ OthersKept(r) /\ req'[r] = e
    BY <1>a, <1>3, <1>4, Assigned
  <1>6. RequestOK(r)' /\ ~At(r, "issue")'
    BY <1>a, <1>1, <1>2, <1>4, <1>5
    DEF RequestOK, OnLogin, OnConsent, OnReturn, BegunBy, At, history, Idle, e
  <1> QED BY <1>1, <1>5, <1>6, <1>a, QuietStep DEF history, TypeOK

LEMMA ChooseStep ==
    ASSUME IInv, NEW r \in Requests, Choose(r)
    PROVE  IInv'
  <1>a. /\ TypeOK /\ RequestOK(r) /\ At(r, "choose") /\ req[r] \in Locals
        /\ UNCHANGED <<now, pending, consent, connected, browser, began, taken, asked, codes,
                       signedIn>>
    BY DEF IInv, Choose, TypeOK
  <1>1. CASE End(r) /\ UNCHANGED picked
    BY <1>1, <1>a, AnswerOK, QuietStep DEF At, TypeOK
  <1>2. CASE /\ GoTo(r, "set_get") /\ req[r].bound
             /\ picked' = [picked EXCEPT ![req[r].login] = @ \cup {req[r].store}]
    <2> DEFINE l == req[r].login
    <2>1. l \in Logins /\ req[r].store \in Stores /\ BegunBy(req[r].browser, l)
      BY <1>2, <1>a DEF RequestOK, OnLogin, At
    <2>2. /\ picked' \in [Logins -> SUBSET Stores] /\ req[r].store \in picked'[l]
          /\ \A m \in Logins : picked[m] \subseteq picked'[m]
      BY <1>2, <1>a, <2>1 DEF TypeOK
    <2>3. /\ req' \in [Requests -> Locals] /\ OthersKept(r) /\ req'[r].stage = "set_get"
          /\ req'[r].browser = req[r].browser /\ req'[r].login = l
          /\ req'[r].store = req[r].store /\ req'[r].reply = req[r].reply
      BY <1>2, <1>a, Moves DEF Stages
    <2>4. req[r].reply \in {"keep", "set"}
      BY <1>a DEF RequestOK, OnLogin, At
    <2>5. RequestOK(r)' /\ ~At(r, "issue")'
      BY <1>a, <2>1, <2>2, <2>3, <2>4 DEF RequestOK, OnLogin, OnConsent, OnReturn, BegunBy, At
    <2> QED BY <1>a, <2>2, <2>3, <2>5, QuietStep
  <1> QED BY <1>1, <1>2 DEF Choose

\* The answer that takes the browser to Shopify.
LEMMA RedirectOK ==
    ASSUME IInv, NEW r \in Requests, At(r, "set_get") \/ At(r, "set_put"), Redirect(r),
           UNCHANGED began
    PROVE  RequestOK(r)' /\ ~At(r, "issue")' /\ OthersKept(r) /\ req' \in [Requests -> Locals]
  <1>a. /\ TypeOK /\ req[r].browser \in Browsers /\ req[r].login \in Logins
        /\ BegunBy(req[r].browser, req[r].login)
    BY DEF IInv, RequestOK, OnLogin, OnReturn, At
  <1>1. CASE End(r)
    BY <1>1, <1>a, AnswerOK DEF At
  <1>2. CASE RespondWith(r, "set")
    <2>1. /\ req' \in [Requests -> Locals] /\ OthersKept(r)
          /\ req'[r].stage = "respond" /\ req'[r].reply = "set"
          /\ req'[r].browser = req[r].browser /\ req'[r].login = req[r].login
      BY <1>2, <1>a, Moves
    <2> QED BY <2>1, <1>a DEF RequestOK, OnLogin, OnConsent, OnReturn, BegunBy, At
  <1> QED BY <1>1, <1>2 DEF Redirect

LEMMA SetGetStep ==
    ASSUME IInv, NEW r \in Requests, SetGet(r)
    PROVE  IInv'
  <1>a. /\ TypeOK /\ StoresOK /\ RequestOK(r) /\ At(r, "set_get") /\ req[r] \in Locals
        /\ UNCHANGED <<now, pending, consent, connected, browser, history>>
    BY DEF IInv, SetGet, TypeOK
  <1>1. CASE Redirect(r)
    BY <1>1, <1>a, RedirectOK, QuietStep DEF history, TypeOK
  <1>2. CASE /\ Live(pending[req[r].login])
             /\ req' = [req EXCEPT ![r].stage = "set_put", ![r].record = pending[req[r].login]]
    <2> DEFINE l == req[r].login
               record == pending[l]
               e == [req[r] EXCEPT !.stage = "set_put", !.record = record]
    <2>1. /\ l \in Logins /\ req[r].store \in Stores /\ BegunBy(req[r].browser, l)
          /\ req[r].browser \in Browsers
          /\ req[r].store \in picked[l] /\ req[r].reply \in {"keep", "set"}
      BY <1>a DEF RequestOK, OnLogin, OnReturn, At
    <2>2. record \in PendingRecords /\ record.expiresAt = began[l].at + PendingTtl
      BY <1>2, <1>a, <2>1 DEF Live, StoresOK, PendingKept, TypeOK
    <2>3. req' = [req EXCEPT ![r] = e]
      BY <1>2, <1>a DEF TypeOK
    <2> HIDE DEF record, l
    <2>4. /\ e \in Locals /\ e.stage = "set_put" /\ e.browser = req[r].browser
          /\ e.login = req[r].login /\ e.store = req[r].store /\ e.record = record
          /\ e.reply = req[r].reply
      BY <1>a, <2>2 DEF Locals, Stages
    <2> HIDE DEF e
    <2>5. req' \in [Requests -> Locals] /\ OthersKept(r) /\ req'[r] = e
      BY <2>3, <2>4, <1>a, Assigned
    <2>6. RequestOK(r)' /\ ~At(r, "issue")'
      BY <1>a, <2>1, <2>2, <2>4, <2>5
      DEF RequestOK, OnLogin, OnConsent, OnReturn, BegunBy, At, history, l
    <2> QED BY <1>a, <2>5, <2>6, QuietStep DEF history, TypeOK
  <1> QED BY <1>1, <1>2 DEF SetGet

LEMMA SetPutStep ==
    ASSUME IInv, NEW r \in Requests, SetPut(r)
    PROVE  IInv'
  <1> DEFINE l == req[r].login
             record == WithStore(r)
  <1>a. /\ TypeOK /\ StoresOK /\ OneIssuer /\ RequestOK(r) /\ At(r, "set_put")
        /\ req[r] \in Locals
        /\ pending' = [pending EXCEPT ![l] = record] /\ Redirect(r)
        /\ UNCHANGED <<now, consent, connected, browser, history>>
    BY DEF IInv, SetPut, TypeOK
  <1>1. /\ l \in Logins /\ began[l] # None /\ req[r].store \in picked[l] /\ req[r].store \in Stores
        /\ req[r].record \in PendingRecords /\ req[r].record.expiresAt = began[l].at + PendingTtl
    BY <1>a DEF RequestOK, OnLogin, At
  <1>2. /\ record \in PendingRecords /\ record.store = req[r].store
        /\ record.expiresAt = req[r].record.expiresAt
    BY <1>1 DEF WithStore, PendingRecords
  <1> HIDE DEF record, l
  <1>3. /\ RequestOK(r)' /\ ~At(r, "issue")' /\ OthersKept(r) /\ req' \in [Requests -> Locals]
    BY <1>a, RedirectOK DEF history
  <1>4. TypeOK'
    <2>1. pending' \in [Logins -> PendingRecords \cup {None}]
      BY <1>a, <1>2 DEF TypeOK
    <2> QED BY <1>a, <1>3, <2>1 DEF TypeOK, browser, history
  <1>5. \A q \in Requests : RequestOK(q)'
    BY <1>a, <1>3, OthersStay DEF Grown, history
  <1>6. StoresOK'
    <2>1. PendingKept'
      <3>1. pending'[l] = record /\ \A m \in Logins \ {l} : pending'[m] = pending[m]
        BY <1>a, <1>1 DEF TypeOK
      <3> QED BY <3>1, <1>a, <1>1, <1>2 DEF StoresOK, PendingKept, history
    <2> QED BY <2>1, <1>a DEF StoresOK, BrowsersBound, ConsentsRight, CodesFinal, Granted,
                              BegunBy, ShownTo, browser, history
  <1>7. OneIssuer'
    BY <1>a, <1>3 DEF OneIssuer, OthersKept, At
  <1> QED BY <1>4, <1>5, <1>6, <1>7 DEF IInv

LEMMA PeekStep ==
    ASSUME IInv, NEW r \in Requests, Peek(r)
    PROVE  IInv'
  <1>a. /\ TypeOK /\ RequestOK(r) /\ At(r, "callback") /\ req[r] \in Locals
        /\ UNCHANGED <<now, pending, consent, connected, browser, history>>
    BY DEF IInv, Peek, TypeOK
  <1>1. CASE RespondWith(r, "clear")
    BY <1>1, <1>a, AnswerOK, QuietStep DEF At, TypeOK, history
  <1>2. CASE GoTo(r, "take") /\ req[r].bound
    <2>1. /\ req[r].login \in Logins /\ req[r].store \in Stores
          /\ BegunBy(req[r].browser, req[r].login) /\ req[r].browser \in Browsers
      BY <1>2, <1>a DEF RequestOK, OnLogin, OnReturn, At
    <2>2. /\ req' \in [Requests -> Locals] /\ OthersKept(r) /\ req'[r].stage = "take"
          /\ req'[r].browser = req[r].browser /\ req'[r].login = req[r].login
          /\ req'[r].store = req[r].store
      BY <1>2, <1>a, Moves DEF Stages
    <2>3. RequestOK(r)' /\ ~At(r, "issue")'
      BY <1>a, <2>1, <2>2 DEF RequestOK, OnLogin, OnConsent, OnReturn, BegunBy, At, history
    <2> QED BY <1>a, <2>2, <2>3, QuietStep DEF history, TypeOK
  <1> QED BY <1>1, <1>2 DEF Peek

LEMMA TakeStep ==
    ASSUME IInv, NEW r \in Requests, Take(r)
    PROVE  IInv'
  <1> DEFINE l == req[r].login
             record == pending[l]
  <1>a. /\ TypeOK /\ StoresOK /\ OneIssuer /\ RequestOK(r) /\ At(r, "take") /\ req[r] \in Locals
        /\ UNCHANGED <<now, consent, connected, browser, began, picked, asked, codes, signedIn>>
    BY DEF IInv, Take, TypeOK
  <1>b. /\ l \in Logins /\ req[r].store \in Stores /\ BegunBy(req[r].browser, l)
        /\ req[r].browser \in Browsers
    BY <1>a DEF RequestOK, OnLogin, OnReturn, At
  <1>1. /\ RequestOK(r)' /\ ~At(r, "issue")' /\ OthersKept(r) /\ req' \in [Requests -> Locals]
    <2>1. CASE RespondWith(r, "clear")
      BY <2>1, <1>a, AnswerOK DEF At
    <2>2. CASE /\ Live(record) /\ ThroughChosenStore(r, record)
               /\ req' = [req EXCEPT ![r].stage = "exchange", ![r].record = record]
      <3> DEFINE e == [req[r] EXCEPT !.stage = "exchange", !.record = record]
      <3>1. /\ record \in PendingRecords /\ record.store = req[r].store
            /\ req[r].store \in picked[l]
        BY <2>2, <1>a, <1>b, SignInAssumption
        DEF Live, StoresOK, PendingKept, TypeOK, ThroughChosenStore
      <3>2. req' = [req EXCEPT ![r] = e]
        BY <2>2, <1>a DEF TypeOK
      <3> HIDE DEF record, l
      <3>3. /\ e \in Locals /\ e.stage = "exchange" /\ e.browser = req[r].browser
            /\ e.login = req[r].login /\ e.store = req[r].store /\ e.record = record
        BY <1>a, <3>1 DEF Locals, Stages
      <3> HIDE DEF e
      <3>4. req' \in [Requests -> Locals] /\ OthersKept(r) /\ req'[r] = e
        BY <3>2, <3>3, <1>a, Assigned
      <3> QED BY <1>a, <1>b, <3>1, <3>3, <3>4
          DEF RequestOK, OnLogin, OnConsent, OnReturn, BegunBy, At, l
    <2> QED BY <2>1, <2>2 DEF Take
  <1>2. /\ taken' \in [Logins -> 0 .. 2]
        /\ pending' \in [Logins -> PendingRecords \cup {None}]
        /\ \A m \in Logins : pending'[m] \in {pending[m], None}
    <2>1. CASE UNCHANGED <<pending, taken>>
      BY <2>1, <1>a DEF TypeOK
    <2>2. CASE /\ pending' = [pending EXCEPT ![l] = None]
               /\ taken' = [taken EXCEPT ![l] = IF @ = 0 THEN 1 ELSE 2]
      BY <2>2, <1>a, <1>b DEF TypeOK
    <2> QED BY <2>1, <2>2 DEF Take
  <1> HIDE DEF record, l
  <1>4. TypeOK'
    BY <1>a, <1>1, <1>2 DEF TypeOK, browser
  <1>5. \A q \in Requests : RequestOK(q)'
    BY <1>a, <1>1, OthersStay DEF Grown
  <1>6. StoresOK'
    BY <1>a, <1>2 DEF StoresOK, PendingKept, BrowsersBound, ConsentsRight, CodesFinal, Granted,
                      BegunBy, ShownTo, browser
  <1>7. OneIssuer'
    BY <1>a, <1>1 DEF OneIssuer, OthersKept, At
  <1> QED BY <1>4, <1>5, <1>6, <1>7 DEF IInv

LEMMA ExchangeStep ==
    ASSUME IInv, NEW r \in Requests, Exchange(r)
    PROVE  IInv'
  <1>a. /\ TypeOK /\ StoresOK /\ OneIssuer /\ RequestOK(r) /\ At(r, "exchange")
        /\ req[r] \in Locals
        /\ UNCHANGED <<now, pending, consent, browser, history>>
    BY DEF IInv, Exchange, TypeOK
  <1>b. /\ req[r].login \in Logins /\ req[r].store \in Stores
        /\ BegunBy(req[r].browser, req[r].login) /\ req[r].browser \in Browsers
        /\ req[r].record \in PendingRecords /\ req[r].record.store = req[r].store
        /\ req[r].store \in picked[req[r].login]
    BY <1>a DEF RequestOK, OnLogin, OnReturn, At
  <1>1. /\ connected' \in SUBSET (Browsers \X Stores) /\ connected \subseteq connected'
        /\ RequestOK(r)' /\ ~At(r, "issue")' /\ OthersKept(r) /\ req' \in [Requests -> Locals]
    <2>1. CASE RespondWith(r, "clear") /\ UNCHANGED connected
      BY <2>1, <1>a, AnswerOK DEF At, TypeOK
    <2>2. ASSUME NEW who \in Browsers, connected' = connected \cup {<<who, req[r].store>>},
                 req' = [req EXCEPT ![r].stage = "complete", ![r].email = who]
          PROVE  /\ connected' \in SUBSET (Browsers \X Stores) /\ connected \subseteq connected'
                 /\ RequestOK(r)' /\ ~At(r, "issue")' /\ OthersKept(r)
                 /\ req' \in [Requests -> Locals]
      <3> DEFINE e == [req[r] EXCEPT !.stage = "complete", !.email = who]
      <3>1. /\ e \in Locals /\ e.stage = "complete" /\ e.browser = req[r].browser
            /\ e.login = req[r].login /\ e.store = req[r].store /\ e.record = req[r].record
            /\ e.email = who
        BY <1>a DEF Locals, Stages
      <3>2. req' = [req EXCEPT ![r] = e]
        BY <2>2, <1>a DEF TypeOK
      <3> HIDE DEF e
      <3>3. req' \in [Requests -> Locals] /\ OthersKept(r) /\ req'[r] = e
        BY <3>1, <3>2, <1>a, Assigned
      <3>4. connected' \in SUBSET (Browsers \X Stores) /\ connected \subseteq connected'
        BY <2>2, <1>a, <1>b DEF TypeOK
      <3>5. <<who, req[r].store>> \in connected'
        BY <2>2
      <3> QED BY <1>a, <1>b, <3>1, <3>3, <3>4, <3>5
          DEF RequestOK, OnLogin, OnConsent, OnReturn, BegunBy, At, history
    <2> QED BY <2>1, <2>2 DEF Exchange
  <1>4. TypeOK'
    BY <1>a, <1>1 DEF TypeOK, browser, history
  <1>5. \A q \in Requests : RequestOK(q)'
    BY <1>a, <1>1, OthersStay DEF Grown, history
  <1>6. StoresOK'
    BY <1>a, <1>1, StoresStay DEF history
  <1>7. OneIssuer'
    BY <1>a, <1>1 DEF OneIssuer, OthersKept, At
  <1> QED BY <1>4, <1>5, <1>6, <1>7 DEF IInv

LEMMA OpenSessionStep ==
    ASSUME IInv, NEW r \in Requests, OpenSession(r)
    PROVE  IInv'
  <1> DEFINE x == Outcome(r)
  <1>a. /\ TypeOK /\ StoresOK /\ OneIssuer /\ RequestOK(r) /\ At(r, "complete")
        /\ signedIn' = signedIn \cup {x}
        /\ RespondWith(r, "clear")
        /\ UNCHANGED <<now, pending, consent, connected, browser,
                       began, picked, taken, asked, codes>>
    BY DEF IInv, OpenSession, TypeOK
  <1>1. x \in Outcomes /\ Granted(x)
    BY <1>a DEF RequestOK, OnLogin, OnReturn, At, Outcome, Outcomes, Granted, BegunBy
  <1>2. /\ RequestOK(r)' /\ ~At(r, "issue")' /\ OthersKept(r) /\ req' \in [Requests -> Locals]
    BY <1>a, AnswerOK DEF At
  <1> HIDE DEF x
  <1>4. TypeOK'
    <2>1. signedIn' \in SUBSET Outcomes
      BY <1>a, <1>1 DEF TypeOK
    <2> QED BY <1>a, <1>2, <2>1 DEF TypeOK, browser
  <1>5. \A q \in Requests : RequestOK(q)'
    BY <1>a, <1>2, OthersStay DEF Grown
  <1>6. StoresOK'
    <2>1. \A y \in signedIn' : Granted(y)
      BY <1>a, <1>1 DEF StoresOK
    <2>2. \A y \in signedIn' : Granted(y)'
      BY <2>1, <1>a DEF Granted, BegunBy
    <2> QED BY <2>2, <1>a DEF StoresOK, PendingKept, BrowsersBound, ConsentsRight, CodesFinal,
                              Granted, BegunBy, ShownTo, browser
  <1>7. OneIssuer'
    BY <1>a, <1>2 DEF OneIssuer, OthersKept, At
  <1> QED BY <1>4, <1>5, <1>6, <1>7 DEF IInv

-----------------------------------------------------------------------------
(* One lemma per kind of step: the consent screen *)

LEMMA AskConsentStep ==
    ASSUME IInv, NEW r \in Requests, NEW k \in Consents, AskConsent(r, k)
    PROVE  IInv'
  <1> DEFINE record == [login |-> req[r].login, browser |-> req[r].browser,
                        email |-> req[r].email, store |-> req[r].record.store,
                        expiresAt |-> now + ConsentTtl]
             e == [Idle EXCEPT !.stage = "respond", !.browser = req[r].browser,
                     !.login = req[r].login, !.consent = k, !.reply = "show"]
  <1>a. /\ TypeOK /\ StoresOK /\ OneIssuer /\ RequestOK(r) /\ At(r, "complete")
        /\ now \in Nat /\ k \notin asked /\ asked' = asked \cup {k}
        /\ consent' = [consent EXCEPT ![k] = record] /\ req' = [req EXCEPT ![r] = e]
        /\ UNCHANGED <<now, pending, connected, browser, began, picked, taken, codes, signedIn>>
    BY DEF IInv, AskConsent, TypeOK
  <1>b. /\ req[r].login \in Logins /\ req[r].store \in Stores
        /\ BegunBy(req[r].browser, req[r].login) /\ req[r].browser \in Browsers
        /\ req[r].record.store = req[r].store /\ req[r].store \in picked[req[r].login]
        /\ req[r].email \in Browsers /\ <<req[r].email, req[r].store>> \in connected
    BY <1>a DEF RequestOK, OnLogin, OnReturn, At
  <1>1. record \in ConsentRecords /\ Granted(record) /\ record.browser = req[r].browser
    BY <1>a, <1>b, SignInAssumption DEF ConsentRecords, Granted, BegunBy
  <1>2. /\ e \in Locals /\ e.stage = "respond" /\ e.reply = "show" /\ e.consent = k
        /\ e.browser = req[r].browser
    BY <1>b DEF Idle, Locals, Stages
  <1> HIDE DEF record, e
  <1>3. req' \in [Requests -> Locals] /\ OthersKept(r) /\ req'[r] = e
    BY <1>a, <1>2, Assigned
  <1>4. /\ consent' \in [Consents -> ConsentRecords \cup {None}]
        /\ consent'[k] = record /\ \A j \in Consents \ {k} : consent'[j] = consent[j]
    BY <1>a, <1>1 DEF TypeOK
  <1>5. TypeOK'
    BY <1>a, <1>3, <1>4 DEF TypeOK, browser
  <1>6. \A q \in Requests : RequestOK(q)'
    <2>1. Grown(r)
      <3>1. asked \subseteq Consents
        BY <1>a DEF TypeOK
      <3> QED BY <3>1, <1>a, <1>3, <1>4 DEF Grown
    <2>2. RequestOK(r)'
      BY <1>a, <1>b, <1>1, <1>2, <1>3, <1>4
      DEF RequestOK, OnLogin, OnConsent, OnReturn, ShownTo
    <2> QED BY <2>1, <2>2, OthersStay
  <1>7. StoresOK'
    <2>1. PendingKept' /\ \A x \in signedIn' : Granted(x)'
      BY <1>a DEF StoresOK, PendingKept, Granted, BegunBy
    <2>2. BrowsersBound'
      <3>1. \A b \in Browsers : form[b] \subseteq Consents
        BY <1>a DEF TypeOK
      <3> QED BY <3>1, <1>a, <1>4 DEF StoresOK, BrowsersBound, BegunBy, ShownTo, browser
    <2>3. ConsentsRight'
      BY <1>a, <1>1, <1>4 DEF StoresOK, ConsentsRight, Granted, BegunBy
    <2>4. CodesFinal'
      BY <1>a, <1>4 DEF StoresOK, CodesFinal
    <2> QED BY <2>1, <2>2, <2>3, <2>4 DEF StoresOK
  <1>8. OneIssuer'
    BY <1>a, <1>2, <1>3 DEF OneIssuer, OthersKept, At
  <1> QED BY <1>5, <1>6, <1>7, <1>8 DEF IInv

LEMMA DecideStep ==
    ASSUME IInv, NEW r \in Requests, NEW b \in Browsers, NEW k \in Consents, Decide(r, b, k)
    PROVE  IInv'
  <1> DEFINE bind == k \in form[b] /\ mark[b] = k
             e == [Idle EXCEPT !.stage = "decide", !.browser = b, !.bound = bind, !.consent = k]
  <1>a. /\ TypeOK /\ StoresOK /\ k \in asked /\ req' = [req EXCEPT ![r] = e]
        /\ UNCHANGED <<now, pending, consent, connected, browser, history>>
    BY DEF IInv, Decide
  <1>1. bind \in BOOLEAN /\ (bind => ShownTo(b, k))
    BY <1>a DEF StoresOK, BrowsersBound
  <1> HIDE DEF bind
  <1>2. /\ e \in Locals /\ e.stage = "decide" /\ e.browser = b /\ (e.bound <=> bind)
        /\ e.consent = k
    <2>1. CASE bind = TRUE
      BY <2>1 DEF Idle, Locals, Stages
    <2>2. CASE bind = FALSE
      BY <2>2 DEF Idle, Locals, Stages
    <2> QED BY <1>1, <2>1, <2>2
  <1> HIDE DEF e
  <1>3. req' \in [Requests -> Locals] /\ OthersKept(r) /\ req'[r] = e
    BY <1>a, <1>2, Assigned
  <1>4. RequestOK(r)' /\ ~At(r, "issue")'
    BY <1>a, <1>1, <1>2, <1>3
    DEF RequestOK, OnLogin, OnConsent, OnReturn, ShownTo, At, history
  <1> QED BY <1>a, <1>3, <1>4, QuietStep DEF history, TypeOK

LEMMA GetConsentStep ==
    ASSUME IInv, NEW r \in Requests, GetConsent(r)
    PROVE  IInv'
  <1>a. /\ TypeOK /\ StoresOK /\ RequestOK(r) /\ At(r, "decide") /\ req[r] \in Locals
        /\ UNCHANGED <<now, pending, consent, connected, browser, history>>
    BY DEF IInv, GetConsent, TypeOK
  <1>1. CASE End(r)
    BY <1>1, <1>a, AnswerOK, QuietStep DEF At, TypeOK, history
  <1>2. CASE /\ Live(consent[req[r].consent]) /\ req[r].bound
             /\ req' = [req EXCEPT ![r].stage = "take_consent",
                                   ![r].record = consent[req[r].consent]]
    <2> DEFINE record == consent[req[r].consent]
               e == [req[r] EXCEPT !.stage = "take_consent", !.record = record]
    <2>1. req[r].consent \in asked /\ req[r].consent \in Consents /\ req[r].browser \in Browsers
      BY <1>a DEF RequestOK, OnConsent, OnReturn, At, TypeOK
    <2>2. record \in ConsentRecords /\ Granted(record) /\ record.browser = req[r].browser
      BY <1>2, <1>a, <2>1
      DEF Live, StoresOK, ConsentsRight, TypeOK, RequestOK, OnConsent, ShownTo, At
    <2>3. req' = [req EXCEPT ![r] = e]
      BY <1>2, <1>a DEF TypeOK
    <2> HIDE DEF record
    <2>4. /\ e \in Locals /\ e.stage = "take_consent" /\ e.browser = req[r].browser
          /\ e.consent = req[r].consent /\ e.record = record
      BY <1>a, <2>2 DEF Locals, Stages
    <2> HIDE DEF e
    <2>5. req' \in [Requests -> Locals] /\ OthersKept(r) /\ req'[r] = e
      BY <2>3, <2>4, <1>a, Assigned
    <2>6. Granted(e.record)'
      BY <1>a, <2>2, <2>4, <2>5 DEF Granted, BegunBy, history, e, record
    <2>7. RequestOK(r)' /\ ~At(r, "issue")'
      BY <1>a, <2>1, <2>2, <2>4, <2>5
      DEF RequestOK, OnLogin, OnConsent, OnReturn, Granted, BegunBy, At, history
    <2> QED BY <1>a, <2>5, <2>7, QuietStep DEF history, TypeOK
  <1> QED BY <1>1, <1>2 DEF GetConsent

LEMMA TakeConsentStep ==
    ASSUME IInv, NEW r \in Requests, TakeConsent(r)
    PROVE  IInv'
  <1> DEFINE k == req[r].consent
  <1>a. /\ TypeOK /\ StoresOK /\ OneIssuer /\ RequestOK(r) /\ At(r, "take_consent")
        /\ req[r] \in Locals
        /\ UNCHANGED <<now, pending, connected, browser, history>>
    BY DEF IInv, TakeConsent, TypeOK
  <1>1. CASE End(r) /\ UNCHANGED consent
    BY <1>1, <1>a, AnswerOK, QuietStep DEF At, TypeOK, history
  <1>2. CASE /\ Live(consent[k]) /\ consent' = [consent EXCEPT ![k] = None]
             /\ GoTo(r, "issue") \/ RespondWith(r, "decided")
    <2>1. /\ k \in asked /\ k \in Consents /\ req[r].browser \in Browsers
          /\ req[r].record \in ConsentRecords /\ Granted(req[r].record)
          /\ req[r].record.browser = req[r].browser
          /\ consent[k] # None /\ codes[k] = 0
      BY <1>2, <1>a DEF RequestOK, OnConsent, OnReturn, At, Live, StoresOK, CodesFinal, TypeOK
    <2>2. \A q \in Requests : At(q, "issue") => req[q].consent # k
      BY <2>1 DEF IInv, RequestOK, OnConsent, At
    <2>3. /\ consent' \in [Consents -> ConsentRecords \cup {None}]
          /\ consent'[k] = None /\ \A j \in Consents \ {k} : consent'[j] = consent[j]
      BY <1>2, <1>a, <2>1 DEF TypeOK
    <2>4. /\ req' \in [Requests -> Locals] /\ OthersKept(r)
          /\ req'[r].browser = req[r].browser /\ req'[r].consent = k
          /\ \/ req'[r].stage = "issue" /\ req'[r].record = req[r].record
             \/ req'[r].stage = "respond" /\ req'[r].reply = "decided"
      BY <1>2, <1>a, Moves DEF Stages
    <2>5. asked \subseteq Consents
      BY <1>a DEF TypeOK
    <2> HIDE DEF k
    <2>6. TypeOK'
      BY <1>a, <2>3, <2>4 DEF TypeOK, browser, history
    <2>7. Grown(r)
      BY <1>a, <2>3, <2>4, <2>5 DEF Grown, history
    <2>8. RequestOK(r)'
      <3>1. CASE req'[r].stage = "issue" /\ req'[r].record = req[r].record
        BY <3>1, <1>a, <2>1, <2>3, <2>4
        DEF RequestOK, OnLogin, OnConsent, OnReturn, Granted, BegunBy, history
      <3>2. CASE req'[r].stage = "respond" /\ req'[r].reply = "decided"
        BY <3>2, <2>1, <2>4 DEF RequestOK, OnLogin, OnConsent, OnReturn
      <3> QED BY <2>4, <3>1, <3>2
    <2>9. \A q \in Requests : RequestOK(q)'
      BY <2>7, <2>8, OthersStay
    <2>10. StoresOK'
      <3>1. PendingKept' /\ CodesFinal' /\ \A x \in signedIn' : Granted(x)'
        BY <1>a, <2>3 DEF StoresOK, PendingKept, CodesFinal, Granted, BegunBy, history
      <3>2. BrowsersBound'
        <4>1. \A b \in Browsers : form[b] \subseteq Consents
          BY <1>a DEF TypeOK
        <4> QED BY <4>1, <1>a, <2>3 DEF StoresOK, BrowsersBound, BegunBy, ShownTo, browser, history
      <3>3. ConsentsRight'
        BY <1>a, <2>3 DEF StoresOK, ConsentsRight, Granted, BegunBy, history
      <3> QED BY <3>1, <3>2, <3>3 DEF StoresOK
    <2>11. OneIssuer'
      BY <1>a, <2>2, <2>4 DEF OneIssuer, OthersKept, At
    <2> QED BY <2>6, <2>9, <2>10, <2>11 DEF IInv
  <1> QED BY <1>1, <1>2 DEF TakeConsent

LEMMA IssueCodeStep ==
    ASSUME IInv, NEW r \in Requests, IssueCode(r)
    PROVE  IInv'
  <1> DEFINE k == req[r].consent
             record == req[r].record
             x == [login |-> record.login, browser |-> req[r].browser,
                   email |-> record.email, store |-> record.store]
  <1>a. /\ TypeOK /\ StoresOK /\ OneIssuer /\ RequestOK(r) /\ At(r, "issue")
        /\ codes' = [codes EXCEPT ![k] = @ + 1] /\ signedIn' = signedIn \cup {x}
        /\ RespondWith(r, "decided")
        /\ UNCHANGED <<now, pending, consent, connected, browser, began, picked, taken, asked>>
    BY DEF IInv, IssueCode
  <1>b. /\ k \in asked /\ k \in Consents /\ consent[k] = None /\ codes[k] = 0
        /\ record \in ConsentRecords /\ Granted(record) /\ record.browser = req[r].browser
    BY <1>a DEF RequestOK, OnConsent, At, TypeOK
  <1>1. x \in Outcomes /\ Granted(x)
    BY <1>b DEF Outcomes, ConsentRecords, Granted
  <1>2. /\ RequestOK(r)' /\ ~At(r, "issue")' /\ OthersKept(r) /\ req' \in [Requests -> Locals]
    BY <1>a, AnswerOK DEF At
  <1> HIDE DEF x, k, record
  <1>3. /\ codes' \in [Consents -> Nat] /\ codes'[k] = 1
        /\ \A j \in Consents \ {k} : codes'[j] = codes[j]
    BY <1>a, <1>b DEF TypeOK
  <1>4. TypeOK'
    <2>1. signedIn' \in SUBSET Outcomes
      BY <1>a, <1>1 DEF TypeOK
    <2> QED BY <1>a, <1>2, <1>3, <2>1 DEF TypeOK, browser
  <1>5. \A q \in Requests : RequestOK(q)'
    <2>1. \A q \in Requests \ {r} :
            At(q, "issue") => req[q].consent \in Consents /\ req[q].consent # k
      BY <1>a DEF IInv, RequestOK, OnConsent, OneIssuer, At, TypeOK, k
    <2>2. Grown(r)
      BY <1>a, <1>2, <1>3, <2>1 DEF Grown
    <2> QED BY <1>2, <2>2, OthersStay
  <1>6. StoresOK'
    <2>1. \A y \in signedIn' : Granted(y)
      BY <1>a, <1>1 DEF StoresOK
    <2>2. \A y \in signedIn' : Granted(y)'
      BY <2>1, <1>a DEF Granted, BegunBy
    <2>3. CodesFinal'
      BY <1>a, <1>b, <1>3 DEF StoresOK, CodesFinal
    <2> QED BY <2>2, <2>3, <1>a DEF StoresOK, PendingKept, BrowsersBound, ConsentsRight, Granted,
                                    BegunBy, ShownTo, browser
  <1>7. OneIssuer'
    BY <1>a, <1>2 DEF OneIssuer, OthersKept, At
  <1> QED BY <1>4, <1>5, <1>6, <1>7 DEF IInv

-----------------------------------------------------------------------------
(* One lemma per kind of step: the browser and the clock *)

LEMMA RespondStep ==
    ASSUME IInv, NEW r \in Requests, Respond(r)
    PROVE  IInv'
  <1> DEFINE b == req[r].browser
             l == req[r].login
             k == req[r].consent
  <1>a. /\ TypeOK /\ StoresOK /\ OneIssuer /\ RequestOK(r) /\ At(r, "respond") /\ End(r)
        /\ UNCHANGED <<now, pending, consent, connected, history>>
        /\ b \in Browsers
    BY DEF IInv, Respond, RequestOK, OnReturn, At
  <1>b. /\ cookies' = [cookies EXCEPT ![b] = CASE req[r].reply = "set" -> @ \cup {l}
                                              [] req[r].reply \in {"clear", "show"} -> @ \ {l}
                                              [] OTHER -> @]
        /\ form' = [form EXCEPT ![b] = IF req[r].reply = "show" THEN @ \cup {k} ELSE @]
        /\ mark' = [mark EXCEPT ![b] = CASE req[r].reply = "show" -> k
                                        [] req[r].reply = "decided" -> None
                                        [] OTHER -> @]
    BY DEF Respond
  <1>c. /\ req[r].reply = "set" => l \in Logins /\ BegunBy(b, l)
        /\ req[r].reply = "show" => k \in Consents /\ ShownTo(b, k)
    BY <1>a DEF RequestOK, OnReturn, At
  <1>1. /\ RequestOK(r)' /\ ~At(r, "issue")' /\ OthersKept(r) /\ req' \in [Requests -> Locals]
    BY <1>a, AnswerOK DEF At
  <1> HIDE DEF b, l, k
  <1>2. /\ cookies' \in [Browsers -> SUBSET Logins]
        /\ \A c \in Browsers : \A m \in cookies'[c] : BegunBy(c, m)
    <2>1. /\ cookies' = [c \in Browsers |-> cookies'[c]]
          /\ \A c \in Browsers \ {b} : cookies'[c] = cookies[c]
      BY <1>a, <1>b DEF TypeOK
    <2>2. \/ req[r].reply = "set" /\ cookies'[b] = cookies[b] \cup {l}
          \/ req[r].reply # "set" /\ cookies'[b] \subseteq cookies[b]
      BY <1>a, <1>b DEF TypeOK
    <2>3. \A c \in Browsers : cookies[c] \subseteq Logins /\ \A m \in cookies[c] : BegunBy(c, m)
      BY <1>a DEF TypeOK, StoresOK, BrowsersBound
    <2>4. ASSUME NEW c \in Browsers
          PROVE  cookies'[c] \subseteq Logins /\ \A m \in cookies'[c] : BegunBy(c, m)
      <3>1. CASE c = b
        BY <3>1, <1>c, <2>2, <2>3
      <3>2. CASE c # b
        BY <3>2, <2>1, <2>3
      <3> QED BY <3>1, <3>2
    <2>5. cookies' \in [Browsers -> SUBSET Logins]
      BY <2>1, <2>4
    <2> QED BY <2>4, <2>5
  <1>3. /\ form' \in [Browsers -> SUBSET Consents]
        /\ \A c \in Browsers : \A j \in form'[c] : ShownTo(c, j)
    <2>1. CASE req[r].reply = "show"
      <3>1. /\ form' = [form EXCEPT ![b] = @ \cup {k}] /\ k \in Consents /\ ShownTo(b, k)
            /\ form \in [Browsers -> SUBSET Consents]
        BY <2>1, <1>a, <1>b, <1>c DEF TypeOK
      <3>2. form'[b] = form[b] \cup {k} /\ \A c \in Browsers \ {b} : form'[c] = form[c]
        BY <3>1, <1>a
      <3>3. form' \in [Browsers -> SUBSET Consents]
        BY <3>1, <1>a
      <3> QED BY <3>1, <3>2, <3>3, <1>a DEF StoresOK, BrowsersBound
    <2>2. CASE req[r].reply # "show"
      <3>1. form' = form
        BY <2>2, <1>a, <1>b DEF TypeOK
      <3> QED BY <3>1, <1>a DEF StoresOK, BrowsersBound, TypeOK
    <2> QED BY <2>1, <2>2
  <1>4. mark' \in [Browsers -> Consents \cup {None}]
    BY <1>a, <1>b, <1>c DEF TypeOK
  <1>5. TypeOK'
    BY <1>a, <1>1, <1>2, <1>3, <1>4 DEF TypeOK, history
  <1>6. \A q \in Requests : RequestOK(q)'
    BY <1>a, <1>1, OthersStay DEF Grown, history
  <1>7. StoresOK'
    <2>1. BrowsersBound'
      BY <1>a, <1>2, <1>3 DEF BrowsersBound, BegunBy, ShownTo, history
    <2> QED BY <2>1, <1>a DEF StoresOK, PendingKept, ConsentsRight, CodesFinal, Granted,
                              BegunBy, history
  <1>8. OneIssuer'
    BY <1>a, <1>1 DEF OneIssuer, OthersKept, At
  <1> QED BY <1>5, <1>6, <1>7, <1>8 DEF IInv

LEMMA RestStep ==
    ASSUME IInv, Tick \/ UNCHANGED vars
    PROVE  IInv'
  <1>1. /\ UNCHANGED <<pending, consent, connected, cookies, form, mark, req, began, picked,
                       taken, asked, codes, signedIn>>
        /\ now' \in Nat
    BY DEF Tick, vars, browser, history, IInv, TypeOK
  <1>2. TypeOK'
    BY <1>1 DEF IInv, TypeOK
  <1>3. StoresOK'
    BY <1>1 DEF IInv, StoresOK, PendingKept, BrowsersBound, ConsentsRight, CodesFinal, Granted,
                BegunBy, ShownTo
  <1>4. \A q \in Requests : RequestOK(q)'
    BY <1>1 DEF IInv, RequestOK, OnLogin, OnConsent, OnReturn, Granted, BegunBy, ShownTo
  <1>5. OneIssuer'
    BY <1>1 DEF IInv, OneIssuer, At
  <1> QED BY <1>2, <1>3, <1>4, <1>5 DEF IInv

LEMMA LeaveStep ==
    ASSUME IInv, NEW r \in Requests, Leave(r)
    PROVE  IInv'
  BY AnswerOK, QuietStep DEF Leave, IInv, TypeOK, history

LEMMA InvStep == IInv /\ [Next]_vars => IInv'
  <1> SUFFICES ASSUME IInv, [Next]_vars PROVE IInv'
    OBVIOUS
  <1>1. CASE Tick \/ UNCHANGED vars
    BY <1>1, RestStep
  <1>2. ASSUME NEW r \in Requests, Send(r) PROVE IInv'
    BY <1>2, BeginStep, SendStep, DecideStep DEF Send
  <1>3. ASSUME NEW r \in Requests, SetStore(r) PROVE IInv'
    BY <1>3, ChooseStep, SetGetStep, SetPutStep DEF SetStore
  <1>4. ASSUME NEW r \in Requests, Callback(r) PROVE IInv'
    BY <1>4, PeekStep, TakeStep, ExchangeStep, OpenSessionStep, AskConsentStep DEF Callback
  <1>5. ASSUME NEW r \in Requests, Consent(r) PROVE IInv'
    BY <1>5, GetConsentStep, TakeConsentStep, IssueCodeStep DEF Consent
  <1>6. ASSUME NEW r \in Requests, Respond(r) \/ Leave(r) PROVE IInv'
    BY <1>6, RespondStep, LeaveStep
  <1> QED BY <1>1, <1>2, <1>3, <1>4, <1>5, <1>6 DEF Next

LEMMA InductiveInvariant == Spec => []IInv
  BY InitInv, InvStep, PTL DEF Spec

-----------------------------------------------------------------------------
\* Every variable keeps its type.
THEOREM TypeCorrect == Spec => []TypeOK
  <1>1. IInv => TypeOK
    BY DEF IInv
  <1> QED BY InductiveInvariant, <1>1, PTL

\* Whatever browsers, callbacks and choices race, a code or a /stores session
\* reaches only the browser that began the sign-in, for a person verified by a
\* store picked for that sign-in (peekLogin, takeLogin, setLoginStore, consent).
THEOREM SignedInRightlyHolds == Spec => []SignedInRightly
  <1>1. IInv => SignedInRightly
    BY DEF IInv, StoresOK, Granted, BegunBy, SignedInRightly, SameBrowser, ThroughPickedStore
  <1> QED BY InductiveInvariant, <1>1, PTL

\* However often and from wherever a consent is submitted, one code at most is
\* issued for it (consent, issueCode).
THEOREM OneCodePerConsentHolds == Spec => []OneCodePerConsent
  <1>1. IInv => OneCodePerConsent
    <2> SUFFICES ASSUME IInv, NEW k \in Consents PROVE codes[k] <= 1
      BY DEF IInv, OneIssuer, OneCodePerConsent
    <2> QED BY DEF IInv, StoresOK, CodesFinal, TypeOK
  <1> QED BY InductiveInvariant, <1>1, PTL

\* What one step may do to one pending sign-in.
Guarded(l) ==
    /\ pending[l] # None /\ pending'[l] # pending[l] =>
         \E r \in Requests : req'[r] # req[r] /\ req[r].browser = began[l].browser
    /\ pending[l] # None /\ pending'[l] = None => now < began[l].at + PendingTtl

LEMMA OnlyThreeTouchPending ==
    ASSUME [Next]_vars, ~UNCHANGED pending
    PROVE  \E r \in Requests :
             \/ \E b \in Browsers, l \in Logins, kind \in {"app", "page"} : Begin(r, b, l, kind)
             \/ SetPut(r)
             \/ Take(r)
  BY DEF Next, vars, Tick, Send, SetStore, Callback, Consent, SendChoice, SendCallback, Decide,
         Choose, SetGet, Peek, Exchange, OpenSession, AskConsent, GetConsent, TakeConsent,
         IssueCode, Respond, Leave

LEMMA GuardedStep ==
    ASSUME IInv, [Next]_vars, NEW l \in Logins
    PROVE  Guarded(l)
  <1>a. TypeOK /\ StoresOK
    BY DEF IInv
  <1>1. CASE UNCHANGED pending
    BY <1>1 DEF Guarded
  <1>2. ASSUME NEW r \in Requests, NEW b \in Browsers, NEW m \in Logins,
               NEW kind \in {"app", "page"}, Begin(r, b, m, kind)
        PROVE  Guarded(l)
    <2>1. pending[m] = None /\ \A n \in Logins \ {m} : pending'[n] = pending[n]
      BY <1>2, <1>a DEF Begin, StoresOK, PendingKept, TypeOK
    <2> QED BY <2>1 DEF Guarded
  <1>3. ASSUME NEW r \in Requests, SetPut(r) PROVE Guarded(l)
    <2> DEFINE m == req[r].login
    <2>1. /\ m \in Logins /\ began[m].browser = req[r].browser
          /\ req[r].record \in PendingRecords /\ req[r].store \in Stores /\ req[r].stage = "set_put"
      BY <1>3 DEF IInv, RequestOK, OnLogin, BegunBy, SetPut, At
    <2>2. WithStore(r) # None
      BY <2>1, SignInAssumption DEF WithStore, PendingRecords
    <2>3. pending'[m] # None /\ \A n \in Logins \ {m} : pending'[n] = pending[n]
      BY <1>3, <1>a, <2>1, <2>2 DEF SetPut, TypeOK
    <2>4. req'[r].stage \in {"idle", "respond"}
      BY <1>3, <1>a, Moves DEF SetPut, Redirect
    <2> HIDE DEF m
    <2>5. req'[r] # req[r]
      BY <2>1, <2>4
    <2> QED BY <2>1, <2>3, <2>5 DEF Guarded
  <1>4. ASSUME NEW r \in Requests, Take(r) PROVE Guarded(l)
    <2> DEFINE m == req[r].login
    <2>1. m \in Logins /\ began[m].browser = req[r].browser /\ req[r].stage = "take"
      BY <1>4 DEF IInv, RequestOK, OnLogin, BegunBy, Take, At
    <2>2. CASE UNCHANGED pending
      BY <2>2 DEF Guarded
    <2>3. CASE Live(pending[m]) /\ pending' = [pending EXCEPT ![m] = None]
      <3>1. now < began[m].at + PendingTtl /\ \A n \in Logins \ {m} : pending'[n] = pending[n]
        BY <2>1, <2>3, <1>a DEF Live, StoresOK, PendingKept, TypeOK
      <3>2. req'[r].stage \in {"exchange", "respond"}
        <4>1. CASE RespondWith(r, "clear")
          BY <4>1, <1>a, Moves
        <4>2. CASE req' = [req EXCEPT ![r].stage = "exchange", ![r].record = pending[m]]
          BY <4>2, <1>a DEF TypeOK, Locals
        <4> QED BY <1>4, <4>1, <4>2 DEF Take
      <3> HIDE DEF m
      <3>3. req'[r] # req[r]
        BY <2>1, <3>2
      <3> QED BY <2>1, <3>1, <3>3 DEF Guarded
    <2> QED BY <1>4, <2>2, <2>3 DEF Take
  <1> QED BY <1>1, <1>2, <1>3, <1>4, OnlyThreeTouchPending

\* A refused callback leaves the pending sign-in alone: it is changed only by a
\* request of the browser that began it, and taken only within PENDING_TTL of its
\* beginning, however often a choice put it back (takeLogin, setLoginStore).
THEOREM PendingGuardedHolds == Spec => PendingGuarded
  <1>1. IInv /\ [Next]_vars => [\A l \in Logins : Guarded(l)]_vars
    BY GuardedStep
  <1>2. Spec => [][\A l \in Logins : Guarded(l)]_vars
    BY InductiveInvariant, <1>1, PTL DEF Spec
  <1> QED BY <1>2 DEF PendingGuarded, Guarded
=============================================================================
