-------------------------------- MODULE SignIn --------------------------------
(***************************************************************************)
(* Sign-in with Shopify on the hosted server: /authorize or a /stores page *)
(* begins a pending sign-in bound to one browser, the chooser records the  *)
(* store it goes through, the Shopify callback consumes it and verifies    *)
(* the person, and an app's sign-in ends with the consent screen and an    *)
(* authorization code, a page's sign-in with a /stores session             *)
(* (src/src/hosted/oauth.ts, src/src/hosted/shopify-connect.ts).           *)
(*                                                                         *)
(* Every store operation is one action.  A request presents the cookies    *)
(* its browser held when it was sent and its response changes them when it *)
(* arrives; other requests run in between.                                 *)
(*                                                                         *)
(* Shopify and the network are the environment: anyone may obtain a        *)
(* callback that Shopify signed for any login state and configured store,  *)
(* and open it in any browser, more than once.                             *)
(***************************************************************************)
EXTENDS Integers

CONSTANTS
    Browsers,    \* browsers, also the staff email of the person at each
    Logins,      \* login states
    Consents,    \* consent ids
    Stores,      \* stores a person can sign in through
    Requests,    \* requests in flight at once
    None,        \* no record in a store map, no cookie, no choice
    PendingTtl,  \* PENDING_TTL_MS
    ConsentTtl,  \* CONSENT_TTL_MS
    MaxTime      \* bound of the model's clock

PendingRecords == [browser : Browsers, kind : {"app", "page"},
                   store : Stores \cup {None}, expiresAt : Nat]
Beginnings     == [browser : Browsers, at : Nat]

ASSUME SignInAssumption ==
    /\ {PendingTtl, ConsentTtl, MaxTime} \subseteq Nat
    /\ None \notin Browsers \cup Logins \cup Consents \cup Stores
    /\ None \notin PendingRecords \cup Beginnings

VARIABLES
    now,        \* the clock
    pending,    \* store kind "pending"
    consent,    \* store kind "consent"
    connected,  \* store kind "shopify_token": who is connected to which store
    cookies,    \* binding cookies, per browser
    form,       \* consent screens received, per browser
    mark,       \* the one consent cookie of each browser
    req,        \* requests in flight
    (* history *)
    began,      \* who began each sign-in, and when
    picked,     \* stores its beginner picked
    taken,      \* requests that consumed it: 0, 1, or 2 for more than one
    asked,      \* consent ids used
    codes,      \* authorization codes issued for each consent
    signedIn    \* sign-ins that ended in a code or a /stores session

browser == <<cookies, form, mark>>
history == <<began, picked, taken, asked, codes, signedIn>>
vars    == <<now, pending, consent, connected, browser, req, history>>

ConsentRecords == [login : Logins, browser : Browsers, email : Browsers,
                   store : Stores, expiresAt : Nat]
Outcomes       == [login : Logins, browser : Browsers, email : Browsers, store : Stores]

Stages == {"idle", "choose", "set_get", "set_put", "callback", "take", "exchange",
           "complete", "decide", "take_consent", "issue", "respond"}

\* What a request carries: its browser, whether the cookie and form it was
\* sent with match, and the record it read.  reply is what its response does
\* to the browser: set or clear the login cookie, show a consent screen
\* (clearing it too), or clear the consent cookie.
Locals == [stage : Stages, browser : Browsers \cup {None}, bound : BOOLEAN,
           login : Logins \cup {None}, store : Stores \cup {None},
           email : Browsers \cup {None}, consent : Consents \cup {None},
           record : PendingRecords \cup ConsentRecords \cup {None},
           reply : {"keep", "set", "clear", "show", "decided"}]
Idle   == [stage |-> "idle", browser |-> None, bound |-> FALSE, login |-> None,
           store |-> None, email |-> None, consent |-> None, record |-> None,
           reply |-> "keep"]

Live(e) == e # None /\ e.expiresAt > now

-----------------------------------------------------------------------------
Init ==
    /\ now = 0
    /\ pending = [l \in Logins |-> None]
    /\ consent = [k \in Consents |-> None]
    /\ connected = {}
    /\ cookies = [b \in Browsers |-> {}]
    /\ form = [b \in Browsers |-> {}]
    /\ mark = [b \in Browsers |-> None]
    /\ req = [r \in Requests |-> Idle]
    /\ began = [l \in Logins |-> None]
    /\ picked = [l \in Logins |-> {}]
    /\ taken = [l \in Logins |-> 0]
    /\ asked = {}
    /\ codes = [k \in Consents |-> 0]
    /\ signedIn = {}

Tick ==
    /\ now < MaxTime
    /\ now' = now + 1
    /\ UNCHANGED <<pending, consent, connected, browser, req, history>>

At(r, stage)       == req[r].stage = stage
GoTo(r, stage)     == req' = [req EXCEPT ![r].stage = stage]
End(r)             == req' = [req EXCEPT ![r] = Idle]

\* Only what the answer does to the browser is left of the request.
RespondWith(r, re) ==
    req' = [req EXCEPT ![r] = [Idle EXCEPT !.stage = "respond", !.browser = req[r].browser,
                 !.login = req[r].login, !.consent = req[r].consent, !.reply = re]]

-----------------------------------------------------------------------------
(* beginLogin: the chooser, or Shopify directly when one store is offered.
   The stores are read anew for every request, so either may happen. *)

Begin(r, b, l, kind) ==
    /\ At(r, "idle")
    /\ began[l] = None
    /\ began' = [began EXCEPT ![l] = [browser |-> b, at |-> now]]
    /\ pending' = [pending EXCEPT ![l] = [browser |-> b, kind |-> kind, store |-> None,
                                          expiresAt |-> now + PendingTtl]]
    /\ \/ /\ req' = [req EXCEPT ![r] = [Idle EXCEPT !.stage = "respond", !.browser = b,
                                                   !.login = l, !.reply = "set"]]
          /\ UNCHANGED picked
       \/ \E s \in Stores :
            /\ req' = [req EXCEPT ![r] = [Idle EXCEPT !.stage = "set_get", !.browser = b,
                                          !.login = l, !.store = s, !.reply = "set"]]
            /\ picked' = [picked EXCEPT ![l] = {s}]
    /\ UNCHANGED <<now, consent, connected, browser, taken, asked, codes, signedIn>>

-----------------------------------------------------------------------------
(* POST /login/shopify and GET /shopify/callback *)

HoldsBinding(b, l) == l \in cookies[b]

SendChoice(r, b, l, s) ==
    /\ At(r, "idle")
    /\ began[l] # None
    /\ req' = [req EXCEPT ![r] = [Idle EXCEPT !.stage = "choose", !.browser = b,
                        !.bound = HoldsBinding(b, l), !.login = l, !.store = s]]
    /\ UNCHANGED <<now, pending, consent, connected, browser, history>>

\* Another site's or browser's choice is refused and changes nothing.
Choose(r) ==
    /\ At(r, "choose")
    /\ IF Live(pending[req[r].login]) /\ req[r].bound
       THEN /\ GoTo(r, "set_get")
            /\ picked' = [picked EXCEPT ![req[r].login] = @ \cup {req[r].store}]
       ELSE End(r) /\ UNCHANGED picked
    /\ UNCHANGED <<now, pending, consent, connected, browser,
                   began, taken, asked, codes, signedIn>>

\* redirectLogin's answer, which only beginLogin adds a cookie to.
Redirect(r) == IF req[r].reply = "set" THEN RespondWith(r, "set") ELSE End(r)

\* setLoginStore: a record that is gone is left alone, one that is there is
\* put back with the store after another await.
SetGet(r) ==
    LET record == pending[req[r].login]
    IN  /\ At(r, "set_get")
        /\ IF Live(record)
           THEN req' = [req EXCEPT ![r].stage = "set_put", ![r].record = record]
           ELSE Redirect(r)
        /\ UNCHANGED <<now, pending, consent, connected, browser, history>>

\* Mutant: the choice renews the pending sign-in.
WithStoreRenewed(r) ==
    [req[r].record EXCEPT !.store = req[r].store, !.expiresAt = now + PendingTtl]

WithStore(r) == [req[r].record EXCEPT !.store = req[r].store]

SetPut(r) ==
    /\ At(r, "set_put")
    /\ pending' = [pending EXCEPT ![req[r].login] = WithStore(r)]
    /\ Redirect(r)
    /\ UNCHANGED <<now, consent, connected, browser, history>>

SendCallback(r, b, l, s) ==
    /\ At(r, "idle")
    /\ began[l] # None
    /\ req' = [req EXCEPT ![r] = [Idle EXCEPT !.stage = "callback", !.browser = b,
                        !.bound = HoldsBinding(b, l), !.login = l, !.store = s]]
    /\ UNCHANGED <<now, pending, consent, connected, browser, history>>

\* Mutant: the state is consumed before the binding is checked.
PeekUnbound(r) ==
    /\ At(r, "callback")
    /\ IF Live(pending[req[r].login]) THEN GoTo(r, "take") ELSE RespondWith(r, "clear")
    /\ UNCHANGED <<now, pending, consent, connected, browser, history>>

\* isLogin and peekLogin: the binding cookie is checked before the state is
\* consumed.  The refusal clears the cookie of the browser that sent it.
Peek(r) ==
    /\ At(r, "callback")
    /\ IF Live(pending[req[r].login]) /\ req[r].bound
       THEN GoTo(r, "take") ELSE RespondWith(r, "clear")
    /\ UNCHANGED <<now, pending, consent, connected, browser, history>>

\* Mutant: the store Shopify answered for is not compared with the choice.
ThroughAnyStore(r, record) == record.store # None

\* Mutant: a sign-in for which no store was chosen yet passes.
ThroughUnchosenStore(r, record) == record.store \in {None, req[r].store}

ThroughChosenStore(r, record) == record.store = req[r].store

\* takeLogin, then loginCallback's check of the store.
Take(r) ==
    LET l      == req[r].login
        record == pending[l]
    IN  /\ At(r, "take")
        /\ IF ~Live(record)
           THEN RespondWith(r, "clear") /\ UNCHANGED <<pending, taken>>
           ELSE /\ pending' = [pending EXCEPT ![l] = None]
                /\ taken' = [taken EXCEPT ![l] = IF @ = 0 THEN 1 ELSE 2]
                /\ IF ThroughChosenStore(r, record)
                   THEN req' = [req EXCEPT ![r].stage = "exchange", ![r].record = record]
                   ELSE RespondWith(r, "clear")
        /\ UNCHANGED <<now, consent, connected, browser,
                       began, picked, asked, codes, signedIn>>

\* Shopify reports a verified email for the code (saveToken follows), or the
\* exchange fails, has no code to exchange, or has no verified email.
Exchange(r) ==
    /\ At(r, "exchange")
    /\ \/ \E who \in Browsers :
            /\ connected' = connected \cup {<<who, req[r].store>>}
            /\ req' = [req EXCEPT ![r].stage = "complete", ![r].email = who]
       \/ RespondWith(r, "clear") /\ UNCHANGED connected
    /\ UNCHANGED <<now, pending, consent, browser, history>>

Outcome(r) == [login |-> req[r].login, browser |-> req[r].browser,
               email |-> req[r].email, store |-> req[r].record.store]

\* completeLogin for a page sign-in: a /stores session, in this response.
OpenSession(r) ==
    /\ At(r, "complete") /\ req[r].record.kind = "page"
    /\ signedIn' = signedIn \cup {Outcome(r)}
    /\ RespondWith(r, "clear")
    /\ UNCHANGED <<now, pending, consent, connected, browser,
                   began, picked, taken, asked, codes>>

\* completeLogin for an app: the consent screen, bound to this browser.
AskConsent(r, k) ==
    /\ At(r, "complete") /\ req[r].record.kind = "app"
    /\ k \notin asked
    /\ asked' = asked \cup {k}
    /\ consent' = [consent EXCEPT ![k] =
            [login |-> req[r].login, browser |-> req[r].browser, email |-> req[r].email,
             store |-> req[r].record.store, expiresAt |-> now + ConsentTtl]]
    /\ req' = [req EXCEPT ![r] = [Idle EXCEPT !.stage = "respond", !.browser = req[r].browser,
                 !.login = req[r].login, !.consent = k, !.reply = "show"]]
    /\ UNCHANGED <<now, pending, connected, browser, began, picked, taken, codes, signedIn>>

-----------------------------------------------------------------------------
(* POST /consent: the csrf token is on the screen, the binding in the cookie *)

Decide(r, b, k) ==
    /\ At(r, "idle")
    /\ k \in asked
    /\ req' = [req EXCEPT ![r] = [Idle EXCEPT !.stage = "decide", !.browser = b,
                    !.bound = k \in form[b] /\ mark[b] = k, !.consent = k]]
    /\ UNCHANGED <<now, pending, consent, connected, browser, history>>

\* Mutant: the form is accepted from any browser.
GetConsentUnbound(r) ==
    LET record == consent[req[r].consent]
    IN  /\ At(r, "decide")
        /\ IF Live(record)
           THEN req' = [req EXCEPT ![r].stage = "take_consent", ![r].record = record]
           ELSE End(r)
        /\ UNCHANGED <<now, pending, consent, connected, browser, history>>

GetConsent(r) ==
    LET record == consent[req[r].consent]
    IN  /\ At(r, "decide")
        /\ IF Live(record) /\ req[r].bound
           THEN req' = [req EXCEPT ![r].stage = "take_consent", ![r].record = record]
           ELSE End(r)
        /\ UNCHANGED <<now, pending, consent, connected, browser, history>>

\* Mutant: the decision acts on the record it read, taken or not.
TakeConsentReused(r) ==
    /\ At(r, "take_consent")
    /\ consent' = [consent EXCEPT ![req[r].consent] = None]
    /\ GoTo(r, "issue")
    /\ UNCHANGED <<now, pending, connected, browser, history>>

\* Only the request that removes the record acts on the decision.
TakeConsent(r) ==
    LET k == req[r].consent
    IN  /\ At(r, "take_consent")
        /\ \/ ~Live(consent[k]) /\ End(r) /\ UNCHANGED consent
           \/ /\ Live(consent[k])
              /\ consent' = [consent EXCEPT ![k] = None]
              /\ \/ GoTo(r, "issue")              \* Approve
                 \/ RespondWith(r, "decided")     \* Deny, or the URI is gone
        /\ UNCHANGED <<now, pending, connected, browser, history>>

IssueCode(r) ==
    LET record == req[r].record
    IN  /\ At(r, "issue")
        /\ codes' = [codes EXCEPT ![req[r].consent] = @ + 1]
        /\ signedIn' = signedIn \cup
             {[login |-> record.login, browser |-> req[r].browser,
               email |-> record.email, store |-> record.store]}
        /\ RespondWith(r, "decided")
        /\ UNCHANGED <<now, pending, consent, connected, browser,
                       began, picked, taken, asked>>

-----------------------------------------------------------------------------
Respond(r) ==
    LET b == req[r].browser
        l == req[r].login
        k == req[r].consent
    IN  /\ At(r, "respond")
        /\ cookies' = [cookies EXCEPT ![b] =
             CASE req[r].reply = "set" -> @ \cup {l}
               [] req[r].reply \in {"clear", "show"} -> @ \ {l}
               [] OTHER -> @]
        /\ form' = [form EXCEPT ![b] = IF req[r].reply = "show" THEN @ \cup {k} ELSE @]
        /\ mark' = [mark EXCEPT ![b] =
             CASE req[r].reply = "show" -> k
               [] req[r].reply = "decided" -> None
               [] OTHER -> @]
        /\ End(r)
        /\ UNCHANGED <<now, pending, consent, connected, history>>

\* A store call threw, the process died, or the answer was lost.
Leave(r) ==
    /\ ~At(r, "idle")
    /\ End(r)
    /\ UNCHANGED <<now, pending, consent, connected, browser, history>>

Send(r) ==
    \E b \in Browsers :
      \/ \E l \in Logins : \E kind \in {"app", "page"} : Begin(r, b, l, kind)
      \/ \E l \in Logins, s \in Stores : SendChoice(r, b, l, s)
      \/ \E l \in Logins, s \in Stores : SendCallback(r, b, l, s)
      \/ \E k \in Consents : Decide(r, b, k)

SetStore(r) == Choose(r) \/ SetGet(r) \/ SetPut(r)

Callback(r) ==
    \/ Peek(r) \/ Take(r) \/ Exchange(r) \/ OpenSession(r)
    \/ \E k \in Consents : AskConsent(r, k)

Consent(r) == GetConsent(r) \/ TakeConsent(r) \/ IssueCode(r)

Next ==
    \/ Tick
    \/ \E r \in Requests :
         Send(r) \/ SetStore(r) \/ Callback(r) \/ Consent(r) \/ Respond(r) \/ Leave(r)

Spec == Init /\ [][Next]_vars

-----------------------------------------------------------------------------
\* Every variable has its type (the records of the store kinds "pending" and
\* "consent", cookies and the locals of a request).
TypeOK ==
    /\ now \in Nat
    /\ pending \in [Logins -> PendingRecords \cup {None}]
    /\ consent \in [Consents -> ConsentRecords \cup {None}]
    /\ connected \in SUBSET (Browsers \X Stores)
    /\ cookies \in [Browsers -> SUBSET Logins]
    /\ form \in [Browsers -> SUBSET Consents]
    /\ mark \in [Browsers -> Consents \cup {None}]
    /\ req \in [Requests -> Locals]
    /\ began \in [Logins -> Beginnings \cup {None}]
    /\ picked \in [Logins -> SUBSET Stores]
    /\ taken \in [Logins -> 0 .. 2]
    /\ asked \in SUBSET Consents
    /\ codes \in [Consents -> Nat]
    /\ signedIn \in SUBSET Outcomes

\* "A forwarded sign-in link cannot log someone in as another person": the
\* code or the session of a sign-in reaches only the browser that began it,
\* through the binding cookie at the chooser and the callback and the consent
\* cookie at the decision (bound, takeLogin, consent).
SameBrowser == \A x \in signedIn : began[x.login].browser = x.browser

\* The person a sign-in ends with was verified by, and is connected to, a
\* store that the beginner picked for that very sign-in (setLoginStore,
\* loginCallback), although choices race callbacks.
ThroughPickedStore ==
    \A x \in signedIn :
        x.store \in picked[x.login] /\ <<x.email, x.store>> \in connected

\* Who ends up signed in: both, whatever the two browsers do meanwhile.
SignedInRightly == SameBrowser /\ ThroughPickedStore

\* "A refused callback does not burn the real sign-in": a pending record is
\* changed only by a request of the browser that began the sign-in.  And a choice
\* never buys time: no sign-in is consumed later than PENDING_TTL after it began,
\* however often its record is put back (takeLogin, setLoginStore).
PendingGuarded ==
    [][\A l \in Logins :
         /\ pending[l] # None /\ pending'[l] # pending[l] =>
              \E r \in Requests :
                req'[r] # req[r] /\ req[r].browser = began[l].browser
         /\ pending[l] # None /\ pending'[l] = None => now < began[l].at + PendingTtl]_vars

\* One approval, one code: the same consent screen submitted twice at once
\* issues a single authorization code (consent, issueCode).
OneCodePerConsent ==
    /\ \A k \in Consents : codes[k] <= 1
    /\ \A r, q \in Requests :
         r # q /\ At(r, "issue") /\ At(q, "issue") => req[r].consent # req[q].consent

\* "Once the check passes, the state is taken (single use)" (takeLogin): a
\* pending sign-in is consumed at most once.
LoginSingleUse == \A l \in Logins : taken[l] <= 1
=============================================================================
