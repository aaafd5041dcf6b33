------------------------------- MODULE RunAction -------------------------------
(***************************************************************************)
(* One call of the tool shopify_run_action (src/src/actions/tools.ts):     *)
(* every store is checked before any store is changed, the records the     *)
(* document names are looked up again, the mutation is sent to the stores  *)
(* by a few workers, and each store's answer is judged root by root        *)
(* (src/src/actions/outcomes.ts).  Or one call of shopify_graphql_mutation *)
(* (src/src/server.ts), which sends a document to one store unchecked, and *)
(* judges the answer by its shape if the schema could not be used.         *)
(*                                                                         *)
(* Meanwhile the stores file may be edited, records may be deleted, and a  *)
(* request may run after its caller stopped waiting.  How one request is   *)
(* sent is the subject of AdminApi; here it is answered or lost.           *)
(***************************************************************************)
EXTENDS Integers, FiniteSets

CONSTANTS
    Aliases,   \* the store aliases the call names
    Shops,     \* the shops of Shopify
    Roots,     \* the top-level mutation fields of the document
    Workers,   \* RUN_CONCURRENCY
    None       \* no shop: an alias that is unknown or not connected

ASSUME RunActionAssumption ==
    /\ IsFiniteSet(Aliases) /\ Roots # {}
    /\ Workers \in Nat \ {0}
    /\ None \notin Shops

VARIABLES
    args,      \* the arguments of the call, as far as the checks tell them apart
    stores,    \* the stores file: the shop of each alias
    records,   \* shops that have the record which the document names
    phase,     \* what the call is at
    plan,      \* per alias: what the preflight and the lookup found
    request,   \* per alias: the request with the mutation
    report,    \* per alias: the outcome in the result and in the audit entry
    verdict,   \* per alias and root: the outcome in the result
    (* history *)
    misshown,  \* roots whose answer has the shape of another
    edited,    \* whether the stores file changed during the call
    deleted,   \* shops whose record was deleted during the call
    ran        \* per alias: the roots that Shopify ran for it

checks == <<args, phase, plan>>
world  == <<stores, records, edited, deleted>>
vars   == <<checks, world, request, report, verdict, misshown, ran>>

\* destructive are the stores with destructive values.  Only a document that
\* was checked against the schema has its error lists added to it.
Arguments ==
    [tool : {"run_action"}, checked : {TRUE}, dryRun : BOOLEAN, confirmed : BOOLEAN,
     acknowledged : BOOLEAN, destructive : SUBSET Aliases]
    \cup
    [tool : {"graphql_mutation"}, checked : BOOLEAN, dryRun : {FALSE}, confirmed : BOOLEAN,
     acknowledged : {FALSE}, destructive : SUBSET Aliases]

RunsAction == args.tool = "run_action"

Phases == {"start", "preflight", "lookup", "apply", "done"}

\* found is what the lookup of the record came to.
Plans == [shop : Shops \cup {None}, valid : BOOLEAN, listed : BOOLEAN,
          found : {"unchecked", "pending", "yes", "no", "failed"}]

Unchecked == [shop |-> None, valid |-> FALSE, listed |-> FALSE, found |-> "unchecked"]

\* A request: not sent, waited for, given up though it may still run, or over.
Requests == {"none", "sent", "lost", "over"}

\* What an answer holds for a root: a result, user errors, or no result - with
\* errors on its path of which all, some or none deny access, or with none.
RootAnswers == {"result", "user errors", "denied", "mixed", "failed", "blank"}

\* What a payload shows without its error lists added: lists with messages, an
\* empty list of errors and no errors on its path, or neither.
Shapes == {"messages", "empty", "neither"}

\* Its errors without a path: none, all of them deny access, or not all.
Pathless == {"none", "denied", "mixed"}

Verdicts == {"none", "applied", "rejected", "unknown"}

Reports == {"none", "ok", "dry_run_problems", "refused", "preflight", "not_run",
            "rejected", "partial", "unknown", "throttled", "failed"}

Init ==
    /\ args \in Arguments
    /\ stores \in [Aliases -> Shops \cup {None}]
    /\ records \in SUBSET Shops
    /\ phase = "start"
    /\ plan = [a \in Aliases |-> Unchecked]
    /\ request = [a \in Aliases |-> "none"]
    /\ report = [a \in Aliases |-> "none"]
    /\ verdict = [a \in Aliases |-> [r \in Roots |-> "none"]]
    /\ misshown = {}
    /\ edited = FALSE
    /\ deleted = {}
    /\ ran = [a \in Aliases |-> {}]

-----------------------------------------------------------------------------
(* The environment. *)

\* The stores file is edited, or a connection is made or ends (once).
EditStores(a) ==
    /\ phase # "done" /\ ~edited
    /\ \E s \in (Shops \cup {None}) \ {stores[a]} : stores' = [stores EXCEPT ![a] = s]
    /\ edited' = TRUE
    /\ UNCHANGED <<checks, records, deleted, request, report, verdict, misshown, ran>>

\* Somebody deletes the record.
DeleteRecord(s) ==
    /\ phase # "done" /\ s \in records
    /\ records' = records \ {s}
    /\ deleted' = deleted \cup {s}
    /\ UNCHANGED <<checks, stores, edited, request, report, verdict, misshown, ran>>

\* A request that was given up runs after all, in part or not at all.
RunLate(a) ==
    /\ request[a] = "lost"
    /\ request' = [request EXCEPT ![a] = "over"]
    /\ \E rs \in SUBSET Roots : ran' = [ran EXCEPT ![a] = rs]
    /\ UNCHANGED <<checks, world, report, verdict, misshown>>

-----------------------------------------------------------------------------
(* The checks. *)

\* The call ends with an outcome for each store.
Reply(outcome) ==
    /\ phase' = "done"
    /\ report' = outcome

Refuse == Reply([a \in Aliases |-> "refused"])

\* Mutant: the shops of the aliases are not compared.
SameShopIgnored == FALSE

\* Two of the aliases are one shop.
SameShop == \E a, b \in Aliases : a # b /\ stores[a] # None /\ stores[a] = stores[b]

\* A mutation that is destructive with the values of any store needs confirm.
Unconfirmed == ~args.dryRun /\ args.destructive # {} /\ ~args.confirmed

\* Refused before any store is asked: two aliases of one shop, no confirm, or
\* arguments or a document that are not accepted.
Start ==
    /\ phase = "start"
    /\ \/ Refuse
       \/ /\ RunsAction /\ ~SameShop /\ ~Unconfirmed
          /\ phase' = "preflight"
          /\ UNCHANGED report
    /\ UNCHANGED <<args, plan, world, request, verdict, misshown, ran>>

\* shopify_graphql_mutation sends its document to one store as it is.
SendUnchecked(a) ==
    /\ phase = "start" /\ ~RunsAction /\ ~Unconfirmed /\ stores[a] # None
    /\ phase' = "apply"
    /\ request' = [request EXCEPT ![a] = "sent"]
    /\ UNCHANGED <<args, plan, world, report, verdict, misshown, ran>>

\* The preflight of a store reads the stores file again, and checks document
\* and variables against the schema.  A document may choose its targets by a
\* search or filter: they are not listed.
Preflight(a) ==
    /\ phase = "preflight" /\ plan[a] = Unchecked
    /\ \E accepted, listed \in BOOLEAN :
         plan' = [plan EXCEPT ![a] = [shop |-> stores[a],
                                      valid |-> accepted /\ stores[a] # None,
                                      listed |-> listed, found |-> "pending"]]
    /\ UNCHANGED <<args, phase, world, request, report, verdict, misshown, ran>>

Valid(a) == plan[a].valid

\* Every store is checked: with one that is not valid, or with targets that
\* are not listed, nothing runs anywhere.
Decide ==
    /\ phase = "preflight" /\ \A a \in Aliases : plan[a] # Unchecked
    /\ LET proceed(to) == phase' = to /\ UNCHANGED report
           listed      == \A a \in Aliases : plan[a].listed IN
       IF args.dryRun THEN proceed("lookup")
       ELSE IF \E a \in Aliases : ~Valid(a)
            THEN Reply([a \in Aliases |-> IF Valid(a) THEN "not_run" ELSE "preflight"])
       ELSE IF args.acknowledged THEN proceed("apply")
       ELSE IF listed THEN proceed("lookup") ELSE Refuse
    /\ UNCHANGED <<args, plan, world, request, verdict, misshown, ran>>

\* The record is looked up in one store; the lookup may fail.
Lookup(a) ==
    /\ phase = "lookup" /\ Valid(a) /\ plan[a].found = "pending"
    /\ \E found \in {"failed", IF plan[a].shop \in records THEN "yes" ELSE "no"} :
         plan' = [plan EXCEPT ![a].found = found]
    /\ UNCHANGED <<args, phase, world, request, report, verdict, misshown, ran>>

\* Mutant: a lookup that failed does not stop the call.
MissingOnly(a) == plan[a].found = "no"

\* The record is not there, or the lookup could not tell.
Missing(a) == plan[a].found \in {"no", "failed"}

\* All stores were looked up: a dry run ends; otherwise the mutation is sent
\* if every record was found.
LookedUp ==
    /\ phase = "lookup" /\ \A a \in Aliases : Valid(a) => plan[a].found # "pending"
    /\ IF args.dryRun
       THEN Reply([a \in Aliases |->
                      IF Valid(a) /\ ~Missing(a) THEN "ok" ELSE "dry_run_problems"])
       ELSE IF \E a \in Aliases : Missing(a) THEN Refuse
       ELSE phase' = "apply" /\ UNCHANGED report
    /\ UNCHANGED <<args, plan, world, request, verdict, misshown, ran>>

-----------------------------------------------------------------------------
(* The mutation. *)

\* Mutant: one worker too many.
WorkerFreeOrOne == Cardinality({a \in Aliases : request[a] = "sent"}) <= Workers

\* A worker takes the next store when it is done with the one before.
WorkerFree == Cardinality({a \in Aliases : request[a] = "sent"}) < Workers

Send(a) ==
    /\ phase = "apply" /\ RunsAction /\ request[a] = "none" /\ WorkerFree
    /\ request' = [request EXCEPT ![a] = "sent"]
    /\ UNCHANGED <<checks, world, report, verdict, misshown, ran>>

\* Shopify ran every root it has a result for, and none it refused; of a root
\* with an error or no entry it may have run anything.
MayHaveRun(roots, pathless, rs) ==
    \A r \in Roots :
        /\ roots[r] = "result" => r \in rs
        /\ roots[r] \in {"user errors", "denied"} => r \notin rs
        /\ roots[r] = "blank" /\ pathless = "denied" => r \notin rs

\* Mutant: one error that denies access is enough.
VerdictIfDenied(answer, pathless) ==
    CASE answer = "result" -> "applied"
      [] answer \in {"user errors", "denied", "mixed"} -> "rejected"
      [] answer = "blank" /\ pathless # "none" -> "rejected"
      [] OTHER -> "unknown"

\* A root is judged on its own.  Without a result it is rejected only if every
\* error on its path, or else every error without a path, denies access.
Verdict(answer, pathless) ==
    CASE answer = "result" -> "applied"
      [] answer \in {"user errors", "denied"} -> "rejected"
      [] answer = "blank" /\ pathless = "denied" -> "rejected"
      [] OTHER -> "unknown"

\* Mutant: a payload without errors is one that applied.
VerdictOfShapeWithoutList(answer, shape, pathless) ==
    IF answer \notin {"result", "user errors"} THEN Verdict(answer, pathless)
    ELSE IF shape = "messages" THEN "rejected"
    ELSE IF pathless = "none" THEN "applied" ELSE "unknown"

\* Without the schema, messages anywhere in a payload are user errors, and only
\* an empty list of errors, with no error elsewhere, shows that it applied.
VerdictOfShape(answer, shape, pathless) ==
    IF answer \notin {"result", "user errors"} THEN Verdict(answer, pathless)
    ELSE IF shape = "messages" THEN "rejected"
    ELSE IF shape = "empty" /\ pathless = "none" THEN "applied" ELSE "unknown"

\* A result may hold messages that are no errors, and the list of errors that a
\* document selects may not be the one that has them.
Misshown(answer, shape) ==
    (answer = "result" /\ shape = "messages") \/ (answer = "user errors" /\ shape = "empty")

StoreOutcome(v) ==
    LET all(x) == \A r \in Roots : v[r] = x IN
    CASE all("applied")  -> "ok"
      [] all("rejected") -> "rejected"
      [] OTHER -> IF \E r \in Roots : v[r] = "applied" THEN "partial" ELSE "unknown"

Judge(a, v) ==
    /\ verdict' = [verdict EXCEPT ![a] = v]
    /\ report' = [report EXCEPT ![a] = StoreOutcome(v)]

\* Shopify answers, and each root is judged.
Answer(a) ==
    /\ request[a] = "sent"
    /\ request' = [request EXCEPT ![a] = "over"]
    /\ \E roots \in [Roots -> RootAnswers], pathless \in Pathless, rs \in SUBSET Roots :
         /\ MayHaveRun(roots, pathless, rs)
         /\ ran' = [ran EXCEPT ![a] = rs]
         /\ \/ /\ args.checked
               /\ Judge(a, [r \in Roots |-> Verdict(roots[r], pathless)])
               /\ UNCHANGED misshown
            \/ /\ ~args.checked
               /\ \E shapes \in [Roots -> Shapes] :
                    /\ Judge(a, [r \in Roots |-> VerdictOfShape(roots[r], shapes[r], pathless)])
                    /\ misshown' = misshown \cup {r \in Roots : Misshown(roots[r], shapes[r])}
    /\ UNCHANGED <<checks, world>>

\* Shopify throttles or forbids the request: it runs nothing.
TurnDown(a) ==
    /\ request[a] = "sent"
    /\ request' = [request EXCEPT ![a] = "over"]
    /\ \E outcome \in {"throttled", "failed"} : report' = [report EXCEPT ![a] = outcome]
    /\ UNCHANGED <<checks, world, verdict, misshown, ran>>

\* Another error, or no answer in time: the mutation might have applied.
GiveUp(a) ==
    /\ request[a] = "sent"
    /\ request' = [request EXCEPT ![a] = "lost"]
    /\ report' = [report EXCEPT ![a] = "unknown"]
    /\ UNCHANGED <<checks, world, verdict, misshown, ran>>

\* All workers are done, or the only request.
Finish ==
    /\ phase = "apply"
    /\ \A a \in Aliases :
         request[a] \in {"lost", "over"} \/ (~RunsAction /\ request[a] = "none")
    /\ phase' = "done"
    /\ UNCHANGED <<args, plan, world, request, report, verdict, misshown, ran>>

-----------------------------------------------------------------------------
Next ==
    \/ Start \/ Decide \/ LookedUp \/ Finish
    \/ \E s \in Shops : DeleteRecord(s)
    \/ \E a \in Aliases :
         \/ EditStores(a) \/ Preflight(a) \/ Lookup(a) \/ SendUnchecked(a)
         \/ Send(a) \/ Answer(a) \/ TurnDown(a) \/ GiveUp(a) \/ RunLate(a)

Spec == Init /\ [][Next]_vars

-----------------------------------------------------------------------------
(* Properties. *)

\* Besides the types: no more requests at once than there are workers.
TypeOK ==
    /\ args \in Arguments
    /\ stores \in [Aliases -> Shops \cup {None}]
    /\ records \subseteq Shops /\ deleted \subseteq Shops \ records
    /\ phase \in Phases /\ plan \in [Aliases -> Plans]
    /\ request \in [Aliases -> Requests] /\ report \in [Aliases -> Reports]
    /\ verdict \in [Aliases -> [Roots -> Verdicts]]
    /\ misshown \subseteq Roots /\ edited \in BOOLEAN /\ ran \in [Aliases -> SUBSET Roots]
    /\ Cardinality({a \in Aliases : request[a] = "sent"}) <= Workers

Changed == \E a \in Aliases : ran[a] # {}

\* Nothing runs on any store in a dry run, without the confirmation that the
\* values of one store call for, while another store fails its checks, or,
\* unless the caller acknowledges it, when the targets of one store are not
\* listed or its record was not there when the call began.  A document that is
\* sent unchecked changes one store, and needs the confirmation all the same.
CheckedFirst ==
    Changed =>
        /\ ~args.dryRun
        /\ args.destructive # {} => args.confirmed
        /\ ~RunsAction => \A a, b \in Aliases : ran[a] # {} /\ ran[b] # {} => a = b
        /\ RunsAction => \A a \in Aliases :
             /\ Valid(a)
             /\ \/ args.acknowledged
                \/ plan[a].listed /\ plan[a].shop \in records \cup deleted

\* What the call says of a store, and records in the audit log, stays true,
\* also when a request runs late: "ok" says that every root ran; an outcome
\* after which the document may be sent again says that none did; and the
\* verdict on a root of a partly applied document is right.  Judged by its
\* shape, an answer may be mistaken only about a root whose payload holds
\* messages that are no errors, or an empty list beside the one with the errors.
ReportIsSafe ==
    \A a \in Aliases :
        /\ report[a] \in {"refused", "preflight", "not_run", "dry_run_problems",
                           "rejected", "throttled", "failed"} => ran[a] \subseteq misshown
        /\ report[a] = "ok" /\ ~args.dryRun => Roots \ ran[a] \subseteq misshown
        /\ \A r \in Roots \ misshown :
             /\ verdict[a][r] = "applied" => r \in ran[a]
             /\ verdict[a][r] = "rejected" => r \notin ran[a]

\* The mutation runs once on a shop, however its aliases are written, unless
\* the stores file is edited between the comparison of the shops and the
\* preflight that reads it again.
OncePerShop ==
    ~edited =>
        \A a, b \in Aliases :
            a # b /\ ran[a] # {} /\ ran[b] # {} => plan[a].shop # plan[b].shop
=============================================================================
