---------------------------- MODULE RunActionProofs ----------------------------
(***************************************************************************)
(* Proofs about RunAction, for any number of stores, shops, mutation       *)
(* fields and workers.                                                     *)
(***************************************************************************)
EXTENDS RunAction, FiniteSetTheorems, TLAPS

\* What must be so for the mutation to be sent to any store.
Allowed ==
    /\ ~args.dryRun
    /\ args.destructive # {} => args.confirmed
    /\ RunsAction => \A a \in Aliases :
         /\ Valid(a)
         /\ \/ args.acknowledged
            \/ plan[a].listed /\ plan[a].shop \in records \cup deleted

\* The checks come in their order: what holds when the call reaches a phase.
PhaseOrder ==
    /\ phase \in {"preflight", "lookup", "apply"} => ~Unconfirmed
    /\ phase \in {"lookup", "apply"} /\ RunsAction =>
         \A a \in Aliases : plan[a].found # "unchecked"
    /\ phase \in {"preflight", "lookup"} => RunsAction
    /\ phase = "lookup" /\ ~args.dryRun => \A a \in Aliases : Valid(a) /\ plan[a].listed
    /\ phase = "apply" => Allowed

\* A request is made in the last phase only, and what was allowed stays so.
RequestsAllowed ==
    \A a \in Aliases : request[a] # "none" => phase \in {"apply", "done"} /\ Allowed

\* A document that is sent unchecked is sent to one store.
OneUnchecked ==
    ~RunsAction => \A a, b \in Aliases : request[a] # "none" /\ request[b] # "none" => a = b

\* What the checks found out about a store.
PlansTrue ==
    \A a \in Aliases :
        /\ plan[a].found = "unchecked" => plan[a] = Unchecked
        /\ plan[a].found = "yes" => plan[a].shop \in records \cup deleted
        /\ Valid(a) => plan[a].shop # None
        /\ ~edited /\ plan[a] # Unchecked => plan[a].shop = stores[a]

\* The shops of the aliases were compared before anything was sent.
ShopsCompared ==
    ~edited /\ RunsAction =>
        /\ phase \in {"preflight", "lookup", "apply"} => ~SameShop
        /\ \A a \in Aliases : request[a] # "none" => ~SameShop

\* How far Shopify may have got with a request, and what is said of it by then.
RequestsTrue ==
    \A a \in Aliases :
        /\ request[a] \in {"none", "sent"} => ran[a] = {}
        /\ request[a] \in {"none", "sent", "lost"} => \A r \in Roots : verdict[a][r] = "none"
        /\ request[a] = "lost" => report[a] = "unknown"

IInv == /\ TypeOK /\ PhaseOrder /\ RequestsAllowed /\ OneUnchecked /\ PlansTrue /\ ShopsCompared
        /\ RequestsTrue /\ ReportIsSafe

-----------------------------------------------------------------------------
LEMMA InitInv == Init => IInv
  <1> SUFFICES ASSUME Init PROVE IInv
    OBVIOUS
  <1> USE RunActionAssumption DEF Init
  <1>1. TypeOK
    <2>1. Unchecked \in Plans
      BY DEF Unchecked, Plans
    <2>2. {a \in Aliases : request[a] = "sent"} = {}
      OBVIOUS
    <2>3. Cardinality({a \in Aliases : request[a] = "sent"}) <= Workers
      BY <2>2, FS_EmptySet
    <2> QED BY <2>1, <2>3 DEF TypeOK, Phases, Requests, Reports, Verdicts
  <1>2. PhaseOrder /\ RequestsAllowed /\ OneUnchecked /\ ShopsCompared
    BY DEF PhaseOrder, RequestsAllowed, OneUnchecked, ShopsCompared
  <1>3. PlansTrue
    BY DEF PlansTrue, Unchecked, Valid
  <1>4. RequestsTrue /\ ReportIsSafe
    BY DEF RequestsTrue, ReportIsSafe
  <1> QED BY <1>1, <1>2, <1>3, <1>4 DEF IInv

-----------------------------------------------------------------------------
(* Types. *)

\* Fewer requests than before are under way, or as many.
LEMMA NoMoreSent ==
    ASSUME TypeOK, \A a \in Aliases : request'[a] = "sent" => request[a] = "sent"
    PROVE  Cardinality({a \in Aliases : request'[a] = "sent"}) <= Workers
  <1> DEFINE now  == {a \in Aliases : request[a] = "sent"}
             then == {a \in Aliases : request'[a] = "sent"}
  <1>1. then \subseteq now /\ IsFiniteSet(now)
    BY RunActionAssumption, FS_Subset
  <1>2. Cardinality(then) <= Cardinality(now) /\ IsFiniteSet(then)
    BY <1>1, FS_Subset
  <1>3. Cardinality(then) \in Nat /\ Cardinality(now) \in Nat
    BY <1>1, <1>2, FS_CardinalityType
  <1>4. Cardinality(now) <= Workers /\ Workers \in Nat
    BY RunActionAssumption DEF TypeOK
  <1> HIDE DEF now, then
  <1>5. Cardinality(then) <= Workers
    BY <1>2, <1>3, <1>4
  <1> QED BY <1>5 DEF then

LEMMA OneMoreSent ==
    ASSUME TypeOK, NEW a \in Aliases, request[a] # "sent", WorkerFree,
           request' = [request EXCEPT ![a] = "sent"]
    PROVE  Cardinality({b \in Aliases : request'[b] = "sent"}) <= Workers
  <1> DEFINE now  == {b \in Aliases : request[b] = "sent"}
             then == {b \in Aliases : request'[b] = "sent"}
  <1>1. then = now \cup {a} /\ a \notin now
    BY DEF TypeOK
  <1>2. IsFiniteSet(now)
    BY RunActionAssumption, FS_Subset
  <1>3. Cardinality(now) < Workers /\ Workers \in Nat
    BY RunActionAssumption DEF WorkerFree
  <1> HIDE DEF now, then
  <1>4. Cardinality(then) = Cardinality(now) + 1 /\ Cardinality(now) \in Nat
    BY <1>1, <1>2, FS_AddElement, FS_CardinalityType
  <1>5. Cardinality(then) <= Workers
    BY <1>3, <1>4
  <1> QED BY <1>5 DEF then

LEMMA VerdictTyped ==
    ASSUME NEW x, NEW y
    PROVE  Verdict(x, y) \in Verdicts
  BY DEF Verdict, Verdicts

LEMMA ShapeTyped ==
    ASSUME NEW x, NEW y, NEW z
    PROVE  VerdictOfShape(x, y, z) \in Verdicts
  <1>1. "rejected" \in Verdicts /\ "applied" \in Verdicts /\ "unknown" \in Verdicts
    BY DEF Verdicts
  <1> QED BY <1>1, VerdictTyped DEF VerdictOfShape

LEMMA OutcomeTyped ==
    ASSUME NEW v
    PROVE  StoreOutcome(v) \in {"ok", "rejected", "partial", "unknown"}
  BY DEF StoreOutcome

\* Whichever way an answer is judged, each root gets a verdict.
LEMMA JudgedSomehow ==
    ASSUME TypeOK, NEW a \in Aliases, Answer(a)
    PROVE  \E v \in [Roots -> Verdicts], rs \in SUBSET Roots :
             /\ Judge(a, v)
             /\ ran' = [ran EXCEPT ![a] = rs]
             /\ misshown' \subseteq Roots
  <1>1. PICK roots \in [Roots -> RootAnswers], pathless \in Pathless, rs \in SUBSET Roots :
          /\ ran' = [ran EXCEPT ![a] = rs]
          /\ \/ /\ Judge(a, [r \in Roots |-> Verdict(roots[r], pathless)])
                /\ UNCHANGED misshown
             \/ \E shapes \in [Roots -> Shapes] :
                  /\ Judge(a, [r \in Roots |-> VerdictOfShape(roots[r], shapes[r], pathless)])
                  /\ misshown' = misshown \cup {r \in Roots : Misshown(roots[r], shapes[r])}
    BY DEF Answer
  <1>2. CASE /\ Judge(a, [r \in Roots |-> Verdict(roots[r], pathless)])
             /\ UNCHANGED misshown
    <2>1. [r \in Roots |-> Verdict(roots[r], pathless)] \in [Roots -> Verdicts]
      BY VerdictTyped
    <2> QED BY <1>1, <1>2, <2>1 DEF TypeOK
  <1>3. ASSUME NEW shapes \in [Roots -> Shapes],
               Judge(a, [r \in Roots |-> VerdictOfShape(roots[r], shapes[r], pathless)]),
               misshown' = misshown \cup {r \in Roots : Misshown(roots[r], shapes[r])}
        PROVE  misshown' \subseteq Roots /\ \E v \in [Roots -> Verdicts] : Judge(a, v)
    <2>1. [r \in Roots |-> VerdictOfShape(roots[r], shapes[r], pathless)]
            \in [Roots -> Verdicts]
      BY ShapeTyped
    <2> QED BY <1>3, <2>1 DEF TypeOK
  <1> QED BY <1>1, <1>2, <1>3

LEMMA TypeStep == TypeOK /\ RequestsAllowed /\ [Next]_vars => TypeOK'
  <1> SUFFICES ASSUME TypeOK, RequestsAllowed, [Next]_vars PROVE TypeOK'
    OBVIOUS
  <1>a. /\ report \in [Aliases -> Reports] /\ plan \in [Aliases -> Plans]
        /\ request \in [Aliases -> Requests] /\ phase \in Phases
    BY DEF TypeOK
  \* A step that changes no request and of the rest only phase and reports.
  <1>b. ASSUME UNCHANGED <<args, plan, world, request, verdict, misshown, ran>>,
               phase' \in Phases, report' \in [Aliases -> Reports]
        PROVE  TypeOK'
    BY <1>b DEF TypeOK, world
  <1>1. CASE UNCHANGED vars
    BY <1>1 DEF TypeOK, vars, checks, world
  <1>2. CASE Start
    BY <1>2, <1>a, <1>b DEF Start, Refuse, Reply, Phases, Reports
  <1>3. CASE Decide
    BY <1>3, <1>a, <1>b DEF Decide, Refuse, Reply, Phases, Reports
  <1>4. CASE LookedUp
    BY <1>4, <1>a, <1>b DEF LookedUp, Refuse, Reply, Phases, Reports
  <1>5. CASE Finish
    BY <1>5, <1>a, <1>b DEF Finish, Phases
  <1>6. ASSUME NEW s \in Shops, DeleteRecord(s) PROVE TypeOK'
    BY <1>6 DEF DeleteRecord, TypeOK, checks
  <1>7. ASSUME NEW a \in Aliases, EditStores(a) PROVE TypeOK'
    BY <1>7 DEF EditStores, TypeOK, checks
  <1>8. ASSUME NEW a \in Aliases, Preflight(a) PROVE TypeOK'
    <2>1. stores[a] \in Shops \cup {None}
      BY DEF TypeOK
    <2>2. plan' \in [Aliases -> Plans]
      BY <1>8, <1>a, <2>1 DEF Preflight, Plans
    <2> QED BY <2>2, <1>8 DEF Preflight, TypeOK, world
  <1>9. ASSUME NEW a \in Aliases, Lookup(a) PROVE TypeOK'
    <2>1. plan' \in [Aliases -> Plans]
      BY <1>9, <1>a DEF Lookup, Plans
    <2> QED BY <2>1, <1>9 DEF Lookup, TypeOK, world
  <1>10. ASSUME NEW a \in Aliases, Send(a) PROVE TypeOK'
    <2>1. Cardinality({b \in Aliases : request'[b] = "sent"}) <= Workers
      BY <1>10, OneMoreSent DEF Send
    <2>2. request' \in [Aliases -> Requests]
      BY <1>10, <1>a DEF Send, Requests
    <2> QED BY <2>1, <2>2, <1>10 DEF Send, TypeOK, checks, world
  <1>11. ASSUME NEW a \in Aliases, Answer(a) PROVE TypeOK'
    <2>1. request' = [request EXCEPT ![a] = "over"] /\ UNCHANGED <<checks, world>>
      BY <1>11 DEF Answer
    <2>2. Cardinality({b \in Aliases : request'[b] = "sent"}) <= Workers
      BY <2>1, <1>a, NoMoreSent
    <2>3. request' \in [Aliases -> Requests]
      BY <2>1, <1>a DEF Requests
    <2>4. PICK v \in [Roots -> Verdicts], rs \in SUBSET Roots :
            /\ Judge(a, v)
            /\ ran' = [ran EXCEPT ![a] = rs]
            /\ misshown' \subseteq Roots
      BY <1>11, JudgedSomehow
    <2>6. StoreOutcome(v) \in Reports
      BY OutcomeTyped DEF Reports
    <2>7. verdict' \in [Aliases -> [Roots -> Verdicts]] /\ report' \in [Aliases -> Reports]
      BY <2>4, <2>6 DEF TypeOK, Judge
    <2>8. ran' \in [Aliases -> SUBSET Roots]
      BY <2>4 DEF TypeOK
    <2> QED BY <2>1, <2>2, <2>3, <2>4, <2>7, <2>8 DEF TypeOK, checks, world
  <1>12. ASSUME NEW a \in Aliases, TurnDown(a) \/ GiveUp(a) PROVE TypeOK'
    <2>1. /\ \E x \in {"over", "lost"} : request' = [request EXCEPT ![a] = x]
          /\ \E x \in {"throttled", "failed", "unknown"} : report' = [report EXCEPT ![a] = x]
          /\ UNCHANGED <<checks, world, verdict, misshown, ran>>
      BY <1>12 DEF TurnDown, GiveUp
    <2>2. Cardinality({b \in Aliases : request'[b] = "sent"}) <= Workers
      BY <2>1, <1>a, NoMoreSent
    <2>3. request' \in [Aliases -> Requests] /\ report' \in [Aliases -> Reports]
      BY <2>1, <1>a DEF Requests, Reports
    <2> QED BY <2>1, <2>2, <2>3 DEF TypeOK, checks, world
  <1>13. ASSUME NEW a \in Aliases, RunLate(a) PROVE TypeOK'
    <2>1. Cardinality({b \in Aliases : request'[b] = "sent"}) <= Workers
      BY <1>13, <1>a, NoMoreSent DEF RunLate
    <2>2. request' \in [Aliases -> Requests] /\ ran' \in [Aliases -> SUBSET Roots]
      BY <1>13 DEF RunLate, Requests, TypeOK
    <2> QED BY <2>1, <2>2, <1>13 DEF RunLate, TypeOK, checks, world
  <1>14. ASSUME NEW a \in Aliases, SendUnchecked(a) PROVE TypeOK'
    <2>1. \A b \in Aliases : request[b] = "none"
      BY <1>14 DEF SendUnchecked, RequestsAllowed
    <2>2. {b \in Aliases : request'[b] = "sent"} = {a}
      BY <1>14, <1>a, <2>1 DEF SendUnchecked
    <2>3. Cardinality({b \in Aliases : request'[b] = "sent"}) = 1
      BY <2>2, FS_Singleton
    <2>4. Cardinality({b \in Aliases : request'[b] = "sent"}) <= Workers
      BY <2>3, RunActionAssumption
    <2>5. request' \in [Aliases -> Requests] /\ phase' \in Phases
      BY <1>14, <1>a DEF SendUnchecked, Requests, Phases
    <2> QED BY <2>4, <2>5, <1>14 DEF SendUnchecked, TypeOK, world
  <1> QED BY <1>1, <1>2, <1>3, <1>4, <1>5, <1>6, <1>7, <1>8, <1>9, <1>10, <1>11, <1>12,
             <1>13, <1>14 DEF Next

-----------------------------------------------------------------------------
(* The checks come first. *)

\* What was allowed stays allowed: no record is forgotten that was there.
LEMMA AllowedStays ==
    ASSUME Allowed, UNCHANGED <<args, plan>>,
           records \cup deleted \subseteq records' \cup deleted'
    PROVE  Allowed'
  BY DEF Allowed, Valid, RunsAction

\* All that is left to do once the checks are over keeps the order.
LEMMA OrderStays ==
    ASSUME PhaseOrder, RequestsAllowed, UNCHANGED <<args, phase, plan>>,
           records \cup deleted \subseteq records' \cup deleted',
           \A a \in Aliases : request'[a] # "none" => request[a] # "none" \/ phase = "apply"
    PROVE  PhaseOrder' /\ RequestsAllowed'
  <1>1. Allowed => Allowed'
    BY AllowedStays
  <1>2. PhaseOrder'
    BY <1>1 DEF PhaseOrder, Unconfirmed, Valid, RunsAction
  <1>3. RequestsAllowed'
    BY <1>1 DEF PhaseOrder, RequestsAllowed
  <1> QED BY <1>2, <1>3

LEMMA OrderStep ==
    TypeOK /\ PhaseOrder /\ RequestsAllowed /\ PlansTrue /\ [Next]_vars
        => PhaseOrder' /\ RequestsAllowed'
  <1> SUFFICES ASSUME TypeOK, PhaseOrder, RequestsAllowed, PlansTrue, [Next]_vars
               PROVE  PhaseOrder' /\ RequestsAllowed'
    OBVIOUS
  \* Before the last phase there are no requests; replying ends the call.
  <1>a. phase \in {"start", "preflight", "lookup"} => \A a \in Aliases : request[a] = "none"
    BY DEF RequestsAllowed
  <1>b. ASSUME phase' = "done", phase \in {"start", "preflight", "lookup"}, UNCHANGED request
        PROVE  PhaseOrder' /\ RequestsAllowed'
    BY <1>a, <1>b DEF PhaseOrder, RequestsAllowed
  <1>1. CASE UNCHANGED vars
    BY <1>1, OrderStays DEF vars, checks, world
  <1>2. CASE Start
    <2>1. CASE phase' = "done"
      BY <1>2, <1>b, <2>1 DEF Start
    <2>2. CASE RunsAction /\ ~Unconfirmed /\ phase' = "preflight"
      BY <1>2, <1>a, <2>2 DEF Start, PhaseOrder, RequestsAllowed, Unconfirmed, RunsAction
    <2> QED BY <1>2, <2>1, <2>2 DEF Start, Refuse, Reply
  <1>3. CASE Decide
    <2>1. /\ phase = "preflight" /\ UNCHANGED <<args, plan, world, request>>
          /\ \A a \in Aliases : plan[a].found # "unchecked"
      BY <1>3 DEF Decide, PlansTrue
    <2>2. CASE phase' = "done"
      BY <1>b, <2>1, <2>2
    <2>3. CASE /\ phase' = "lookup"
               /\ args.dryRun \/ \A a \in Aliases : Valid(a) /\ plan[a].listed
      BY <1>a, <2>1, <2>3 DEF PhaseOrder, RequestsAllowed, Unconfirmed, Valid, RunsAction
    <2>4. CASE phase' = "apply" /\ ~args.dryRun /\ args.acknowledged
               /\ \A a \in Aliases : Valid(a)
      <3>1. Allowed'
        BY <2>1, <2>4 DEF Allowed, PhaseOrder, Unconfirmed, Valid, RunsAction
      <3> QED BY <1>a, <2>1, <2>4, <3>1 DEF PhaseOrder, RequestsAllowed, Unconfirmed, RunsAction
    <2> QED BY <1>3, <2>2, <2>3, <2>4 DEF Decide, Refuse, Reply
  <1>4. CASE LookedUp
    <2>1. phase = "lookup" /\ UNCHANGED <<args, plan, world, request>>
      BY <1>4 DEF LookedUp
    <2>2. CASE phase' = "done"
      BY <1>b, <2>1, <2>2
    <2>3. CASE phase' = "apply" /\ ~args.dryRun /\ \A a \in Aliases : ~Missing(a)
      <3>1. \A a \in Aliases : Valid(a) /\ plan[a].listed
        BY <2>1, <2>3 DEF PhaseOrder
      <3>2. \A a \in Aliases : plan[a].found = "yes"
        BY <1>4, <2>1, <2>3, <3>1 DEF LookedUp, Missing, PhaseOrder, TypeOK, Plans
      <3>3. Allowed'
        BY <2>1, <2>3, <3>1, <3>2 DEF Allowed, PhaseOrder, PlansTrue, Unconfirmed, Valid, RunsAction, world
      <3> QED BY <1>a, <2>1, <2>3, <3>3 DEF PhaseOrder, RequestsAllowed, Unconfirmed, RunsAction
    <2> QED BY <1>4, <2>2, <2>3 DEF LookedUp, Refuse, Reply
  <1>5. CASE Finish
    <2>1. Allowed => Allowed'
      BY <1>5, AllowedStays DEF Finish, world
    <2> QED BY <1>5, <2>1 DEF Finish, PhaseOrder, RequestsAllowed
  <1>6. ASSUME NEW a \in Aliases, Preflight(a) PROVE PhaseOrder' /\ RequestsAllowed'
    BY <1>6, <1>a DEF Preflight, PhaseOrder, RequestsAllowed, Unconfirmed, RunsAction
  <1>7. ASSUME NEW a \in Aliases, Lookup(a) PROVE PhaseOrder' /\ RequestsAllowed'
    <2>1. phase = "lookup" /\ UNCHANGED <<args, phase, request>>
      BY <1>7 DEF Lookup
    <2>2. ASSUME NEW b \in Aliases
          PROVE  /\ plan'[b].valid = plan[b].valid /\ plan'[b].listed = plan[b].listed
                 /\ plan'[b].found # "unchecked"
      BY <1>7, <2>1 DEF Lookup, PhaseOrder, TypeOK, Plans
    <2> QED BY <1>a, <2>1, <2>2 DEF PhaseOrder, RequestsAllowed, Unconfirmed, Valid, RunsAction
  <1>8. ASSUME NEW s \in Shops, DeleteRecord(s) PROVE PhaseOrder' /\ RequestsAllowed'
    BY <1>8, OrderStays DEF DeleteRecord, checks
  <1>9. ASSUME NEW a \in Aliases, EditStores(a) PROVE PhaseOrder' /\ RequestsAllowed'
    BY <1>9, OrderStays DEF EditStores, checks
  <1>10. ASSUME NEW a \in Aliases,
                Send(a) \/ Answer(a) \/ TurnDown(a) \/ GiveUp(a) \/ RunLate(a)
         PROVE  PhaseOrder' /\ RequestsAllowed'
    <2>1. /\ UNCHANGED <<checks, world>>
          /\ \E x : request' = [request EXCEPT ![a] = x]
          /\ phase = "apply" \/ request[a] # "none"
      BY <1>10 DEF Send, Answer, TurnDown, GiveUp, RunLate
    <2> QED BY <2>1, OrderStays DEF checks, world, TypeOK
  <1>11. ASSUME NEW a \in Aliases, SendUnchecked(a) PROVE PhaseOrder' /\ RequestsAllowed'
    <2>1. /\ phase' = "apply" /\ ~Unconfirmed /\ ~RunsAction
          /\ UNCHANGED <<args, plan, world>>
      BY <1>11 DEF SendUnchecked
    <2>2. ~RunsAction' /\ Unconfirmed' = Unconfirmed
      BY <2>1 DEF RunsAction, Unconfirmed
    <2>3. ~args.dryRun
      BY <2>1 DEF RunsAction, TypeOK, Arguments
    <2>4. Allowed'
      BY <2>1, <2>2, <2>3 DEF Allowed, Unconfirmed
    <2> QED BY <2>1, <2>2, <2>4 DEF PhaseOrder, RequestsAllowed
  <1> QED BY <1>1, <1>2, <1>3, <1>4, <1>5, <1>6, <1>7, <1>8, <1>9, <1>10, <1>11 DEF Next

LEMMA OneStep == TypeOK /\ RequestsAllowed /\ OneUnchecked /\ [Next]_vars => OneUnchecked'
  <1> SUFFICES ASSUME TypeOK, RequestsAllowed, OneUnchecked, [Next]_vars PROVE OneUnchecked'
    OBVIOUS
  <1>1. CASE UNCHANGED <<args, request>>
    BY <1>1 DEF OneUnchecked, RunsAction
  <1>2. ASSUME NEW a \in Aliases, SendUnchecked(a) PROVE OneUnchecked'
    <2>1. \A b \in Aliases : request[b] = "none"
      BY <1>2 DEF SendUnchecked, RequestsAllowed
    <2>2. \A b \in Aliases : request'[b] # "none" => b = a
      BY <1>2, <2>1 DEF SendUnchecked, TypeOK
    <2> QED BY <2>2 DEF OneUnchecked
  <1>3. ASSUME NEW a \in Aliases,
               Send(a) \/ Answer(a) \/ TurnDown(a) \/ GiveUp(a) \/ RunLate(a)
        PROVE  OneUnchecked'
    <2>1. /\ UNCHANGED args
          /\ \E x : request' = [request EXCEPT ![a] = x]
          /\ RunsAction \/ request[a] # "none"
      BY <1>3 DEF Send, Answer, TurnDown, GiveUp, RunLate, checks
    <2>2. RunsAction' = RunsAction
      BY <2>1 DEF RunsAction
    <2> QED BY <2>1, <2>2 DEF OneUnchecked, TypeOK
  <1>4. \/ UNCHANGED <<args, request>>
        \/ \E a \in Aliases : SendUnchecked(a) \/ Send(a) \/ Answer(a) \/ TurnDown(a)
                             \/ GiveUp(a) \/ RunLate(a)
    BY DEF Next, vars, checks, Start, Decide, LookedUp, Finish, DeleteRecord, EditStores,
           Preflight, Lookup
  <1> QED BY <1>1, <1>2, <1>3, <1>4

LEMMA PlansStep == TypeOK /\ PlansTrue /\ [Next]_vars => PlansTrue'
  <1> SUFFICES ASSUME TypeOK, PlansTrue, [Next]_vars PROVE PlansTrue'
    OBVIOUS
  <1>1. CASE UNCHANGED <<plan, world>>
    BY <1>1 DEF PlansTrue, Valid, world
  <1>2. ASSUME NEW s \in Shops, DeleteRecord(s) PROVE PlansTrue'
    BY <1>2 DEF DeleteRecord, checks, PlansTrue, Valid
  <1>3. ASSUME NEW a \in Aliases, EditStores(a) PROVE PlansTrue'
    BY <1>3 DEF EditStores, checks, PlansTrue, Valid
  <1>4. ASSUME NEW a \in Aliases, Preflight(a) PROVE PlansTrue'
    <2>1. UNCHANGED world
      BY <1>4 DEF Preflight
    <2>2. PICK accepted, listed \in BOOLEAN :
             plan' = [plan EXCEPT ![a] = [shop |-> stores[a],
                                          valid |-> accepted /\ stores[a] # None,
                                          listed |-> listed, found |-> "pending"]]
      BY <1>4 DEF Preflight
    <2>3. /\ plan'[a] = [shop |-> stores[a], valid |-> accepted /\ stores[a] # None,
                         listed |-> listed, found |-> "pending"]
          /\ \A b \in Aliases : b # a => plan'[b] = plan[b]
      BY <2>2, Zenon DEF TypeOK
    <2>4. /\ plan'[a].shop = stores[a] /\ plan'[a].found = "pending"
          /\ plan'[a].valid = (accepted /\ stores[a] # None)
      <3> DEFINE valid == accepted /\ stores[a] # None
      <3>1. plan'[a] = [shop |-> stores[a], valid |-> valid,
                       listed |-> listed, found |-> "pending"]
        BY <2>3, Zenon
      <3> HIDE DEF valid
      <3>2. plan'[a].shop = stores[a] /\ plan'[a].found = "pending" /\ plan'[a].valid = valid
        BY <3>1
      <3> QED BY <3>2, Zenon DEF valid
    <2> QED BY <2>1, <2>3, <2>4 DEF PlansTrue, Valid, world
  <1>5. ASSUME NEW a \in Aliases, Lookup(a) PROVE PlansTrue'
    <2>1. UNCHANGED world /\ plan[a].found = "pending" /\ plan[a] # Unchecked
      BY <1>5 DEF Lookup, Unchecked
    <2>2. /\ plan'[a].shop = plan[a].shop /\ plan'[a].valid = plan[a].valid
          /\ plan'[a].found \in {"failed", "no", "yes"}
          /\ plan'[a].found = "yes" => plan[a].shop \in records
          /\ \A b \in Aliases : b # a => plan'[b] = plan[b]
      BY <1>5 DEF Lookup, TypeOK, Plans
    <2> QED BY <2>1, <2>2 DEF PlansTrue, Valid, world
  <1>6. \/ UNCHANGED <<plan, world>>
        \/ \E s \in Shops : DeleteRecord(s)
        \/ \E a \in Aliases : EditStores(a) \/ Preflight(a) \/ Lookup(a)
    BY DEF Next, vars, checks, Start, Decide, LookedUp, Finish, SendUnchecked, Send, Answer,
           TurnDown, GiveUp, RunLate
  <1> QED BY <1>1, <1>2, <1>3, <1>4, <1>5, <1>6

LEMMA ShopsStep ==
    TypeOK /\ RequestsAllowed /\ ShopsCompared /\ [Next]_vars => ShopsCompared'
  <1> SUFFICES ASSUME TypeOK, RequestsAllowed, ShopsCompared, [Next]_vars PROVE ShopsCompared'
    OBVIOUS
  <1>1. CASE Start
    BY <1>1 DEF Start, Refuse, Reply, ShopsCompared, SameShop, RequestsAllowed, RunsAction, world
  <1>2. ASSUME NEW a \in Aliases, EditStores(a) PROVE ShopsCompared'
    BY <1>2 DEF EditStores, ShopsCompared
  \* No later step reads the stores anew, or sends before the last phase.
  <1>3. CASE /\ UNCHANGED <<args, stores, edited>>
             /\ \/ UNCHANGED phase
                \/ phase \in {"preflight", "lookup"}
                \/ phase' = "done"
             /\ \A a \in Aliases :
                  request'[a] # "none" => request[a] # "none" \/ phase = "apply"
    BY <1>3 DEF ShopsCompared, SameShop, RunsAction
  <1>4. ASSUME NEW a \in Aliases,
               Send(a) \/ Answer(a) \/ TurnDown(a) \/ GiveUp(a) \/ RunLate(a)
        PROVE  ShopsCompared'
    <2>1. /\ UNCHANGED <<args, stores, edited, phase>>
          /\ \E x : request' = [request EXCEPT ![a] = x]
          /\ phase = "apply" \/ request[a] # "none"
      BY <1>4 DEF Send, Answer, TurnDown, GiveUp, RunLate, world, checks
    <2>2. \A b \in Aliases : request'[b] # "none" => request[b] # "none" \/ phase = "apply"
      BY <2>1 DEF TypeOK
    <2> QED BY <1>3, <2>1, <2>2
  <1>5. CASE UNCHANGED vars
    BY <1>3, <1>5 DEF vars, world, checks
  <1>6. CASE Decide \/ LookedUp \/ Finish
    BY <1>3, <1>6 DEF Decide, LookedUp, Finish, world
  <1>7. ASSUME NEW a \in Aliases, Preflight(a) \/ Lookup(a) PROVE ShopsCompared'
    BY <1>3, <1>7 DEF Preflight, Lookup, world
  <1>8. ASSUME NEW s \in Shops, DeleteRecord(s) PROVE ShopsCompared'
    BY <1>3, <1>8 DEF DeleteRecord, checks
  <1>9. ASSUME NEW a \in Aliases, SendUnchecked(a) PROVE ShopsCompared'
    BY <1>9 DEF SendUnchecked, ShopsCompared, RunsAction
  <1> QED BY <1>1, <1>2, <1>4, <1>5, <1>6, <1>7, <1>8, <1>9 DEF Next

-----------------------------------------------------------------------------
(* The report. *)

\* A reply before the mutation is sent never says that anything ran, and "ok"
\* only in a dry run.
LEMMA RepliesAreSafe ==
    ASSUME TypeOK, RequestsAllowed, RequestsTrue,
           phase \in {"start", "preflight", "lookup"},
           UNCHANGED <<args, request, verdict, misshown, ran>>,
           \A a \in Aliases : report'[a] = "ok" => report[a] = "ok" \/ args.dryRun
    PROVE  RequestsTrue' /\ (ReportIsSafe => ReportIsSafe')
  <1>1. \A a \in Aliases : /\ request[a] = "none" /\ ran[a] = {}
                          /\ \A r \in Roots : verdict[a][r] = "none"
    BY DEF RequestsAllowed, RequestsTrue
  <1> QED BY <1>1 DEF RequestsTrue, ReportIsSafe

\* The verdicts v agree with what ran, but for the roots in mis.
Right(v, rs, mis) ==
    \A r \in Roots \ mis : (v[r] = "applied" => r \in rs) /\ (v[r] = "rejected" => r \notin rs)

LEMMA OutcomeRight ==
    ASSUME NEW v, NEW rs \in SUBSET Roots, NEW mis, Right(v, rs, mis)
    PROVE  /\ StoreOutcome(v) = "ok" => Roots \ rs \subseteq mis
           /\ StoreOutcome(v) = "rejected" => rs \subseteq mis
  <1>1. StoreOutcome(v) = "ok" => \A r \in Roots : v[r] = "applied"
    BY DEF StoreOutcome
  <1>2. StoreOutcome(v) = "rejected" => \A r \in Roots : v[r] = "rejected"
    BY DEF StoreOutcome
  <1> QED BY <1>1, <1>2 DEF Right

\* With the error lists added, each root is judged right.
LEMMA JudgedRight ==
    ASSUME NEW roots \in [Roots -> RootAnswers], NEW pathless \in Pathless,
           NEW rs \in SUBSET Roots, MayHaveRun(roots, pathless, rs), NEW r \in Roots
    PROVE  /\ Verdict(roots[r], pathless) = "applied" => r \in rs
           /\ Verdict(roots[r], pathless) = "rejected" => r \notin rs
  BY DEF Verdict, MayHaveRun

\* By its shape, too, unless its payload has the shape of another.
LEMMA ShapeJudgedRight ==
    ASSUME NEW roots \in [Roots -> RootAnswers], NEW pathless \in Pathless,
           NEW rs \in SUBSET Roots, MayHaveRun(roots, pathless, rs), NEW r \in Roots,
           NEW shape \in Shapes, ~Misshown(roots[r], shape)
    PROVE  /\ VerdictOfShape(roots[r], shape, pathless) = "applied" => r \in rs
           /\ VerdictOfShape(roots[r], shape, pathless) = "rejected" => r \notin rs
  <1>1. CASE roots[r] \notin {"result", "user errors"}
    BY <1>1, JudgedRight DEF VerdictOfShape
  <1>2. CASE roots[r] = "result"
    BY <1>2 DEF VerdictOfShape, Misshown, MayHaveRun
  <1>3. CASE roots[r] = "user errors"
    BY <1>3 DEF VerdictOfShape, Misshown, MayHaveRun
  <1> QED BY <1>1, <1>2, <1>3

\* So an answer is judged right, but for what is shown wrongly.
LEMMA AnswerJudgedRight ==
    ASSUME TypeOK, NEW a \in Aliases, Answer(a)
    PROVE  \E v \in [Roots -> Verdicts], rs \in SUBSET Roots :
             /\ Judge(a, v)
             /\ ran' = [ran EXCEPT ![a] = rs]
             /\ Right(v, rs, misshown') /\ misshown \subseteq misshown'
  <1>1. PICK roots \in [Roots -> RootAnswers], pathless \in Pathless, rs \in SUBSET Roots :
          /\ MayHaveRun(roots, pathless, rs)
          /\ ran' = [ran EXCEPT ![a] = rs]
          /\ \/ /\ Judge(a, [r \in Roots |-> Verdict(roots[r], pathless)])
                /\ UNCHANGED misshown
             \/ \E shapes \in [Roots -> Shapes] :
                  /\ Judge(a, [r \in Roots |-> VerdictOfShape(roots[r], shapes[r], pathless)])
                  /\ misshown' = misshown \cup {r \in Roots : Misshown(roots[r], shapes[r])}
    BY DEF Answer
  <1>2. CASE /\ Judge(a, [r \in Roots |-> Verdict(roots[r], pathless)])
             /\ UNCHANGED misshown
    <2> DEFINE v == [r \in Roots |-> Verdict(roots[r], pathless)]
    <2>1. v \in [Roots -> Verdicts]
      BY VerdictTyped
    <2>2. Right(v, rs, misshown')
      BY <1>1, JudgedRight DEF Right
    <2> QED BY <1>1, <1>2, <2>1, <2>2
  <1>3. ASSUME NEW shapes \in [Roots -> Shapes],
               Judge(a, [r \in Roots |-> VerdictOfShape(roots[r], shapes[r], pathless)]),
               misshown' = misshown \cup {r \in Roots : Misshown(roots[r], shapes[r])}
        PROVE  \E v \in [Roots -> Verdicts] :
                 Judge(a, v) /\ Right(v, rs, misshown') /\ misshown \subseteq misshown'
    <2> DEFINE v == [r \in Roots |-> VerdictOfShape(roots[r], shapes[r], pathless)]
    <2>1. v \in [Roots -> Verdicts]
      BY ShapeTyped
    <2>2. \A r \in Roots \ misshown' : ~Misshown(roots[r], shapes[r])
      BY <1>3
    <2>3. Right(v, rs, misshown')
      BY <1>1, <2>2, ShapeJudgedRight DEF Right
    <2> QED BY <1>3, <2>1, <2>3
  <1> QED BY <1>1, <1>2, <1>3

LEMMA ReportStep ==
    TypeOK /\ RequestsAllowed /\ RequestsTrue /\ ReportIsSafe /\ [Next]_vars
        => RequestsTrue' /\ ReportIsSafe'
  <1> SUFFICES ASSUME TypeOK, RequestsAllowed, RequestsTrue, ReportIsSafe, [Next]_vars
               PROVE  RequestsTrue' /\ ReportIsSafe'
    OBVIOUS
  <1>1. CASE UNCHANGED <<args, request, report, verdict, misshown, ran>>
    BY <1>1 DEF RequestsTrue, ReportIsSafe
  <1>2. CASE Start
    BY <1>2, RepliesAreSafe DEF Start, Refuse, Reply
  <1>3. CASE Decide
    BY <1>3, RepliesAreSafe DEF Decide, Refuse, Reply
  <1>4. CASE LookedUp
    BY <1>4, RepliesAreSafe DEF LookedUp, Refuse, Reply
  <1>5. ASSUME NEW a \in Aliases, Send(a) \/ SendUnchecked(a)
        PROVE  RequestsTrue' /\ ReportIsSafe'
    <2>1. /\ request[a] = "none" /\ request'[a] = "sent"
          /\ \A b \in Aliases : b # a => request'[b] = request[b]
          /\ UNCHANGED <<args, report, verdict, misshown, ran>>
      BY <1>5 DEF Send, SendUnchecked, RequestsAllowed, checks, TypeOK
    <2> QED BY <2>1 DEF RequestsTrue, ReportIsSafe
  <1>6. ASSUME NEW a \in Aliases, Answer(a) PROVE RequestsTrue' /\ ReportIsSafe'
    <2>1. PICK v \in [Roots -> Verdicts], rs \in SUBSET Roots :
            /\ Judge(a, v)
            /\ ran' = [ran EXCEPT ![a] = rs]
            /\ Right(v, rs, misshown') /\ misshown \subseteq misshown'
      BY <1>6, AnswerJudgedRight
    <2>2. /\ StoreOutcome(v) = "ok" => Roots \ rs \subseteq misshown'
          /\ StoreOutcome(v) = "rejected" => rs \subseteq misshown'
      BY <2>1, OutcomeRight
    <2>3. StoreOutcome(v) \in {"ok", "rejected", "partial", "unknown"}
      BY OutcomeTyped
    <2>4. ran'[a] = rs /\ verdict'[a] = v /\ report'[a] = StoreOutcome(v)
      BY <2>1 DEF TypeOK, Judge
    <2>0. request' = [request EXCEPT ![a] = "over"] /\ UNCHANGED checks
      BY <1>6 DEF Answer
    <2>5. request'[a] = "over" /\ UNCHANGED args
      BY <2>0 DEF checks, TypeOK
    <2>6. \A b \in Aliases : b # a =>
            /\ request'[b] = request[b] /\ report'[b] = report[b]
            /\ verdict'[b] = verdict[b] /\ ran'[b] = ran[b]
      BY <2>0, <2>1 DEF Judge, TypeOK
    <2>7. RequestsTrue'
      BY <2>5, <2>6 DEF RequestsTrue
    <2>8. ReportIsSafe'
      <3>1. ASSUME NEW b \in Aliases, b # a
            PROVE  /\ report'[b] \in {"refused", "preflight", "not_run", "dry_run_problems",
                                      "rejected", "throttled", "failed"} => ran'[b] \subseteq misshown'
                   /\ report'[b] = "ok" /\ ~args'.dryRun => Roots \ ran'[b] \subseteq misshown'
                   /\ \A r \in Roots \ misshown' :
                        /\ verdict'[b][r] = "applied" => r \in ran'[b]
                        /\ verdict'[b][r] = "rejected" => r \notin ran'[b]
        BY <2>1, <2>5, <2>6, <3>1 DEF ReportIsSafe
      <3>2. /\ report'[a] \in {"refused", "preflight", "not_run", "dry_run_problems",
                               "rejected", "throttled", "failed"} => ran'[a] \subseteq misshown'
            /\ report'[a] = "ok" => Roots \ ran'[a] \subseteq misshown'
        BY <2>2, <2>3, <2>4
      <3>3. \A r \in Roots \ misshown' :
              /\ verdict'[a][r] = "applied" => r \in ran'[a]
              /\ verdict'[a][r] = "rejected" => r \notin ran'[a]
        BY <2>1, <2>4 DEF Right
      <3> QED BY <3>1, <3>2, <3>3 DEF ReportIsSafe
    <2> QED BY <2>7, <2>8
  <1>7. ASSUME NEW a \in Aliases, TurnDown(a) \/ GiveUp(a) PROVE RequestsTrue' /\ ReportIsSafe'
    <2>1. /\ request[a] = "sent" /\ request'[a] \in {"over", "lost"}
          /\ report'[a] \in {"throttled", "failed", "unknown"}
          /\ request'[a] = "lost" => report'[a] = "unknown"
          /\ UNCHANGED <<args, verdict, misshown, ran>>
      BY <1>7 DEF TurnDown, GiveUp, TypeOK, checks
    <2>2. \A b \in Aliases : b # a => request'[b] = request[b] /\ report'[b] = report[b]
      BY <1>7 DEF TurnDown, GiveUp, TypeOK
    <2>3. ran[a] = {} /\ \A r \in Roots : verdict[a][r] = "none"
      BY <2>1 DEF RequestsTrue
    <2> QED BY <2>1, <2>2, <2>3 DEF RequestsTrue, ReportIsSafe
  <1>8. ASSUME NEW a \in Aliases, RunLate(a) PROVE RequestsTrue' /\ ReportIsSafe'
    <2>1. /\ report[a] = "unknown" /\ request'[a] = "over"
          /\ \A r \in Roots : verdict[a][r] = "none"
          /\ UNCHANGED <<args, report, verdict, misshown>>
      BY <1>8 DEF RunLate, RequestsTrue, TypeOK, checks
    <2>2. \A b \in Aliases : b # a => request'[b] = request[b] /\ ran'[b] = ran[b]
      BY <1>8 DEF RunLate, TypeOK
    <2> QED BY <2>1, <2>2 DEF RequestsTrue, ReportIsSafe
  <1>9. \/ UNCHANGED <<args, request, report, verdict, misshown, ran>>
        \/ Start \/ Decide \/ LookedUp
        \/ \E a \in Aliases : SendUnchecked(a) \/ Send(a) \/ Answer(a) \/ TurnDown(a)
                             \/ GiveUp(a) \/ RunLate(a)
    BY DEF Next, vars, checks, Finish, DeleteRecord, EditStores, Preflight, Lookup
  <1> QED BY <1>1, <1>2, <1>3, <1>4, <1>5, <1>6, <1>7, <1>8, <1>9

-----------------------------------------------------------------------------
\* Every reachable state satisfies the inductive invariant.
THEOREM Invariant == Spec => []IInv
  <1>1. IInv /\ [Next]_vars => IInv'
    BY TypeStep, OrderStep, OneStep, PlansStep, ShopsStep, ReportStep DEF IInv
  <1> QED BY <1>1, InitInv, PTL DEF Spec

\* The state has its types, and no more workers are busy than there are.
THEOREM TypeCorrect == Spec => []TypeOK
  <1>1. IInv => TypeOK
    BY DEF IInv
  <1> QED BY <1>1, Invariant, PTL

\* No store is changed before every store passed every check that the call is
\* subject to, whatever happens to stores and records meanwhile.
THEOREM CheckedFirstHolds == Spec => []CheckedFirst
  <1>1. IInv => CheckedFirst
    <2> SUFFICES ASSUME IInv, Changed PROVE CheckedFirst
      BY DEF CheckedFirst
    <2>1. \A a \in Aliases : ran[a] # {} => request[a] # "none"
      BY DEF IInv, RequestsTrue
    <2>2. Allowed
      BY <2>1 DEF Changed, IInv, RequestsAllowed
    <2>3. ~RunsAction => \A a, b \in Aliases : ran[a] # {} /\ ran[b] # {} => a = b
      BY <2>1 DEF IInv, OneUnchecked
    <2> QED BY <2>2, <2>3 DEF CheckedFirst, Allowed
  <1> QED BY <1>1, Invariant, PTL

\* Neither the outcome reported for a store nor the verdict on a mutation field
\* is ever contradicted by what Shopify ran, then or later.
THEOREM ReportIsSafeHolds == Spec => []ReportIsSafe
  <1>1. IInv => ReportIsSafe
    BY DEF IInv
  <1> QED BY <1>1, Invariant, PTL

\* As long as nobody edits the stores file, no shop is changed twice.
THEOREM OncePerShopHolds == Spec => []OncePerShop
  <1>1. IInv => OncePerShop
    <2> SUFFICES ASSUME IInv, ~edited, NEW a \in Aliases, NEW b \in Aliases, a # b,
                        ran[a] # {}, ran[b] # {}
                 PROVE  plan[a].shop # plan[b].shop
      BY DEF OncePerShop
    <2>0. request[a] # "none" /\ request[b] # "none" /\ Allowed
      BY DEF IInv, RequestsTrue, RequestsAllowed
    <2>1. RunsAction /\ Allowed /\ ~SameShop
      BY <2>0 DEF IInv, OneUnchecked, ShopsCompared
    <2>2. ASSUME NEW c \in Aliases PROVE plan[c].shop = stores[c] /\ stores[c] # None
      BY <2>1 DEF IInv, Allowed, PlansTrue, Valid, Unchecked
    <2> QED BY <2>1, <2>2 DEF SameShop
  <1> QED BY <1>1, Invariant, PTL

=============================================================================
