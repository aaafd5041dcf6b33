-------------------------- MODULE UpdatePricesProofs --------------------------
(***************************************************************************)
(* Proofs about UpdatePrices, for every set of SKUs, variants, products    *)
(* and values, every batch size, and every interleaving with the others    *)
(* who use the store.                                                      *)
(***************************************************************************)
EXTENDS UpdatePrices, FiniteSetTheorems, TLAPS

\* Nothing has run, may run or is being sent before every SKU is looked up, in a
\* dry run, or after a failed check.
FlowOK ==
    /\ ran # {} \/ lost # {} \/ batch # None \/ phase \in {"write", "verify"} =>
         ~args.dryRun /\ phase \in {"write", "verify", "done"}
    /\ batch # None => phase = "write"
    /\ phase \in {"write", "verify", "done"} => \A s \in Skus : lookup[s] # "todo"
    /\ candidates # NoLookup =>
         /\ phase \in {"lookup", "failed"} /\ candidates.sku \in Skus
         /\ lookup[candidates.sku] = "todo" /\ args.wanted[candidates.sku] # None

\* An item is there because the lookup of its SKU found its variant.
ItemsFound ==
    /\ \A s \in Skus :
         /\ lookup[s] = "skipped" => args.wanted[s] = None
         /\ lookup[s] = "resolved" =>
              args.wanted[s] # None /\ \E v \in Variants : outcome[<<s, v>>] # "none"
    /\ \A i \in Items : outcome[i] # "none" => lookup[i[1]] = "resolved"

\* One SKU stands for one variant, unless the caller allows more.
OnePerSku ==
    ~args.allowDuplicates =>
        \A i, j \in Items :
            outcome[i] # "none" /\ outcome[j] # "none" /\ i[1] = j[1] => i[2] = j[2]

\* What an item can have come to at each phase.
Reached(i) ==
    /\ args.dryRun \/ phase \in {"begin", "lookup", "failed"} => outcome[i] \in {"none", "pending"}
    /\ phase = "write" => outcome[i] \in {"none", "pending", "provisional", "rejected", "unknown"}
    /\ phase = "verify" => outcome[i] \in {"none", "provisional", "rejected", "unknown"}
    /\ phase = "done" /\ ~args.dryRun => outcome[i] \notin {"pending", "provisional"}

\* The result against the writes that ran.
WritesOK ==
    /\ \A i \in lost : outcome[i] = "unknown"
    /\ \A i \in ran :
         \/ outcome[i] \in {"provisional", "applied", "applied_unverified", "mismatch", "unknown"}
         \/ outcome[i] = "rejected" /\ i[2] \in omitted

\* The result against the values that the variants held.
ReadingsOK ==
    /\ phase \in {"begin", "lookup", "write"} => \A v \in Variants : reading[v] = None
    /\ \A v \in Variants :
         /\ phase = "verify" => value[v] \in held[v]
         /\ reading[v] # None => reading[v] \in held[v]
    /\ \A i \in Items : outcome[i] = "applied" => args.wanted[i[1]] \in held[i[2]]

ReachedOK == \A i \in Items : Reached(i)

IInv ==
    /\ TypeOK /\ FlowOK /\ ItemsFound /\ OnePerSku /\ ReachedOK /\ WritesOK /\ ReadingsOK

-----------------------------------------------------------------------------
LEMMA InitInv == Init => IInv
  <1> SUFFICES ASSUME Init PROVE IInv
    OBVIOUS
  <1>1. TypeOK
    BY DEF Init, TypeOK, Arguments, Phases, Lookups, Outcomes, Items
  <1>2. FlowOK
    BY DEF Init, FlowOK
  <1>3. ItemsFound /\ OnePerSku /\ ReachedOK
    BY DEF Init, ItemsFound, OnePerSku, ReachedOK, Reached
  <1>4. WritesOK /\ ReadingsOK
    BY DEF Init, WritesOK, ReadingsOK
  <1> QED BY <1>1, <1>2, <1>3, <1>4 DEF IInv

\* A set of which it is not so that it has several members has one at most.
LEMMA AtMostOne ==
    ASSUME NEW S, IsFiniteSet(S), ~(Cardinality(S) > 1), NEW a \in S, NEW b \in S
    PROVE  a = b
  <1> SUFFICES ASSUME a # b PROVE FALSE
    OBVIOUS
  <1>1. IsFiniteSet({a}) /\ Cardinality({a}) = 1
    BY FS_Singleton
  <1>2. Cardinality({a} \cup {b}) = 2
    BY <1>1, FS_AddElement
  <1>3. {a} \cup {b} \subseteq S
    OBVIOUS
  <1>4. Cardinality({a} \cup {b}) <= Cardinality(S)
    BY <1>3, FS_Subset
  <1>5. Cardinality(S) \in Nat
    BY FS_CardinalityType
  <1> QED BY <1>2, <1>4, <1>5

\* What the call has made of the store stays as it is.
LEMMA ResultStays ==
    ASSUME IInv, UNCHANGED <<args, phase, lookup, candidates, batch, unread, reading, outcome>>
    PROVE  ItemsFound' /\ OnePerSku' /\ ReachedOK'
  <1>1. ItemsFound' /\ OnePerSku'
    BY DEF IInv, ItemsFound, OnePerSku
  <1>2. ReachedOK'
    BY DEF IInv, ReachedOK, Reached
  <1> QED BY <1>1, <1>2

-----------------------------------------------------------------------------
(* The store, and those who change it *)

LEMMA BecomesOK ==
    ASSUME IInv, NEW new \in [Variants -> Values], Becomes(new),
           UNCHANGED <<args, phase, reading, outcome>>
    PROVE  /\ value' \in [Variants -> Values] /\ held' \in [Variants -> SUBSET Values]
           /\ ReadingsOK'
  <1>1. /\ value' = new /\ phase' = phase
        /\ held' = IF phase = "verify" THEN [v \in Variants |-> held[v] \cup {new[v]}] ELSE held
    BY DEF Becomes
  <1>2. value' \in [Variants -> Values] /\ held' \in [Variants -> SUBSET Values]
    BY <1>1 DEF IInv, TypeOK
  <1>3. \A v \in Variants : held[v] \subseteq held'[v]
    BY <1>1 DEF IInv, TypeOK
  <1>4. ReadingsOK'
    <2>1. phase' \in {"begin", "lookup", "write"} => \A v \in Variants : reading'[v] = None
      BY <1>1 DEF IInv, ReadingsOK
    <2>2. ASSUME NEW v \in Variants
          PROVE  /\ phase' = "verify" => value'[v] \in held'[v]
                 /\ reading'[v] # None => reading'[v] \in held'[v]
      BY <1>1, <1>3 DEF IInv, ReadingsOK
    <2>3. ASSUME NEW i \in Items, outcome'[i] = "applied"
          PROVE  args'.wanted[i[1]] \in held'[i[2]]
      <3>1. i[2] \in Variants
        BY DEF Items
      <3> QED BY <2>3, <3>1, <1>3 DEF IInv, ReadingsOK
    <2> QED BY <2>1, <2>2, <2>3 DEF ReadingsOK
  <1> QED BY <1>2, <1>4

LEMMA OthersStep ==
    ASSUME IInv, NEW v \in Variants, Reprice(v) \/ Rename(v)
    PROVE  IInv'
  <1>1. UNCHANGED <<args, phase, lookup, candidates, batch, unread, reading, outcome,
                    product, lost, ran, omitted>>
    BY DEF Reprice, Rename, call
  <1>2. FlowOK' /\ WritesOK'
    BY <1>1 DEF IInv, FlowOK, WritesOK
  <1>3. /\ sku' \in [Variants -> Skus \cup {None}] /\ value' \in [Variants -> Values]
        /\ held' \in [Variants -> SUBSET Values] /\ ReadingsOK'
    <2>1. CASE Rename(v)
      <3>1. sku' \in [Variants -> Skus \cup {None}]
        BY <2>1 DEF Rename, IInv, TypeOK
      <3>2. UNCHANGED <<value, held>>
        BY <2>1 DEF Rename
      <3> QED BY <1>1, <3>1, <3>2 DEF IInv, TypeOK, ReadingsOK
    <2>2. CASE Reprice(v)
      <3>1. PICK x \in Values : Becomes([value EXCEPT ![v] = x])
        BY <2>2 DEF Reprice
      <3>2. [value EXCEPT ![v] = x] \in [Variants -> Values]
        BY DEF IInv, TypeOK
      <3>3. sku' = sku
        BY <2>2 DEF Reprice
      <3> QED BY <1>1, <3>1, <3>2, <3>3, BecomesOK DEF IInv, TypeOK
    <2> QED BY <2>1, <2>2
  <1>4. TypeOK'
    BY <1>1, <1>3 DEF IInv, TypeOK, Reported
  <1> QED BY <1>1, <1>2, <1>3, <1>4, ResultStays DEF IInv

LEMMA RunLateStep ==
    ASSUME IInv, NEW p \in Products, RunLate(p)
    PROVE  IInv'
  <1>1. /\ UNCHANGED <<args, phase, lookup, candidates, batch, unread, reading, outcome,
                       product, sku, omitted>>
        /\ lost' \subseteq lost /\ lost # {}
    BY DEF RunLate, call
  <1>2. PICK accepted \in SUBSET lost : Run(accepted)
    BY DEF RunLate
  <1>3. PICK new \in [Variants -> Values] : Becomes(new)
    BY <1>2 DEF Run
  <1>4. ran' = ran \cup accepted /\ ran \subseteq ran'
    BY <1>2 DEF Run
  <1>5. /\ value' \in [Variants -> Values] /\ held' \in [Variants -> SUBSET Values]
        /\ ReadingsOK'
    BY <1>1, <1>3, BecomesOK
  <1>6. TypeOK'
    BY <1>1, <1>4, <1>5 DEF IInv, TypeOK, Reported
  <1>7. FlowOK'
    BY <1>1 DEF IInv, FlowOK
  <1>8. WritesOK'
    <2>1. \A i \in ran' :
            \/ outcome[i] \in {"provisional", "applied", "applied_unverified", "mismatch", "unknown"}
            \/ outcome[i] = "rejected" /\ i[2] \in omitted
      BY <1>2, <1>4 DEF IInv, WritesOK
    <2> QED BY <1>1, <1>4, <2>1 DEF IInv, WritesOK
  <1> QED BY <1>1, <1>5, <1>6, <1>7, <1>8, ResultStays DEF IInv

-----------------------------------------------------------------------------
(* The lookups *)

LEMMA CheckStep ==
    ASSUME IInv, CheckAccess \/ Abort
    PROVE  IInv'
  <1>1. /\ UNCHANGED <<args, lookup, candidates, batch, unread, reading, outcome, store>>
        /\ phase \in {"begin", "lookup"} /\ phase' \in {"lookup", "failed"}
        /\ candidates # NoLookup => phase = "lookup" /\ phase' = "failed"
    BY DEF CheckAccess, Abort, IInv, FlowOK
  <1> USE <1>1 DEF IInv, store
  <1>2. TypeOK'
    <2>1. \A i \in Items : outcome[i] # "provisional"
      BY DEF ReachedOK, Reached
    <2> QED BY <2>1 DEF TypeOK, Phases, Reported
  <1>3. FlowOK'
    BY DEF FlowOK
  <1>4. ItemsFound' /\ OnePerSku'
    BY DEF ItemsFound, OnePerSku
  <1>5. ReachedOK'
    BY DEF ReachedOK, Reached
  <1>6. WritesOK' /\ ReadingsOK'
    BY DEF WritesOK, ReadingsOK
  <1> QED BY <1>2, <1>3, <1>4, <1>5, <1>6

LEMMA SkipStep ==
    ASSUME IInv, NEW s \in Skus, Skip(s)
    PROVE  IInv'
  <1>1. /\ UNCHANGED <<args, phase, candidates, batch, unread, reading, outcome, store>>
        /\ lookup' = [lookup EXCEPT ![s] = "skipped"] /\ lookup[s] = "todo"
        /\ args.wanted[s] = None /\ candidates = NoLookup /\ phase = "lookup"
    BY DEF Skip
  <1> USE <1>1 DEF IInv, store
  <1>2. TypeOK'
    BY DEF TypeOK, Lookups, Reported
  <1>3. FlowOK'
    BY DEF FlowOK
  <1>4. ItemsFound' /\ OnePerSku'
    <2>1. \A u \in Skus : lookup'[u] = IF u = s THEN "skipped" ELSE lookup[u]
      BY DEF TypeOK
    <2>2. \A i \in Items : i[1] \in Skus
      BY DEF Items
    <2> QED BY <2>1, <2>2 DEF ItemsFound, OnePerSku
  <1>5. ReachedOK'
    BY DEF ReachedOK, Reached
  <1>6. WritesOK' /\ ReadingsOK'
    BY DEF WritesOK, ReadingsOK
  <1> QED BY <1>2, <1>3, <1>4, <1>5, <1>6

LEMMA FindIdsStep ==
    ASSUME IInv, NEW s \in Skus, FindIds(s)
    PROVE  IInv'
  <1>1. /\ UNCHANGED <<args, phase, lookup, batch, unread, reading, outcome, store>>
        /\ candidates' = [sku |-> s, ids |-> {v \in Variants : sku[v] = s}]
        /\ lookup[s] = "todo" /\ args.wanted[s] # None /\ phase = "lookup"
    BY DEF FindIds
  <1> USE <1>1 DEF IInv, store
  <1>2. candidates' \in [sku : Skus, ids : SUBSET Variants] /\ candidates'.sku = s
    OBVIOUS
  <1>3. TypeOK'
    BY <1>2 DEF TypeOK, Reported
  <1>4. FlowOK'
    BY <1>2 DEF FlowOK
  <1>5. ItemsFound' /\ OnePerSku'
    BY DEF ItemsFound, OnePerSku
  <1>6. ReachedOK'
    BY DEF ReachedOK, Reached
  <1>7. WritesOK' /\ ReadingsOK'
    BY DEF WritesOK, ReadingsOK
  <1> QED BY <1>3, <1>4, <1>5, <1>6, <1>7

\* The variants found become items; there are several only if the caller allows it.
LEMMA ReadVariantsStep ==
    ASSUME IInv, ReadVariants
    PROVE  IInv'
  <1> DEFINE s == candidates.sku
             found == Matches
             m == Match(found)
  <1>1. /\ UNCHANGED <<args, phase, batch, unread, reading, store>>
        /\ lookup' = [lookup EXCEPT ![s] = m] /\ candidates' = NoLookup
        /\ outcome' = [i \in Items |-> IF i[1] = s /\ i[2] \in found /\ m = "resolved"
                                       THEN "pending" ELSE outcome[i]]
        /\ phase = "lookup" /\ candidates # NoLookup
    BY DEF ReadVariants
  <1>2. s \in Skus /\ lookup[s] = "todo" /\ args.wanted[s] # None
    BY <1>1 DEF IInv, FlowOK
  <1>3. found \subseteq Variants
    BY <1>1, <1>2 DEF Matches, IInv, TypeOK
  <1>4. /\ m \in {"not_found", "ambiguous", "resolved"}
        /\ m = "resolved" => found # {} /\ (Cardinality(found) > 1 => args.allowDuplicates)
    BY DEF Match
  <1> HIDE DEF s, found, m
  <1> USE DEF IInv
  <1>5. \A i \in Items : outcome'[i] = IF i[1] = s /\ i[2] \in found /\ m = "resolved"
                                       THEN "pending" ELSE outcome[i]
    BY <1>1
  <1>6. \A u \in Skus : lookup'[u] = IF u = s THEN m ELSE lookup[u]
    BY <1>1 DEF TypeOK
  <1>7. \A i \in Items : i[1] = s => outcome[i] = "none"
    BY <1>2 DEF ItemsFound
  <1>8. TypeOK'
    <2>1. outcome' \in [Items -> Outcomes]
      BY <1>1 DEF TypeOK, Outcomes
    <2>2. lookup' \in [Skus -> Lookups]
      BY <1>1, <1>4 DEF TypeOK, Lookups
    <2> QED BY <1>1, <2>1, <2>2 DEF TypeOK, store
  <1>9. FlowOK'
    BY <1>1 DEF FlowOK, store
  <1>10. ItemsFound'
    <2>1. ASSUME NEW u \in Skus
          PROVE  /\ lookup'[u] = "skipped" => args.wanted[u] = None
                 /\ lookup'[u] = "resolved" =>
                      args.wanted[u] # None /\ \E v \in Variants : outcome'[<<u, v>>] # "none"
      <3>1. CASE u # s
        <4>1. lookup'[u] = lookup[u] /\ \A v \in Variants : outcome'[<<u, v>>] = outcome[<<u, v>>]
          BY <1>5, <1>6, <3>1 DEF Items
        <4> QED BY <4>1 DEF ItemsFound
      <3>2. CASE u = s /\ m = "resolved"
        <4>1. PICK v \in found : TRUE
          BY <1>4, <3>2
        <4>2. outcome'[<<u, v>>] = "pending"
          BY <1>3, <1>5, <3>2, <4>1 DEF Items
        <4> QED BY <1>2, <1>3, <1>6, <3>2, <4>1, <4>2
      <3>3. CASE u = s /\ m # "resolved"
        BY <1>4, <1>6, <3>3
      <3> QED BY <3>1, <3>2, <3>3
    <2>2. ASSUME NEW i \in Items, outcome'[i] # "none"
          PROVE  lookup'[i[1]] = "resolved"
      <3>1. i[1] \in Skus
        BY DEF Items
      <3> QED BY <1>5, <1>6, <1>7, <2>2, <3>1 DEF ItemsFound
    <2> QED BY <1>1, <2>1, <2>2 DEF ItemsFound
  <1>11. OnePerSku'
    <2>1. SUFFICES ASSUME ~args.allowDuplicates, NEW i \in Items, NEW j \in Items,
                          outcome'[i] # "none", outcome'[j] # "none", i[1] = j[1]
                   PROVE  i[2] = j[2]
      BY <1>1 DEF OnePerSku
    <2>2. CASE i[1] # s
      BY <1>5, <2>1, <2>2 DEF OnePerSku
    <2>3. CASE i[1] = s
      <3>1. i[2] \in found /\ j[2] \in found /\ m = "resolved"
        BY <1>5, <1>7, <2>1, <2>3
      <3>2. IsFiniteSet(found)
        BY <1>3, FS_Subset, UpdatePricesAssumption
      <3>3. ~(Cardinality(found) > 1)
        BY <1>4, <2>1, <3>1
      <3> QED BY <3>1, <3>2, <3>3, AtMostOne
    <2> QED BY <2>2, <2>3
  <1>12. ReachedOK'
    BY <1>1, <1>5 DEF ReachedOK, Reached
  <1>13. WritesOK' /\ ReadingsOK'
    <2>1. ran = {} /\ lost = {}
      BY <1>1 DEF FlowOK
    <2>2. \A i \in Items : outcome'[i] \in {"none", "pending"}
      BY <1>1, <1>5 DEF ReachedOK, Reached
    <2> QED BY <1>1, <2>1, <2>2 DEF WritesOK, ReadingsOK, store
  <1> QED BY <1>8, <1>9, <1>10, <1>11, <1>12, <1>13

LEMMA LookedUpStep ==
    ASSUME IInv, LookedUp
    PROVE  IInv'
  <1>1. /\ UNCHANGED <<args, lookup, candidates, batch, unread, reading, outcome, store>>
        /\ phase = "lookup" /\ phase' = (IF args.dryRun THEN "done" ELSE "write")
        /\ candidates = NoLookup /\ \A s \in Skus : lookup[s] # "todo"
    BY DEF LookedUp
  <1> USE <1>1 DEF IInv, store
  <1>2. TypeOK'
    BY DEF TypeOK, Phases, Reported
  <1>3. FlowOK'
    BY DEF FlowOK
  <1>4. ItemsFound' /\ OnePerSku'
    BY DEF ItemsFound, OnePerSku
  <1>5. ReachedOK'
    BY DEF ReachedOK, Reached
  <1>6. WritesOK' /\ ReadingsOK'
    BY DEF WritesOK, ReadingsOK
  <1> QED BY <1>2, <1>3, <1>4, <1>5, <1>6

-----------------------------------------------------------------------------
(* The writes *)

LEMMA SendStep ==
    ASSUME IInv, NEW p \in Products, Send(p)
    PROVE  IInv'
  <1>1. /\ UNCHANGED <<args, phase, lookup, candidates, unread, reading, outcome, store>>
        /\ phase = "write" /\ batch' = p
    BY DEF Send
  <1> USE <1>1 DEF IInv, store
  <1>2. TypeOK'
    BY DEF TypeOK, Reported
  <1>3. FlowOK'
    BY DEF FlowOK
  <1>4. ItemsFound' /\ OnePerSku'
    BY DEF ItemsFound, OnePerSku
  <1>5. ReachedOK'
    BY DEF ReachedOK, Reached
  <1>6. WritesOK' /\ ReadingsOK'
    BY DEF WritesOK, ReadingsOK
  <1> QED BY <1>2, <1>3, <1>4, <1>5, <1>6

\* A step that gives outcomes to some items, and to no other.
LEMMA OutcomesOK ==
    ASSUME IInv, NEW some \in SUBSET Items,
           \A i \in some : outcome[i] # "none" /\ outcome'[i] # "none",
           \A i \in Items \ some : outcome'[i] = outcome[i],
           UNCHANGED <<args, lookup>>
    PROVE  ItemsFound' /\ OnePerSku'
  <1> USE DEF IInv
  <1>1. \A i \in Items : outcome'[i] # "none" <=> outcome[i] # "none"
    OBVIOUS
  <1>2. \A s \in Skus, v \in Variants : <<s, v>> \in Items
    BY DEF Items
  <1>3. ItemsFound'
    BY <1>1, <1>2 DEF ItemsFound
  <1>4. OnePerSku'
    BY <1>1 DEF OnePerSku
  <1> QED BY <1>3, <1>4

LEMMA AnswerStep ==
    ASSUME IInv, NEW p \in Products, Answer(p)
    PROVE  IInv'
  <1>1. /\ UNCHANGED <<args, phase, lookup, candidates, unread, reading, product, sku, lost>>
        /\ phase = "write" /\ batch = p /\ batch' = None
    BY DEF Answer
  <1>2. PICK accepted \in SUBSET Pending(p) :
          /\ Run(accepted)
          /\ \E returned \in SUBSET {i[2] : i \in Pending(p)} :
               /\ omitted' = omitted \cup ({i[2] : i \in accepted} \ returned)
               /\ outcome' = [i \in Items |->
                                IF i \in Pending(p) THEN Accepted(i, returned) ELSE outcome[i]]
    BY DEF Answer
  <1>3. PICK returned \in SUBSET {i[2] : i \in Pending(p)} :
          /\ omitted' = omitted \cup ({i[2] : i \in accepted} \ returned)
          /\ outcome' = [i \in Items |->
                           IF i \in Pending(p) THEN Accepted(i, returned) ELSE outcome[i]]
    BY <1>2
  <1> DEFINE sent == Pending(p)
  <1>4. sent \subseteq Items /\ \A i \in sent : outcome[i] = "pending"
    BY DEF Pending
  <1>5. accepted \subseteq sent /\ ran' = ran \cup accepted /\ ran \subseteq ran'
    BY <1>2 DEF Run
  <1>6. \A i \in Items : outcome'[i] = IF i \in sent
                                       THEN IF i[2] \in returned THEN "provisional" ELSE "rejected"
                                       ELSE outcome[i]
    BY <1>3 DEF Accepted
  <1> HIDE DEF sent
  <1> USE DEF IInv
  <1>7. PICK new \in [Variants -> Values] : Becomes(new)
    BY <1>2 DEF Run
  <1>8. ItemsFound' /\ OnePerSku'
    BY <1>1, <1>4, <1>6, OutcomesOK
  <1>9. ReachedOK'
    BY <1>1, <1>4, <1>6 DEF ReachedOK, Reached, FlowOK
  <1>10. /\ value' \in [Variants -> Values] /\ held' \in [Variants -> SUBSET Values]
         /\ ReadingsOK'
    <2>1. held' = held /\ value' = new
      BY <1>1, <1>7 DEF Becomes
    <2>2. \A i \in Items : outcome'[i] # "applied"
      BY <1>1, <1>9 DEF ReachedOK, Reached
    <2> QED BY <1>1, <2>1, <2>2 DEF ReadingsOK, TypeOK
  <1>11. TypeOK'
    <2>1. outcome' \in [Items -> Outcomes]
      BY <1>3 DEF TypeOK, Outcomes, Accepted
    <2>2. omitted' \subseteq Variants /\ ran' \subseteq Items
      BY <1>3, <1>4, <1>5 DEF TypeOK, Items
    <2> QED BY <1>1, <1>10, <2>1, <2>2 DEF TypeOK, Reported
  <1>12. FlowOK'
    BY <1>1 DEF FlowOK
  <1>13. WritesOK'
    <2>1. \A i \in lost : outcome'[i] = "unknown"
      BY <1>4, <1>6 DEF WritesOK, TypeOK
    <2>2. ASSUME NEW i \in ran'
          PROVE  \/ outcome'[i] \in {"provisional", "applied", "applied_unverified", "mismatch", "unknown"}
                 \/ outcome'[i] = "rejected" /\ i[2] \in omitted'
      <3>1. CASE i \in accepted
        BY <1>3, <1>4, <1>5, <1>6, <3>1
      <3>2. CASE i \in ran
        BY <1>3, <1>4, <1>6, <3>2 DEF WritesOK, TypeOK
      <3> QED BY <1>5, <3>1, <3>2
    <2> QED BY <1>1, <2>1, <2>2 DEF WritesOK
  <1> QED BY <1>8, <1>9, <1>10, <1>11, <1>12, <1>13

LEMMA GiveUpStep ==
    ASSUME IInv, NEW p \in Products, GiveUp(p)
    PROVE  IInv'
  <1> DEFINE sent == Pending(p)
  <1>1. /\ UNCHANGED <<args, phase, lookup, candidates, unread, reading,
                       product, sku, value, ran, omitted, held>>
        /\ phase = "write" /\ batch' = None /\ lost' = lost \cup sent /\ batch = p
        /\ outcome' = [i \in Items |-> IF i \in sent THEN "unknown" ELSE outcome[i]]
    BY DEF GiveUp, LostIsUnknown
  <1>2. sent \subseteq Items /\ \A i \in sent : outcome[i] = "pending"
    BY DEF Pending
  <1> HIDE DEF sent
  <1> USE DEF IInv
  <1>3. \A i \in Items : outcome'[i] = IF i \in sent THEN "unknown" ELSE outcome[i]
    BY <1>1
  <1>4. ItemsFound' /\ OnePerSku'
    BY <1>1, <1>2, <1>3, OutcomesOK
  <1>5. ReachedOK'
    BY <1>1, <1>2, <1>3 DEF ReachedOK, Reached, FlowOK
  <1>6. TypeOK'
    <2>1. outcome' \in [Items -> Outcomes]
      BY <1>1 DEF TypeOK, Outcomes
    <2> QED BY <1>1, <1>2, <2>1 DEF TypeOK, Reported
  <1>7. FlowOK'
    <2>1. ~args.dryRun
      BY <1>1 DEF FlowOK
    <2> QED BY <1>1, <2>1 DEF FlowOK
  <1>8. WritesOK'
    BY <1>1, <1>2, <1>3 DEF WritesOK, TypeOK
  <1>9. ReadingsOK'
    BY <1>1, <1>2, <1>3 DEF ReadingsOK
  <1> QED BY <1>4, <1>5, <1>6, <1>7, <1>8, <1>9

-----------------------------------------------------------------------------
(* The read-back and the result *)

LEMMA VerifyStep ==
    ASSUME IInv, Verify
    PROVE  IInv'
  <1>1. /\ UNCHANGED <<args, lookup, candidates, batch, reading, outcome,
                       product, sku, value, lost, ran, omitted>>
        /\ phase = "write" /\ phase' = "verify" /\ batch = None
        /\ \A i \in Items : outcome[i] # "pending"
        /\ unread' = {i[2] : i \in Provisional}
        /\ held' = [v \in Variants |-> {value[v]}]
    BY DEF Verify
  <1> USE DEF IInv
  <1>2. TypeOK'
    <2>1. unread' \subseteq Variants
      BY <1>1 DEF Provisional, Items
    <2>2. held' \in [Variants -> SUBSET Values]
      BY <1>1 DEF TypeOK
    <2> QED BY <1>1, <2>1, <2>2 DEF TypeOK, Phases, Reported
  <1>3. FlowOK'
    BY <1>1 DEF FlowOK
  <1>4. ItemsFound' /\ OnePerSku'
    BY <1>1 DEF ItemsFound, OnePerSku
  <1>5. ReachedOK'
    BY <1>1 DEF ReachedOK, Reached
  <1>6. WritesOK'
    BY <1>1 DEF WritesOK
  <1>7. ReadingsOK'
    <2>1. \A v \in Variants : reading[v] = None /\ value[v] \in held'[v]
      BY <1>1 DEF ReadingsOK
    <2>2. \A i \in Items : outcome[i] # "applied"
      BY <1>1 DEF ReachedOK, Reached
    <2> QED BY <1>1, <2>1, <2>2 DEF ReadingsOK
  <1> QED BY <1>2, <1>3, <1>4, <1>5, <1>6, <1>7

LEMMA ReadBackStep ==
    ASSUME IInv, ReadBack
    PROVE  IInv'
  <1>1. /\ UNCHANGED <<args, phase, lookup, candidates, batch, outcome, store>>
        /\ phase = "verify"
    BY DEF ReadBack
  <1>2. PICK vs \in SUBSET unread :
          /\ unread' = unread \ vs
          /\ reading' = [v \in Variants |-> IF v \notin vs THEN reading[v]
                                            ELSE IF sku[v] = None THEN None ELSE value[v]]
    BY DEF ReadBack
  <1> USE <1>1 DEF IInv, store
  <1>3. TypeOK'
    <2>1. reading' \in [Variants -> Values \cup {None}]
      BY <1>2 DEF TypeOK
    <2> QED BY <1>2, <2>1 DEF TypeOK, Reported
  <1>4. FlowOK'
    BY DEF FlowOK
  <1>5. ItemsFound' /\ OnePerSku'
    BY DEF ItemsFound, OnePerSku
  <1>6. ReachedOK'
    BY DEF ReachedOK, Reached
  <1>7. WritesOK'
    BY DEF WritesOK
  <1>8. ReadingsOK'
    <2>1. \A v \in Variants : reading'[v] # None => reading'[v] \in held[v]
      BY <1>2 DEF ReadingsOK
    <2> QED BY <2>1 DEF ReadingsOK
  <1> QED BY <1>3, <1>4, <1>5, <1>6, <1>7, <1>8

\* The last step of the call, whether the read-back worked or not.
LEMMA ResultStep ==
    ASSUME IInv, ReadFails \/ Report
    PROVE  IInv'
  <1>1. /\ UNCHANGED <<args, lookup, candidates, batch, unread, reading, store>>
        /\ phase = "verify" /\ phase' = "done"
    BY DEF ReadFails, Report
  <1>2. /\ outcome' \in [Items -> Outcomes]
        /\ \A i \in Items : outcome[i] # "provisional" => outcome'[i] = outcome[i]
        /\ \A i \in Items : outcome[i] = "provisional" =>
             \/ outcome'[i] \in {"applied_unverified", "mismatch"}
             \/ outcome'[i] = "applied" /\ reading[i[2]] = args.wanted[i[1]]
    <2>1. CASE ReadFails
      BY <2>1 DEF ReadFails, Provisional, IInv, TypeOK, Outcomes
    <2>2. CASE Report
      BY <2>2 DEF Report, Provisional, Verified, IInv, TypeOK, Outcomes
    <2> QED BY <2>1, <2>2
  <1> USE <1>1 DEF IInv, store
  <1>3. ~args.dryRun
    BY DEF FlowOK
  <1>4. TypeOK'
    BY <1>2 DEF TypeOK, Phases, Reported
  <1>5. FlowOK'
    BY <1>3 DEF FlowOK
  <1>6. ItemsFound' /\ OnePerSku'
    <2> DEFINE some == {i \in Items : outcome[i] = "provisional"}
    <2>1. \A i \in some : outcome[i] # "none" /\ outcome'[i] # "none"
      BY <1>2
    <2>2. \A i \in Items \ some : outcome'[i] = outcome[i]
      BY <1>2
    <2> HIDE DEF some
    <2>3. some \in SUBSET Items
      BY DEF some
    <2> QED BY <2>1, <2>2, <2>3, OutcomesOK
  <1>7. ReachedOK'
    BY <1>2, <1>3 DEF ReachedOK, Reached
  <1>8. WritesOK'
    BY <1>2 DEF WritesOK, TypeOK
  <1>9. ReadingsOK'
    <2>1. ASSUME NEW i \in Items, outcome'[i] = "applied"
          PROVE  args.wanted[i[1]] \in held[i[2]]
      <3>1. i[1] \in Skus /\ i[2] \in Variants
        BY DEF Items
      <3>2. CASE outcome[i] = "provisional"
        <4>1. args.wanted[i[1]] # None
          BY <3>1, <3>2 DEF ItemsFound
        <4> QED BY <1>2, <2>1, <3>1, <3>2, <4>1 DEF ReadingsOK
      <3>3. CASE outcome[i] # "provisional"
        BY <1>2, <2>1, <3>3 DEF ReadingsOK
      <3> QED BY <3>2, <3>3
    <2> QED BY <2>1 DEF ReadingsOK
  <1> QED BY <1>4, <1>5, <1>6, <1>7, <1>8, <1>9

-----------------------------------------------------------------------------
LEMMA InvStep == IInv /\ [Next]_vars => IInv'
  <1> SUFFICES ASSUME IInv, [Next]_vars PROVE IInv'
    OBVIOUS
  <1>1. CASE UNCHANGED vars
    <2>1. TypeOK' /\ FlowOK'
      BY <1>1 DEF vars, call, store, IInv, TypeOK, FlowOK, Reported
    <2>2. WritesOK' /\ ReadingsOK'
      BY <1>1 DEF vars, call, store, IInv, WritesOK, ReadingsOK
    <2> QED BY <1>1, <2>1, <2>2, ResultStays DEF vars, call, IInv
  <1>2. CASE CheckAccess \/ Abort \/ ReadVariants \/ LookedUp
    BY <1>2, CheckStep, ReadVariantsStep, LookedUpStep
  <1>3. CASE Verify \/ ReadBack \/ ReadFails \/ Report
    BY <1>3, VerifyStep, ReadBackStep, ResultStep
  <1>4. ASSUME NEW s \in Skus, Skip(s) \/ FindIds(s)
        PROVE  IInv'
    BY <1>4, SkipStep, FindIdsStep
  <1>5. ASSUME NEW p \in Products, Send(p) \/ Answer(p) \/ GiveUp(p) \/ RunLate(p)
        PROVE  IInv'
    BY <1>5, SendStep, AnswerStep, GiveUpStep, RunLateStep
  <1> QED BY <1>1, <1>2, <1>3, <1>4, <1>5, OthersStep DEF Next

LEMMA InductiveInvariant == Spec => []IInv
  BY InitInv, InvStep, PTL DEF Spec

-----------------------------------------------------------------------------
(* What is called a mismatch was not there *)

\* A variant is read back before it is reported on: it has a value or is gone.
ReadOrGone(i) == i[2] \in unread \/ reading[i[2]] # None \/ sku[i[2]] = None

\* The variant had another value since the writes were over, or is gone.
SeenOtherwise(i) == sku[i[2]] = None \/ ~(held[i[2]] \subseteq {args.wanted[i[1]]})

SeenOK ==
    \A i \in Items :
        /\ phase = "verify" /\ outcome[i] = "provisional" => ReadOrGone(i)
        /\ outcome[i] = "mismatch" => SeenOtherwise(i)

\* No mismatch is reported before the call is over.
LEMMA NoMismatchYet ==
    ASSUME IInv, phase # "done", NEW i \in Items
    PROVE  outcome[i] # "mismatch"
  BY DEF IInv, ReachedOK, Reached, TypeOK, Phases

\* Others, and writes that run late, add values or take variants away.
LEMMA SeenStays ==
    ASSUME SeenOK, UNCHANGED <<args, outcome, phase, unread, reading>>,
           \A v \in Variants : sku[v] = None => sku'[v] = None,
           \A v \in Variants : held[v] \subseteq held'[v]
    PROVE  SeenOK'
  <1> SUFFICES ASSUME NEW i \in Items
               PROVE  /\ phase = "verify" /\ outcome[i] = "provisional" => ReadOrGone(i)'
                      /\ outcome[i] = "mismatch" => SeenOtherwise(i)'
    BY DEF SeenOK
  <1>1. i[2] \in Variants
    BY DEF Items
  <1> QED BY <1>1 DEF SeenOK, ReadOrGone, SeenOtherwise

LEMMA BecomesGrows ==
    ASSUME IInv, NEW new \in [Variants -> Values], Becomes(new)
    PROVE  \A v \in Variants : held[v] \subseteq held'[v]
  BY DEF IInv, TypeOK, Becomes

LEMMA SeenByStore ==
    ASSUME IInv, SeenOK, NEW v \in Variants, NEW p \in Products,
           Reprice(v) \/ Rename(v) \/ RunLate(p)
    PROVE  SeenOK'
  <1>1. CASE Reprice(v)
    <2>1. PICK x \in Values : Becomes([value EXCEPT ![v] = x])
      BY <1>1 DEF Reprice
    <2>2. [value EXCEPT ![v] = x] \in [Variants -> Values]
      BY DEF IInv, TypeOK
    <2>3. UNCHANGED <<args, outcome, phase, unread, reading, sku>>
      BY <1>1 DEF Reprice, call
    <2> QED BY <2>1, <2>2, <2>3, BecomesGrows, SeenStays
  <1>2. CASE Rename(v)
    <2>1. UNCHANGED <<args, outcome, phase, unread, reading, held>> /\ sku[v] # None
      BY <1>2 DEF Rename, call
    <2>2. \A u \in Variants : sku[u] = None => sku'[u] = None
      BY <1>2, <2>1 DEF Rename, IInv, TypeOK
    <2> QED BY <2>1, <2>2, SeenStays
  <1>3. CASE RunLate(p)
    <2>1. PICK accepted \in SUBSET lost : Run(accepted)
      BY <1>3 DEF RunLate
    <2>2. PICK new \in [Variants -> Values] : Becomes(new)
      BY <2>1 DEF Run
    <2>3. UNCHANGED <<args, outcome, phase, unread, reading, sku>>
      BY <1>3 DEF RunLate, call
    <2> QED BY <2>2, <2>3, BecomesGrows, SeenStays
  <1> QED BY <1>1, <1>2, <1>3

LEMMA SeenByReport ==
    ASSUME IInv, SeenOK, Report
    PROVE  SeenOK'
  <1>1. /\ UNCHANGED <<args, sku, held>> /\ unread = {} /\ phase = "verify" /\ phase' = "done"
        /\ outcome' = [i \in Items |-> IF i \in Provisional THEN Verified(i) ELSE outcome[i]]
    BY DEF Report, store
  <1>2. ASSUME NEW i \in Items, outcome'[i] = "mismatch"
        PROVE  SeenOtherwise(i)
    <2>1. i[2] \in Variants
      BY DEF Items
    <2>2. CASE i \in Provisional
      <3>1. reading[i[2]] # args.wanted[i[1]]
        BY <1>1, <1>2, <2>2 DEF Verified
      <3>2. reading[i[2]] # None \/ sku[i[2]] = None
        BY <1>1, <2>2 DEF SeenOK, ReadOrGone, Provisional
      <3> QED BY <2>1, <3>1, <3>2 DEF SeenOtherwise, IInv, ReadingsOK
    <2>3. CASE i \notin Provisional
      BY <1>1, <1>2, <2>3 DEF SeenOK
    <2> QED BY <2>2, <2>3
  <1> QED BY <1>1, <1>2 DEF SeenOK, SeenOtherwise

LEMMA SeenByReadBack ==
    ASSUME IInv, SeenOK, ReadBack
    PROVE  SeenOK'
  <1>1. UNCHANGED <<args, outcome, sku, held, phase>> /\ phase = "verify"
    BY DEF ReadBack, store
  <1>2. PICK vs \in SUBSET unread :
          /\ unread' = unread \ vs
          /\ reading' = [v \in Variants |-> IF v \notin vs THEN reading[v]
                                            ELSE IF sku[v] = None THEN None ELSE value[v]]
    BY DEF ReadBack
  <1>3. ASSUME NEW i \in Items, ReadOrGone(i)
        PROVE  ReadOrGone(i)'
    <2>1. i[2] \in Variants /\ value[i[2]] # None
      BY UpdatePricesAssumption DEF Items, IInv, TypeOK
    <2> QED BY <1>1, <1>2, <1>3, <2>1 DEF ReadOrGone
  <1> QED BY <1>1, <1>3 DEF SeenOK, SeenOtherwise

LEMMA SeenStep == IInv /\ SeenOK /\ [Next]_vars => SeenOK'
  <1> SUFFICES ASSUME IInv, SeenOK, [Next]_vars PROVE SeenOK'
    OBVIOUS
  <1>0. IInv'
    BY InvStep
  <1>1. CASE UNCHANGED vars
    BY <1>1 DEF vars, call, store, SeenOK, ReadOrGone, SeenOtherwise
  <1>2. ASSUME phase' \notin {"verify", "done"} PROVE SeenOK'
    BY <1>0, <1>2, NoMismatchYet DEF SeenOK, IInv, ReachedOK, Reached, TypeOK, Phases
  <1>3. CASE LookedUp
    <2>1. \A i \in Items : outcome'[i] # "mismatch"
      BY <1>3, NoMismatchYet DEF LookedUp
    <2>2. phase' # "verify"
      BY <1>3 DEF LookedUp
    <2> QED BY <2>1, <2>2 DEF SeenOK
  <1>4. CASE Verify
    <2>1. \A i \in Items : outcome'[i] # "mismatch" /\ (outcome'[i] = "provisional" => i[2] \in unread')
      BY <1>4, NoMismatchYet DEF Verify, Provisional
    <2> QED BY <2>1 DEF SeenOK, ReadOrGone
  <1>5. CASE ReadFails
    <2>1. /\ UNCHANGED <<args, sku, held>> /\ phase' = "done" /\ phase = "verify"
          /\ \A i \in Items : outcome'[i] # "mismatch"
      BY <1>5, NoMismatchYet DEF ReadFails, store
    <2> QED BY <2>1 DEF SeenOK
  <1>6. ASSUME NEW p \in Products, Send(p) \/ Answer(p) \/ GiveUp(p)
        PROVE  SeenOK'
    BY <1>2, <1>6 DEF Send, Answer, GiveUp
  <1>7. ASSUME NEW s \in Skus, Skip(s) \/ FindIds(s)
        PROVE  SeenOK'
    BY <1>2, <1>7 DEF Skip, FindIds
  <1>8. CASE CheckAccess \/ Abort \/ ReadVariants
    BY <1>2, <1>8 DEF CheckAccess, Abort, ReadVariants
  <1>9. ASSUME NEW p \in Products, RunLate(p)
        PROVE  SeenOK'
    <2>1. Variants # {}
      BY <1>9 DEF RunLate, IInv, TypeOK, Items
    <2> QED BY <1>9, <2>1, SeenByStore
  <1>10. ASSUME NEW v \in Variants, Reprice(v) \/ Rename(v)
         PROVE  SeenOK'
    <2>1. Products # {}
      BY DEF IInv, TypeOK
    <2> QED BY <1>10, <2>1, SeenByStore
  <1> QED BY <1>1, <1>3, <1>4, <1>5, <1>6, <1>7, <1>8, <1>9, <1>10,
             SeenByReport, SeenByReadBack DEF Next

LEMMA SeenInvariant == Spec => []SeenOK
  <1>1. Init => SeenOK
    BY DEF Init, SeenOK
  <1> QED BY <1>1, SeenStep, InductiveInvariant, PTL DEF Spec

\* Every variable of the call and of the store has its type, and a call that is
\* over has settled every write it sent.
THEOREM TypeCorrect == Spec => []TypeOK
  <1>1. IInv => TypeOK
    BY DEF IInv
  <1> QED BY InductiveInvariant, <1>1, PTL

\* A dry run, a failed check or a failed lookup writes nothing, and a SKU of
\* several variants changes one of them only if the caller allows it, whoever
\* renames variants meanwhile and whenever a lost write runs (updatePricesCore).
THEOREM OnlyAsAskedHolds == Spec => []OnlyAsAsked
  <1>1. IInv => OnlyAsAsked
    <2> SUFFICES ASSUME IInv, ran # {} PROVE
          /\ ~args.dryRun /\ phase \in {"write", "verify", "done"}
          /\ \A s \in Skus : lookup[s] # "todo"
          /\ ~args.allowDuplicates => \A i, j \in ran : i[1] = j[1] => i[2] = j[2]
      BY DEF OnlyAsAsked
    <2>1. \A i \in ran : i \in Items /\ outcome[i] # "none"
      BY DEF IInv, WritesOK, TypeOK
    <2> QED BY <2>1 DEF IInv, FlowOK, OnePerSku
  <1> QED BY InductiveInvariant, <1>1, PTL

\* What the status says of a store that was really written to.
LEMMA StatusIsTrue ==
    ASSUME IInv, phase = "done", ~args.dryRun
    PROVE  /\ Status = "ok" =>
                \A s \in Skus : args.wanted[s] # None =>
                    \E v \in Variants :
                        outcome[<<s, v>>] = "applied" /\ args.wanted[s] \in held[v]
           /\ Status = "failed" =>
                \A i \in ran : outcome[i] = "mismatch" \/ i[2] \in omitted
  <1> USE DEF IInv
  <1>1. \A i \in Items : outcome[i] \in {"none", "applied", "applied_unverified", "mismatch",
                                         "rejected", "unknown"}
    BY DEF ReachedOK, Reached, TypeOK, Outcomes
  <1>2. ASSUME Status = "ok", NEW s \in Skus, args.wanted[s] # None
        PROVE  \E v \in Variants :
                   outcome[<<s, v>>] = "applied" /\ args.wanted[s] \in held[v]
    <2>1. /\ ~Reported({"applied_unverified"}) /\ ~Reported({"mismatch", "rejected", "unknown"})
          /\ ~LookedUpAs({"not_found", "ambiguous"})
      BY <1>2 DEF Status
    <2>2. lookup[s] = "resolved"
      BY <1>2, <2>1 DEF LookedUpAs, FlowOK, ItemsFound, TypeOK, Lookups
    <2>3. PICK v \in Variants : outcome[<<s, v>>] # "none"
      BY <2>2 DEF ItemsFound
    <2>4. <<s, v>> \in Items
      BY DEF Items
    <2>5. outcome[<<s, v>>] = "applied"
      BY <1>1, <2>1, <2>3, <2>4 DEF Reported
    <2> QED BY <2>4, <2>5 DEF WritesOK, ReadingsOK
  <1>3. ASSUME Status = "failed", NEW i \in ran
        PROVE  outcome[i] = "mismatch" \/ i[2] \in omitted
    <2>1. ~Reported({"applied"}) /\ ~Reported({"applied_unverified"}) /\ ~Reported({"unknown"})
      BY <1>3 DEF Status
    <2>2. i \in Items
      BY DEF TypeOK
    <2> QED BY <1>1, <2>1, <2>2 DEF Reported, WritesOK
  <1> QED BY <1>2, <1>3

\* What the result says of each write stays true, whatever others do to the store,
\* whatever the answers of the writes look like and whenever a lost write runs, and
\* so does the status of the store (updatePricesCore).
THEOREM ResultIsTrueHolds == Spec => []ResultIsTrue
  <1>1. IInv /\ SeenOK => ResultIsTrue
    <2> SUFFICES ASSUME IInv, SeenOK PROVE ResultIsTrue
      OBVIOUS
    <2>1. \A i \in Items :
            /\ outcome[i] = "applied" => args.wanted[i[1]] \in held[i[2]]
            /\ outcome[i] = "mismatch" =>
                 sku[i[2]] = None \/ ~(held[i[2]] \subseteq {args.wanted[i[1]]})
      BY DEF IInv, ReadingsOK, SeenOK, SeenOtherwise
    <2>2. \A i \in ran :
            /\ lookup[i[1]] = "resolved"
            /\ outcome[i] \in {"none", "rejected"} => i[2] \in omitted
      BY DEF IInv, WritesOK, ItemsFound, TypeOK
    <2> QED BY <2>1, <2>2, StatusIsTrue DEF ResultIsTrue
  <1> QED BY InductiveInvariant, SeenInvariant, <1>1, PTL
===============================================================================
