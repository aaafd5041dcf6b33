----------------------------- MODULE UpdatePrices -----------------------------
(***************************************************************************)
(* One call of shopify_update_prices on one store                          *)
(* (src/src/parity-tools.ts, updatePricesCore): each SKU is resolved to    *)
(* the variants that have it, the prices are written product by product,   *)
(* and what was written is read back before anything is called applied.    *)
(*                                                                         *)
(* Meanwhile others rename, delete and reprice variants, answers are lost, *)
(* and a write whose caller gave up may run later.  Price, compare-at      *)
(* price and unit cost of a variant are one value; which SKU or product    *)
(* comes first is left open.  How one request is sent is the subject of    *)
(* AdminApi, and several stores of one call that of RunAction.             *)
(***************************************************************************)
EXTENDS Integers, FiniteSets

CONSTANTS
    Skus,       \* the SKUs of the call, without duplicate rows
    Variants,   \* the variants of the store
    Products,   \* the products of the store
    Values,     \* what a variant may cost
    ReadBatch,  \* VARIANT_READ_BATCH
    None        \* no value, no SKU, no batch

ASSUME UpdatePricesAssumption ==
    /\ IsFiniteSet(Variants)
    /\ ReadBatch \in Nat \ {0}
    /\ None \notin Skus \cup Variants \cup Products \cup Values

VARIABLES
    args,      \* dryRun, allowDuplicates, and the value asked for each SKU
    product,   \* the product of each variant
    sku,       \* the SKU of each variant, None once it is deleted
    value,     \* the value of each variant
    phase,     \* what the call is at
    lookup,    \* per SKU: what its lookup came to
    candidates,\* of the lookup under way: its SKU and the variants found first
    batch,     \* the product whose write is waited for
    lost,      \* items whose write was given up and may still run
    unread,    \* written variants that are not read back yet
    reading,   \* per variant: the value it was read back with
    outcome,   \* per SKU and variant: what the result says of the write
    (* history *)
    ran,       \* the writes that Shopify ran
    omitted,   \* variants that were written and are missing from the answer
    held       \* per variant: its values since the first read-back began

call  == <<args, phase, lookup, candidates, batch, unread, reading, outcome>>
store == <<product, sku, value, lost, ran, omitted, held>>
vars  == <<call, store>>

Items == Skus \X Variants

Arguments == [dryRun : BOOLEAN, allowDuplicates : BOOLEAN, wanted : [Skus -> Values \cup {None}]]

Phases == {"begin", "lookup", "write", "verify", "done", "failed"}

Lookups == {"todo", "skipped", "not_found", "ambiguous", "resolved"}

\* "pending" and "provisional" are inside the call only: to be written, and
\* accepted but not read back.
Outcomes == {"none", "pending", "provisional", "applied", "applied_unverified",
             "mismatch", "rejected", "unknown"}

NoLookup == [sku |-> None, ids |-> {}]

Init ==
    /\ args \in Arguments
    /\ product \in [Variants -> Products]
    /\ sku \in [Variants -> Skus \cup {None}]
    /\ value \in [Variants -> Values]
    /\ phase = "begin"
    /\ lookup = [s \in Skus |-> "todo"]
    /\ candidates = NoLookup
    /\ batch = None
    /\ lost = {}
    /\ unread = {}
    /\ reading = [v \in Variants |-> None]
    /\ outcome = [i \in Items |-> "none"]
    /\ ran = {} /\ omitted = {}
    /\ held = [v \in Variants |-> {}]

-----------------------------------------------------------------------------
(* The store. *)

\* The values change; from the first read-back on they are remembered.
Becomes(new) ==
    /\ value' = new
    /\ held' = IF phase = "verify" THEN [v \in Variants |-> held[v] \cup {new[v]}] ELSE held

\* Others set a price, rename a variant or delete it, until the call is over.
Reprice(v) ==
    /\ phase \notin {"done", "failed"} /\ sku[v] # None
    /\ \E x \in Values \ {value[v]} : Becomes([value EXCEPT ![v] = x])
    /\ UNCHANGED <<call, product, sku, lost, ran, omitted>>

Rename(v) ==
    /\ phase \notin {"done", "failed"} /\ sku[v] # None
    /\ \E x \in (Skus \cup {None}) \ {sku[v]} : sku' = [sku EXCEPT ![v] = x]
    /\ UNCHANGED <<call, product, value, lost, ran, omitted, held>>

\* Shopify may run a write in part, and never on a variant that is gone.
Run(accepted) ==
    /\ \A i \in accepted : sku[i[2]] # None
    /\ ran' = ran \cup accepted
    /\ \E new \in [Variants -> Values] :
         /\ \A v \in Variants :
              LET asked == {args.wanted[i[1]] : i \in {j \in accepted : j[2] = v}}
              IN  IF asked = {} THEN new[v] = value[v] ELSE new[v] \in asked
         /\ Becomes(new)

RunLate(p) ==
    LET items == {i \in lost : product[i[2]] = p} IN
    /\ items # {}
    /\ lost' = lost \ items
    /\ \E accepted \in SUBSET items : Run(accepted)
    /\ UNCHANGED <<call, product, sku, omitted>>

-----------------------------------------------------------------------------
(* The call. *)

\* requireScopes, and rows of one SKU that disagree: nothing is looked up.
CheckAccess ==
    /\ phase = "begin"
    /\ phase' = "lookup"
    /\ UNCHANGED <<args, lookup, candidates, batch, unread, reading, outcome, store>>

\* A query of the first two phases fails, or a check is not passed.
Abort ==
    /\ phase \in {"begin", "lookup"}
    /\ phase' = "failed"
    /\ UNCHANGED <<args, lookup, candidates, batch, unread, reading, outcome, store>>

\* Nothing is asked for this SKU.
Skip(s) ==
    /\ phase = "lookup" /\ candidates = NoLookup /\ lookup[s] = "todo"
    /\ args.wanted[s] = None
    /\ lookup' = [lookup EXCEPT ![s] = "skipped"]
    /\ UNCHANGED <<args, phase, candidates, batch, unread, reading, outcome, store>>

\* The search by prefix, from which the exact matches are kept.
FindIds(s) ==
    /\ phase = "lookup" /\ candidates = NoLookup /\ lookup[s] = "todo"
    /\ args.wanted[s] # None
    /\ candidates' = [sku |-> s, ids |-> {v \in Variants : sku[v] = s}]
    /\ UNCHANGED <<args, phase, lookup, batch, unread, reading, outcome, store>>

\* The variants are read by ID, and those that still have the SKU count.
Matches == {v \in candidates.ids : sku[v] = candidates.sku}

\* Mutant: several variants of a SKU are never too many.
MatchFirst(matches) == IF matches = {} THEN "not_found" ELSE "resolved"

\* What a SKU's lookup comes to.
Match(matches) ==
    IF matches = {} THEN "not_found"
    ELSE IF Cardinality(matches) > 1 /\ ~args.allowDuplicates THEN "ambiguous"
    ELSE "resolved"

ReadVariants ==
    /\ phase = "lookup" /\ candidates # NoLookup
    /\ lookup' = [lookup EXCEPT ![candidates.sku] = Match(Matches)]
    /\ outcome' = [i \in Items |->
                     IF i[1] = candidates.sku /\ i[2] \in Matches /\ Match(Matches) = "resolved"
                     THEN "pending" ELSE outcome[i]]
    /\ candidates' = NoLookup
    /\ UNCHANGED <<args, phase, batch, unread, reading, store>>

\* A dry run ends with a preview of the items that are pending.
LookedUp ==
    /\ phase = "lookup" /\ candidates = NoLookup
    /\ \A s \in Skus : lookup[s] # "todo"
    /\ phase' = IF args.dryRun THEN "done" ELSE "write"
    /\ UNCHANGED <<args, lookup, candidates, batch, unread, reading, outcome, store>>

\* A variant that was renamed between two lookups is in the write twice.
Pending(p) == {i \in Items : product[i[2]] = p /\ outcome[i] = "pending"}

\* The next product's write is sent.
Send(p) ==
    /\ phase = "write" /\ batch = None /\ Pending(p) # {}
    /\ batch' = p
    /\ UNCHANGED <<args, phase, lookup, candidates, unread, reading, outcome, store>>

\* An item of which the answer returns the variant was accepted; the others
\* count as rejected, whether the answer has errors for them, no data, or the
\* request failed its validation before it was sent.
Accepted(i, returned) == IF i[2] \in returned THEN "provisional" ELSE "rejected"

\* Shopify answers; data and errors may both be there, and data may be missing.
\* The answer may leave out a variant that was changed, and it may look fine
\* for one whose change was not kept.
Answer(p) ==
    /\ phase = "write" /\ batch = p
    /\ \E accepted \in SUBSET Pending(p) :
         /\ Run(accepted)
         /\ \E returned \in SUBSET {i[2] : i \in Pending(p)} :
              /\ omitted' = omitted \cup ({i[2] : i \in accepted} \ returned)
              /\ outcome' = [i \in Items |->
                               IF i \in Pending(p) THEN Accepted(i, returned) ELSE outcome[i]]
    /\ batch' = None
    /\ UNCHANGED <<args, phase, lookup, candidates, unread, reading, product, sku, lost>>

\* Mutant: a write without an answer counts as rejected.
LostIsRejected(p) ==
    [i \in Items |-> IF i \in Pending(p) THEN "rejected" ELSE outcome[i]]

\* A write without an answer may have run.
LostIsUnknown(p) ==
    [i \in Items |-> IF i \in Pending(p) THEN "unknown" ELSE outcome[i]]

\* No answer: a timeout, a network error, a throttled or unreadable response.
GiveUp(p) ==
    /\ phase = "write" /\ batch = p
    /\ outcome' = LostIsUnknown(p)
    /\ lost' = lost \cup Pending(p)
    /\ batch' = None
    /\ UNCHANGED <<args, phase, lookup, candidates, unread, reading,
                   product, sku, value, ran, omitted, held>>

Provisional == {i \in Items : outcome[i] = "provisional"}

\* Everything is written, in one way or another; what was accepted is read back.
Verify ==
    /\ phase = "write" /\ batch = None
    /\ \A i \in Items : outcome[i] # "pending"
    /\ phase' = "verify"
    /\ unread' = {i[2] : i \in Provisional}
    /\ held' = [v \in Variants |-> {value[v]}]
    /\ UNCHANGED <<args, lookup, candidates, batch, reading, outcome,
                   product, sku, value, lost, ran, omitted>>

\* The next variants are read, by ID: None for one that is gone.
ReadBack ==
    /\ phase = "verify" /\ unread # {}
    /\ \E vs \in SUBSET unread :
         /\ vs = unread \/ Cardinality(vs) = ReadBatch
         /\ vs # {} /\ Cardinality(vs) <= ReadBatch
         /\ unread' = unread \ vs
         /\ reading' = [v \in Variants |->
                          IF v \notin vs THEN reading[v]
                          ELSE IF sku[v] = None THEN None ELSE value[v]]
    /\ UNCHANGED <<args, phase, lookup, candidates, batch, outcome, store>>

\* Mutant: a failed read ends the call without a word about the writes.
ReadFailsQuietly ==
    /\ phase = "verify" /\ unread # {}
    /\ phase' = "done"
    /\ UNCHANGED <<args, lookup, candidates, batch, unread, reading, outcome, store>>

\* One failed read leaves every accepted write unverified, those of earlier
\* reads included.
ReadFails ==
    /\ phase = "verify" /\ unread # {}
    /\ outcome' = [i \in Items |->
                     IF i \in Provisional THEN "applied_unverified" ELSE outcome[i]]
    /\ phase' = "done"
    /\ UNCHANGED <<args, lookup, candidates, batch, unread, reading, store>>

\* Mutant: the answer of the write is believed.
VerifiedByAnswer(i) == "applied"

Verified(i) == IF reading[i[2]] = args.wanted[i[1]] THEN "applied" ELSE "mismatch"

Report ==
    /\ phase = "verify" /\ unread = {}
    /\ outcome' = [i \in Items |-> IF i \in Provisional THEN Verified(i) ELSE outcome[i]]
    /\ phase' = "done"
    /\ UNCHANGED <<args, lookup, candidates, batch, unread, reading, store>>

-----------------------------------------------------------------------------
Reported(os) == \E i \in Items : outcome[i] \in os
LookedUpAs(ls) == \E s \in Skus : lookup[s] \in ls

\* The status of the store, from the outcome of every item and SKU.
Status ==
    LET done   == Reported({"applied"}) \/ LookedUpAs({"skipped"})
        unsure == Reported({"applied_unverified"})
        other  == Reported({"mismatch", "rejected", "unknown"})
                    \/ LookedUpAs({"not_found", "ambiguous"})
    IN  IF ~unsure /\ ~other THEN "ok"
        ELSE IF unsure /\ ~other THEN "unverified"
        ELSE IF done \/ unsure THEN "partial"
        ELSE IF Reported({"unknown"}) THEN "unknown"
        ELSE "failed"

Next ==
    \/ CheckAccess \/ Abort \/ ReadVariants \/ LookedUp
    \/ Verify \/ ReadBack \/ ReadFails \/ Report
    \/ \E s \in Skus : Skip(s) \/ FindIds(s)
    \/ \E p \in Products : Send(p) \/ Answer(p) \/ GiveUp(p) \/ RunLate(p)
    \/ \E v \in Variants : Reprice(v) \/ Rename(v)

Spec == Init /\ [][Next]_vars

-----------------------------------------------------------------------------
(* Properties. *)

TypeOK ==
    /\ args \in Arguments
    /\ product \in [Variants -> Products]
    /\ sku \in [Variants -> Skus \cup {None}] /\ value \in [Variants -> Values]
    /\ phase \in Phases /\ lookup \in [Skus -> Lookups]
    /\ candidates \in [sku : Skus, ids : SUBSET Variants] \cup {NoLookup}
    /\ batch \in Products \cup {None} /\ lost \subseteq Items
    /\ unread \subseteq Variants /\ reading \in [Variants -> Values \cup {None}]
    /\ outcome \in [Items -> Outcomes]
    /\ ran \subseteq Items /\ omitted \subseteq Variants
    /\ held \in [Variants -> SUBSET Values]
    /\ phase \in {"done", "failed"} /\ ~args.dryRun => ~Reported({"provisional"})

\* Nothing is written in a dry run, after a failed check or lookup, or before
\* every SKU is looked up, and a SKU of several variants changes one of them
\* only if the caller allows it, whoever renames variants between the lookups.
OnlyAsAsked ==
    ran # {} =>
        /\ ~args.dryRun /\ phase \in {"write", "verify", "done"}
        /\ \A s \in Skus : lookup[s] # "todo"
        /\ ~args.allowDuplicates =>
             \A i, j \in ran : i[1] = j[1] => i[2] = j[2]

\* The result stays true, whatever others do, whatever the answers of the
\* writes look like and whenever a lost write runs:
\* - after all writes were over, what is "applied" held the value asked for,
\*   and what is a "mismatch" held another one or was gone;
\* - what is not reported as written, nor as unknown, was not and will not be,
\*   so that it may be sent again: only an answer that leaves out the data of
\*   a variant it changed makes the call call it rejected;
\* - a store is "ok" only if every SKU is applied to some variant, and "failed"
\*   only if nothing was written but what others overwrote.
ResultIsTrue ==
    /\ \A i \in Items :
         /\ outcome[i] = "applied" => args.wanted[i[1]] \in held[i[2]]
         /\ outcome[i] = "mismatch" =>
              sku[i[2]] = None \/ ~(held[i[2]] \subseteq {args.wanted[i[1]]})
    /\ \A i \in ran :
         /\ lookup[i[1]] = "resolved"
         /\ outcome[i] \in {"none", "rejected"} => i[2] \in omitted
    /\ phase = "done" /\ ~args.dryRun =>
         /\ Status = "ok" =>
              \A s \in Skus : args.wanted[s] # None =>
                  \E v \in Variants :
                      outcome[<<s, v>>] = "applied" /\ args.wanted[s] \in held[v]
         /\ Status = "failed" =>
              \A i \in ran : outcome[i] = "mismatch" \/ i[2] \in omitted
===============================================================================
