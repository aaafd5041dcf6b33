----------------------------- MODULE ResultLimits -----------------------------
(***************************************************************************)
(* What is left of the result of shopify_update_prices when it is longer   *)
(* than the client takes (fitWriteResult, src/src/result-limits.ts): the   *)
(* result is cut in stages, as long as it is too long, and each state here *)
(* is one that the client may be given.                                    *)
(*                                                                         *)
(* A result is of one store, with a list of its items, or of several: a    *)
(* list of stores, each with its own list.  Sizes are not modelled, so any *)
(* stage may be needed; nor is the data of an item, only whether its SKU   *)
(* and what became of it can still be read.                                *)
(***************************************************************************)
EXTENDS Naturals

CONSTANTS Stores, Skus

VARIABLES
    several, \* the tool was called with a list of stores
    outcome, \* per store and SKU: what became of it; no SKU if the store failed
    stage,   \* the last stage the result went through
    store,   \* per store: how it is listed
    item     \* per store and SKU: how it is listed

vars == <<several, outcome, stage, store, item>>

\* SKUs that were not found are listed by name only, apart from the items.
Outcomes == {"applied", "applied_unverified", "rejected", "not_found"}

\* Whole, by identity and outcome, as a summary line, in a number, or not at all.
Listings == {"whole", "identity", "line", "count", "gone"}

\* A store that threw has no items.
Results == [Skus -> Outcomes] \cup {<<>>}

Answered == DOMAIN outcome
Rows(s) == {k \in DOMAIN outcome[s] : outcome[s][k] # "not_found"}

Init ==
    /\ \/ several = TRUE /\ outcome \in [Stores -> Results]
       \/ several = FALSE /\ outcome \in UNION {[{s} -> [Skus -> Outcomes]] : s \in Stores}
    /\ stage = "full"
    /\ store = [s \in DOMAIN outcome |-> "whole"]
    /\ item = [s \in DOMAIN outcome |-> [k \in DOMAIN outcome[s] |-> "whole"]]

-----------------------------------------------------------------------------
(* The stages. *)

\* Mutant: what Shopify accepted counts as applied, though it was not read back.
Accepted == {"applied", "applied_unverified"}

\* APPLIED_OUTCOMES.
Applied == {"applied"}

\* itemApplied of a store: it is ok, and so is its status.
StoreApplied(s) == outcome[s] # <<>> /\ \A k \in DOMAIN outcome[s] : outcome[s][k] = "applied"

\* Every listing of an item, and every listing of a store, is replaced.
Relist(st, it(_, _)) ==
    /\ store' = [s \in Answered |-> st[s]]
    /\ item' = [s \in Answered |-> [k \in DOMAIN outcome[s] |-> it(s, k)]]
    /\ UNCHANGED <<several, outcome>>

\* slim and shorten trim the data of the items and no item.
Trim(from, to) == stage = from /\ stage' = to /\ UNCHANGED <<several, outcome, store, item>>

Slim == Trim("full", "slim")
Shorten == Trim("dropSummaries", "shorten")

\* An applied item becomes a line; so does an applied store, when no store has an
\* item left that did not apply, and its items are gone with it.
Summarize ==
    /\ stage = "slim" /\ stage' = "summarize"
    /\ LET nested == \E s \in Answered : \E k \in Rows(s) : outcome[s][k] \notin Applied
           lines  == IF several /\ ~nested THEN {s \in Answered : StoreApplied(s)} ELSE {}
           Line(s, k) == IF s \in lines THEN "gone"
                         ELSE IF outcome[s][k] \in Applied THEN "line" ELSE item[s][k]
       IN Relist([s \in Answered |-> IF s \in lines THEN "line" ELSE store[s]], Line)

\* Mutant: the lines stay.
Kept(listing) == listing

Dropped(listing) == IF listing = "line" THEN "gone" ELSE listing

DropSummaries ==
    /\ stage = "summarize" /\ stage' = "dropSummaries"
    /\ LET Drop(s, k) == Dropped(item[s][k])
       IN Relist([s \in Answered |-> Dropped(store[s])], Drop)

Named(listing) == IF listing = "whole" THEN "identity" ELSE listing

\* Items are cut to their identity; of several stores the stores are the items, and
\* nothing of the items of a store is part of its identity.
Identity ==
    /\ stage = "shorten" /\ stage' = "identity"
    /\ LET Cut(s, k) == IF several THEN "gone"
                        ELSE IF k \in Rows(s) THEN Named(item[s][k]) ELSE item[s][k]
       IN Relist([s \in Answered |-> IF several THEN Named(store[s]) ELSE store[s]], Cut)

\* The last resort, whenever the notice of the trimming itself makes the result too
\* long: the top-level scalars, the identity of what did not apply, and the number
\* of the SKUs that were not found.
Minimal ==
    /\ stage \notin {"full", "minimal"} /\ stage' = "minimal"
    /\ LET Least(s, k) == IF several THEN "gone"
                          ELSE IF k \notin Rows(s) THEN "count"
                          ELSE IF outcome[s][k] \in Applied THEN "gone" ELSE "identity"
           Store(s) == IF ~several THEN store[s]
                       ELSE IF StoreApplied(s) THEN "gone" ELSE "identity"
       IN Relist([s \in Answered |-> Store(s)], Least)

Next == Slim \/ Summarize \/ DropSummaries \/ Shorten \/ Identity \/ Minimal

Spec == Init /\ [][Next]_vars

-----------------------------------------------------------------------------
(* Properties. *)

Listed(listing) == listing \in {"whole", "identity"}

\* Types; lines are only there until they are dropped, and no item is listed under
\* a store that is not.
TypeOK ==
    /\ several \in BOOLEAN
    /\ stage \in {"full", "slim", "summarize", "dropSummaries", "shorten", "identity", "minimal"}
    /\ store \in [Answered -> Listings]
    /\ \A s \in Answered :
         /\ outcome[s] \in Results /\ item[s] \in [DOMAIN outcome[s] -> Listings]
         /\ \A l \in {store[s]} \cup {item[s][k] : k \in DOMAIN outcome[s]} :
              l = "line" => stage = "summarize"
         /\ ~Listed(store[s]) => \A k \in DOMAIN outcome[s] : item[s][k] = "gone"

\* However much of the result is cut, the client can tell what it must look at
\* again (result-limits.ts:183-190): a store that is not ok is listed as such, and
\* what did not apply is listed itself, or, in the result of one store, it is among
\* the counted SKUs that were not found.  There is one exception to "every item
\* that did not apply" is "always kept" (line 189): of several stores the last two
\* stages keep the stores only, without their items.
FailuresStayVisible ==
    \A s \in Answered :
      LET applied == {k \in DOMAIN outcome[s] : outcome[s][k] = "applied"}
      IN /\ several /\ (outcome[s] = <<>> \/ applied # DOMAIN outcome[s]) => Listed(store[s])
         /\ \A k \in DOMAIN outcome[s] \ applied :
              \/ Listed(item[s][k])
              \/ several /\ stage \in {"identity", "minimal"}
              \/ ~several /\ outcome[s][k] = "not_found" /\ item[s][k] = "count"
===============================================================================
