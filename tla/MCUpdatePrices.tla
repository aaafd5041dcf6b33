---------------------------- MODULE MCUpdatePrices ----------------------------
(* Either one call of shopify_update_prices (UpdatePrices), or what is left of *)
(* the result of one (ResultLimits), of one store or of several: sizes are not *)
(* modelled, so that any result may be too long.  The part that does not run   *)
(* rests where it has ended.                                                   *)
EXTENDS UpdatePrices, TLC

CONSTANT Stores

VARIABLES several, became, stage, storeListing, itemListing

limits == <<several, became, stage, storeListing, itemListing>>

L == INSTANCE ResultLimits WITH
       outcome <- became, store <- storeListing, item <- itemListing

\* A call whose access check failed has ended, in a store without SKUs.
NoCall ==
    /\ args = [dryRun |-> TRUE, allowDuplicates |-> FALSE, wanted |-> [s \in Skus |-> None]]
    /\ \E p \in Products, x \in Values :
         product = [v \in Variants |-> p] /\ value = [v \in Variants |-> x]
    /\ sku = [v \in Variants |-> None] /\ phase = "failed"
    /\ lookup = [s \in Skus |-> "todo"] /\ candidates = NoLookup /\ batch = None
    /\ lost = {} /\ unread = {} /\ reading = [v \in Variants |-> None]
    /\ outcome = [i \in Items |-> "none"]
    /\ ran = {} /\ omitted = {} /\ held = [v \in Variants |-> {}]

\* A result without stores is cut as far as it goes.
NoResult ==
    several = TRUE /\ became = <<>> /\ stage = "minimal" /\ storeListing = <<>> /\ itemListing = <<>>

PricesInit == (Init /\ NoResult) \/ (NoCall /\ L!Init)

PricesNext == (Next /\ UNCHANGED limits) \/ (L!Next /\ UNCHANGED vars)

PricesSpec == PricesInit /\ [][PricesNext]_<<vars, limits>>

\* FailuresStayVisible of ResultLimits, with its types: however much of a result is
\* cut, it still says of what did not apply, or of the store it belongs to, that it
\* did not.
FailuresStayVisible == L!TypeOK /\ L!FailuresStayVisible

Symmetry == Permutations(Skus) \cup Permutations(Variants) \cup Permutations(Products)
              \cup Permutations(Values) \cup Permutations(Stores)
===============================================================================
