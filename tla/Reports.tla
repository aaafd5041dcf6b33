-------------------------------- MODULE Reports --------------------------------
(***************************************************************************)
(* One call of shopify_report (src/src/reports.ts, src/src/report-tools.ts *)
(* and resolveStoreTargets of src/src/config.ts): every store is read on   *)
(* its own, page by page or one page only, a store that fails is reported  *)
(* as failed, and conclusions are drawn over what was read.                *)
(*                                                                         *)
(* Meanwhile others add, change and remove records, requests fail or are   *)
(* answered in part, and cursors may be wrong.  A record is a variant, of  *)
(* the SKU or product KeyOf; its one value stands for its price or its     *)
(* quantity.  The reports differ in how they read and what they conclude:  *)
(*   "compare"   all pages of the variants of some SKUs (compareInventory, *)
(*               comparePrices, getProductEverywhere, compareCollections,  *)
(*               storeLocations);                                          *)
(*   "catalog"   all pages of products, then all pages of the variants of  *)
(*               each (compareCatalog, getProductEverywhere by handle);    *)
(*   "low_stock" all pages twice, the second time for the SKUs that are    *)
(*               out of stock somewhere (lowStockReport);                  *)
(*   "gap"       one page of products (catalogGapReport and the other      *)
(*               reports that are limited to a number of rows).            *)
(***************************************************************************)
EXTENDS Integers, FiniteSets, FiniteSetsExt

CONSTANTS
    Stores,
    Records,    \* the variants a store may have, in sort order
    PerKey,     \* variants of one SKU or product
    Values,     \* prices or quantities; 0 is out of stock
    Threshold,  \* of a low stock report
    PageSize,   \* records, or products, on one page
    SkuLimit,   \* transferSkuLimit
    Contents,   \* bound: what a store may have at the beginning
    MaxChanges, \* bound: changes that others make during the report
    Strays,     \* bound: the wrong cursors of a store
    None

VARIABLES
    report,   \* which report
    content,  \* per store: the value of each record, None if there is none
    round,    \* the round of a low stock report; 0 once the report is over
    phase,    \* per store: what its reading is at
    after,    \* per store: the cursor of the next page
    seen,     \* per store: the cursors of this connection so far
    nodes,    \* per store: the records read, with their values
    more,     \* per store: products with more variants, and their cursors
    erred,    \* the stores that answered with errors
    cut,      \* the stores of which there are more rows than were asked for
    first,    \* what the first round of a low stock report came to
    (* history *)
    changes,  \* how many changes others have made
    held,     \* per store: the records it has had, with their values
    moved,    \* per store: the records that were changed
    strayed,  \* the stores that answered with a wrong cursor
    blank     \* the stores that answered without data and without errors

reading == <<phase, after, seen, nodes, more, erred, cut>>
world   == <<content, changes, held, moved>>
vars    == <<report, round, reading, first, world, strayed, blank>>

KeyOf(r) == (r - 1) \div PerKey
Keys == {KeyOf(r) : r \in Records}

Reports == {"compare", "catalog", "low_stock", "gap"}
Phases  == {"list", "variants", "read", "failed"}

\* Where a record, or a product, stands: the first reading of a low stock report
\* is sorted by quantity.
Top == Max(Records)
Position(r, v) == IF report = "low_stock" /\ round = 1 THEN v * Top + r ELSE r
Cursors == 1..((Max(Values) + 1) * Top)

\* What the constants must be.
ReportsConstants ==
    /\ Records \subseteq Nat \ {0} /\ Records # {} /\ IsFiniteSet(Records)
    /\ Values \subseteq Nat /\ Values # {} /\ IsFiniteSet(Values) /\ None \notin Values
    /\ PerKey \in Nat \ {0} /\ PageSize \in Nat \ {0} /\ SkuLimit \in Nat
    /\ Threshold \in Int
    /\ Contents \subseteq [Records -> Values \cup {None}]
    /\ MaxChanges \in Nat /\ Strays \subseteq Cursors

Has(s) == {n \in Records \X Values : content[s][n[1]] = n[2]}

Nothing == [s \in Stores |-> {}]
NoRound == [ok |-> {}, nodes |-> Nothing, skus |-> {}]

Init ==
    /\ report \in Reports
    /\ content \in [Stores -> Contents]
    /\ round = 1
    /\ phase = [s \in Stores |-> "list"]
    /\ after = [s \in Stores |-> 0]
    /\ seen = Nothing /\ nodes = Nothing /\ more = Nothing
    /\ erred = {} /\ cut = {} /\ first = NoRound
    /\ changes = 0 /\ held = [s \in Stores |-> Has(s)] /\ moved = Nothing
    /\ strayed = {} /\ blank = {}

-----------------------------------------------------------------------------
(* The stores. *)

\* Others add, change or remove a record.
Change(s, r) ==
    /\ round # 0 /\ changes < MaxChanges /\ strayed = {}
    /\ \E v \in (Values \cup {None}) \ {content[s][r]} :
         /\ content' = [content EXCEPT ![s][r] = v]
         /\ held' = [held EXCEPT ![s] = @ \cup (IF v = None THEN {} ELSE {<<r, v>>})]
    /\ changes' = changes + 1
    /\ moved' = [moved EXCEPT ![s] = @ \cup {r}]
    /\ UNCHANGED <<report, round, reading, first, strayed, blank>>

-----------------------------------------------------------------------------
(* One request. *)

\* The reports that list products.
OfProducts == report \in {"catalog", "gap"}

\* What a query lists of what the store has.
Listed(s) ==
    CASE report = "low_stock" /\ round = 1 -> {n \in Has(s) : n[2] <= Threshold}
      [] report = "low_stock" /\ round = 2 -> {n \in Has(s) : KeyOf(n[1]) \in first.skus}
      [] OTHER -> Has(s)

Variants(s, k) == {n \in Has(s) : KeyOf(n[1]) = k}
Place(n) == IF OfProducts THEN KeyOf(n[1]) + 1 ELSE Position(n[1], n[2])

\* The lowest PageSize of some positions.
Lowest(positions) ==
    {p \in positions : Cardinality({q \in positions : q < p}) < PageSize}

\* The positions after the cursor, those of the next page, and what is on it: of
\* a product, the first page of its variants.
Ahead(s)  == {Place(n) : n \in Listed(s)} \cap {p \in Cursors : p > after[s]}
OnPage(s) == {n \in Listed(s) : Place(n) \in Lowest(Ahead(s))}
FirstVariants(s, k) ==
    {n \in Variants(s, k) : n[1] \in Lowest({m[1] : m \in Variants(s, k)})}
PageNodes(s) ==
    IF OfProducts THEN UNION {FirstVariants(s, KeyOf(n[1])) : n \in OnPage(s)} ELSE OnPage(s)
PageFound(s) == {KeyOf(n[1]) : n \in OnPage(s)}

\* The products on the page that have more variants, with their cursors.
PageMore(s) ==
    {<<k, Max({n[1] : n \in FirstVariants(s, k)})>> :
        k \in {p \in PageFound(s) : report = "catalog" /\ FirstVariants(s, p) # Variants(s, p)}}

\* Mutant: of the cursors only the previous one is compared.
PreviousOnly(cursor, previous, used) == cursor # previous

\* A cursor is followed that is neither the previous one nor one before.
Follows(cursor, previous, used) == cursor # previous /\ cursor \notin used

\* Mutant: each page replaces the pages before.
LastPage(old, new) == new

\* The nodes of the pages so far.
Collected(old, new) == old \cup new

\* The store is not read any further.
Stop(s, how) ==
    /\ phase' = [phase EXCEPT ![s] = how]
    /\ after' = [after EXCEPT ![s] = 0]
    /\ seen' = [seen EXCEPT ![s] = {}]

\* A store that fails has no result.
Drop(s) ==
    /\ Stop(s, "failed")
    /\ nodes' = [nodes EXCEPT ![s] = {}]
    /\ more' = [more EXCEPT ![s] = {}]
    /\ UNCHANGED <<erred, cut>>

Collect(s) ==
    /\ nodes' = [nodes EXCEPT ![s] = Collected(@, PageNodes(s))]
    /\ more' = [more EXCEPT ![s] = @ \cup PageMore(s)]

\* After the last page of the list come the variants of the products.
AfterList(s) == IF report = "catalog" /\ more'[s] # {} THEN "variants" ELSE "read"

\* The store says where the next page begins: None for a cursor that is missing.
Turn(s, cursor) ==
    IF cursor = None \/ ~Follows(cursor, after[s], seen[s]) THEN Drop(s)
    ELSE /\ Collect(s)
         /\ after' = [after EXCEPT ![s] = cursor]
         /\ seen' = [seen EXCEPT ![s] = @ \cup {cursor}]
         /\ UNCHANGED <<phase, erred, cut>>

Reading(s, how) == round # 0 /\ phase[s] = how

Elsewhere == UNCHANGED <<report, round, first, world>>

\* One page of the list.
ReadPage(s) ==
    /\ Reading(s, "list") /\ report # "gap"
    /\ IF Ahead(s) = Lowest(Ahead(s))
       THEN Collect(s) /\ Stop(s, AfterList(s)) /\ UNCHANGED <<erred, cut>>
       ELSE Turn(s, Max(Lowest(Ahead(s))))
    /\ Elsewhere /\ UNCHANGED <<strayed, blank>>

\* Bound: in one store, and not while others change records.
MayStray(s) == strayed \subseteq {s} /\ changes = 0

\* The same page with a cursor that is wrong, or missing.
StrayPage(s) ==
    /\ Reading(s, "list") /\ report # "gap" /\ MayStray(s)
    /\ \E cursor \in Strays \cup {None} : Turn(s, cursor)
    /\ strayed' = strayed \cup {s}
    /\ Elsewhere /\ UNCHANGED blank

\* A report of a number of rows reads one page.
ReadRows(s) ==
    /\ Reading(s, "list") /\ report = "gap"
    /\ Collect(s) /\ Stop(s, "read")
    /\ cut' = IF Ahead(s) = Lowest(Ahead(s)) THEN cut ELSE cut \cup {s}
    /\ Elsewhere /\ UNCHANGED <<erred, strayed, blank>>

\* It takes an answer without data and without errors for an empty page.
ReadNothing(s) ==
    /\ Reading(s, "list") /\ report = "gap"
    /\ Stop(s, "read") /\ blank' = blank \cup {s}
    /\ Elsewhere /\ UNCHANGED <<nodes, more, erred, cut, strayed>>

\* An answer with errors, and with the data of the page or none, ends the list
\* and is all that is kept of it.
ReadErrors(s) ==
    /\ Reading(s, "list")
    /\ \/ /\ nodes' = [nodes EXCEPT ![s] = {}]
          /\ more' = [more EXCEPT ![s] = {}]
       \/ /\ nodes' = [nodes EXCEPT ![s] = PageNodes(s)]
          /\ more' = [more EXCEPT ![s] = PageMore(s)]
    /\ Stop(s, AfterList(s))
    /\ erred' = erred \cup {s}
    /\ Elsewhere /\ UNCHANGED <<cut, strayed, blank>>

\* The next page of variants, of the first product that has more.
Product(s) == Min({m[1] : m \in more[s]})
Cursor(s)  == CHOOSE c \in Cursors : <<Product(s), c>> \in more[s]
Rest(s)    == {n \in Variants(s, Product(s)) : n[1] > Cursor(s)}
NextVariants(s) == {n \in Rest(s) : n[1] \in Lowest({m[1] : m \in Rest(s)})}

\* The product goes on after the cursor, or is complete.
TurnVariants(s, cursor, last) ==
    IF ~last /\ (cursor = None \/ ~Follows(cursor, Cursor(s), seen[s])) THEN Drop(s)
    ELSE /\ nodes' = [nodes EXCEPT ![s] = Collected(@, NextVariants(s))]
         /\ more' = [more EXCEPT ![s] = (@ \ {<<Product(s), Cursor(s)>>})
                                          \cup (IF last THEN {} ELSE {<<Product(s), cursor>>})]
         /\ seen' = [seen EXCEPT ![s] = IF last THEN {} ELSE @ \cup {Cursor(s)}]
         /\ phase' = [phase EXCEPT ![s] = IF more'[s] = {} THEN "read" ELSE @]
         /\ UNCHANGED <<after, erred, cut>>

\* A product that is gone makes the store fail.
ReadVariants(s) ==
    /\ Reading(s, "variants")
    /\ IF Variants(s, Product(s)) = {} THEN Drop(s)
       ELSE TurnVariants(s, IF NextVariants(s) = {} THEN None ELSE Max({n[1] : n \in NextVariants(s)}),
                         NextVariants(s) = Rest(s))
    /\ Elsewhere /\ UNCHANGED <<strayed, blank>>

StrayVariants(s) ==
    /\ Reading(s, "variants") /\ Variants(s, Product(s)) # {} /\ MayStray(s)
    /\ \E cursor \in Strays \cup {None} : TurnVariants(s, cursor, FALSE)
    /\ strayed' = strayed \cup {s}
    /\ Elsewhere /\ UNCHANGED blank

\* No answer, an unknown alias, no connection in the data, or too much of it.
StoreFails(s) ==
    /\ Reading(s, "list") \/ Reading(s, "variants")
    /\ Drop(s)
    /\ Elsewhere /\ UNCHANGED <<strayed, blank>>

-----------------------------------------------------------------------------
(* The report. *)

\* A store is reported as ok when it answered without errors.
Ok == {s \in Stores : phase[s] = "read"} \ erred

\* The SKUs that were read as out of stock somewhere.
OutOfStock(read) ==
    {KeyOf(n[1]) : n \in {m \in UNION {read[s] : s \in Stores} : m[2] <= 0}}

\* Every store is read: a low stock report looks for its SKUs, as many as it may,
\* in every store; the others are over.
EndRound ==
    /\ round # 0 /\ \A s \in Stores : phase[s] \in {"read", "failed"}
    /\ IF report = "low_stock" /\ round = 1
       THEN /\ \E skus \in SUBSET OutOfStock(nodes) :
                 /\ Cardinality(skus) = Min({SkuLimit, Cardinality(OutOfStock(nodes))})
                 /\ first' = [ok |-> Ok, nodes |-> nodes, skus |-> skus]
                 /\ round' = IF skus = {} THEN 0 ELSE 2
            /\ phase' = [s \in Stores |-> "list"]
            /\ nodes' = Nothing /\ erred' = {}
       ELSE round' = 0 /\ UNCHANGED <<first, phase, nodes, erred>>
    /\ UNCHANGED <<report, after, seen, more, cut, world, strayed, blank>>

\* What a store shows of a SKU or product; nothing for a store that failed.
Shows(s, k) == {n \in nodes[s] : KeyOf(n[1]) = k}

\* What is compared: how often each price occurs; of products, their variants.
Fingerprint(variants) ==
    IF report = "catalog" THEN variants
    ELSE [v \in Values |-> Cardinality({n \in variants : n[2] = v})]

FoundAnywhere(k) == \E s \in Stores : Shows(s, k) # {}
Consistent(k) == FoundAnywhere(k) /\ \A s, t \in Stores : Fingerprint(Shows(s, k)) = Fingerprint(Shows(t, k))

\* A gap report: whether it is complete, and the stores that lack a product.
GapAnalysisComplete == Ok = Stores /\ cut \cap Ok = {}

\* The products it names: those that a store which answered has.
GapKeys == {k \in Keys : \E s \in Ok : Shows(s, k) # {}}

\* Mutant: a store that failed lacks every product.
MissingAnywhere(k) == {s \in Stores : Shows(s, k) = {}}

MissingStores(k) == {s \in Ok : Shows(s, k) = {}}

\* A low stock report: whether the search for transfers is complete, and what it
\* found: a SKU, a store that is out of it and one that is not.
TransferComplete ==
    /\ Cardinality(OutOfStock(first.nodes)) <= SkuLimit
    /\ first.skus # {} => Ok = Stores

Opportunities ==
    {o \in first.skus \X Stores \X Stores :
        /\ o[2] # o[3]
        /\ \E n \in first.nodes[o[2]] : KeyOf(n[1]) = o[1] /\ n[2] <= 0
        /\ \E n \in nodes[o[3]] : KeyOf(n[1]) = o[1] /\ n[2] > 0}

Request(s) ==
    \/ ReadPage(s) \/ StrayPage(s) \/ ReadRows(s) \/ ReadNothing(s) \/ ReadErrors(s)
    \/ ReadVariants(s) \/ StrayVariants(s) \/ StoreFails(s)

Next ==
    \/ EndRound
    \/ \E s \in Stores : Request(s)
    \/ \E s \in Stores, r \in Records : Change(s, r)

\* Every request is answered or given up (AdminApi), and the call goes on.
Fairness == WF_vars(EndRound) /\ \A s \in Stores : WF_vars(Request(s))

Spec == Init /\ [][Next]_vars /\ Fairness

-----------------------------------------------------------------------------
(* Properties. *)

TypeOK ==
    /\ report \in Reports /\ round \in 0..2
    /\ content \in [Stores -> [Records -> Values \cup {None}]]
    /\ phase \in [Stores -> Phases] /\ after \in [Stores -> Cursors \cup {0}]
    /\ \A s \in Stores :
         /\ seen[s] \subseteq Cursors
         /\ nodes[s] \subseteq held[s] /\ more[s] \subseteq Keys \X Cursors
         /\ (phase[s] = "variants") <=> (more[s] # {} /\ phase[s] # "list")
         /\ moved[s] \subseteq Records
    /\ erred \subseteq Stores /\ cut \subseteq Stores
    /\ first.ok \subseteq Stores /\ first.skus \subseteq Keys
    /\ changes \in 0..MaxChanges /\ strayed \subseteq Stores /\ blank \subseteq Stores

\* What a store that is ok returns is complete, however its pages fall and
\* whatever others change meanwhile: every record that was there, and matched,
\* from the beginning to the end is among what was read, of a report of a number
\* of rows its product when the rows were enough.  (TypeOK adds that nothing is
\* there that the store never had.)  Excepted are what the code cannot notice: a
\* store whose cursors were wrong and new each time ("strayed"), and one that
\* answered without data and without errors, which reads as no records ("blank").
PagesComplete ==
    round # 0 => \A s \in Ok \ (strayed \cup blank) : \A n \in Listed(s) : n[1] \notin moved[s] =>
      IF report = "gap" THEN s \in cut \/ Shows(s, KeyOf(n[1])) # {} ELSE n \in nodes[s]

Quiet == changes = 0 /\ strayed = {} /\ blank = {}

\* The conclusions of a report are true:
\* - when nobody changed anything and every store is ok, records are called
\*   consistent exactly if they are the same everywhere, a complete gap report
\*   names exactly the stores that lack a product, and a complete search for
\*   transfers, of which the first round was ok too, names exactly those there are;
\* - a store that failed is never one that lacks a product, nor, unless it
\*   answered with a part of its data, one that is consistent with the others;
\* - whatever others do, a transfer is from a store that had the SKU in stock to
\*   one that was out of it.
ClaimsTrue ==
    round = 0 =>
      /\ report \in {"compare", "catalog"} => \A k \in Keys :
           /\ Quiet /\ Ok = Stores =>
                (Consistent(k) <=>
                   /\ \E s \in Stores : Variants(s, k) # {}
                   /\ \A s, t \in Stores : Fingerprint(Variants(s, k)) = Fingerprint(Variants(t, k)))
           /\ Consistent(k) => \A s \in Stores : s \in Ok \/ (s \in erred /\ nodes[s] # {})
      /\ report = "gap" =>
           /\ \A k \in GapKeys : MissingStores(k) \subseteq Ok
           /\ Quiet /\ GapAnalysisComplete => \A k \in Keys :
                /\ k \in GapKeys <=> \E s \in Stores : Variants(s, k) # {}
                /\ k \in GapKeys => MissingStores(k) = {s \in Stores : Variants(s, k) = {}}
      /\ report = "low_stock" =>
           /\ \A o \in Opportunities :
                /\ \E n \in held[o[2]] : KeyOf(n[1]) = o[1] /\ n[2] <= 0
                /\ \E n \in held[o[3]] : KeyOf(n[1]) = o[1] /\ n[2] > 0
           /\ Quiet /\ TransferComplete /\ first.ok = Stores =>
                \A k \in Keys, s, t \in Stores :
                  /\ s # t
                  /\ \E n \in Variants(s, k) : n[2] <= 0 /\ n[2] <= Threshold
                  /\ \E n \in Variants(t, k) : n[2] > 0
                  => <<k, s, t>> \in Opportunities

\* Every report ends, in whatever order and however often the stores answer with
\* the cursors there are.  A store that makes up a new cursor for every page, for
\* ever, is not modelled: only the limit on characters stops it, if records come.
EveryReportEnds == <>(round = 0)
===============================================================================
