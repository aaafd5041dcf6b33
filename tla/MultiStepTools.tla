---------------------------- MODULE MultiStepTools ----------------------------
(***************************************************************************)
(* One tool that changes a store in several requests                       *)
(* (src/src/admin-tools.ts, src/src/parity-tools.ts but for update_prices, *)
(* src/src/media.ts): it checks its arguments and the store, shows what it *)
(* would do, or sends its mutations one after the other, reads the result  *)
(* back, and answers with what was done, whatever failed on the way.       *)
(*                                                                         *)
(* A tool is its plan: the requests and checks of its handler, in order.   *)
(* The client previews a call and then applies it, and repeats a call      *)
(* whose answer says that nothing was done.  How one request is sent is    *)
(* the subject of AdminApi.                                                *)
(***************************************************************************)
EXTENDS Integers, Sequences, FiniteSets, SequencesExt

CONSTANTS
    Polls,        \* how often an uploaded file is read until it is ready
    Several,      \* how many redirects, or publications, one call names
    Quantities,   \* what an inventory level may be
    Findings,     \* what a tool may find when it looks something up: sets of IDs
    MaxCalls      \* bound: calls with one set of arguments

ASSUME MultiStepToolsAssumption ==
    /\ Polls \in Nat \ {0} /\ Several \in Nat \ {0} /\ MaxCalls \in Nat \ {0}
    /\ Quantities \subseteq Nat
    /\ {} \notin Findings

VARIABLES
    args,      \* the tool, dryRun, the optional arguments given, and the quantities
    at,        \* the step of the plan the call is at
    completed, \* Workflow.completed: the mutations that were answered
    items,     \* per redirect: its outcome
    reply,     \* the answer to the client
    quantity,  \* the inventory level that set_inventory is about
    late,      \* mutations whose request was given up and that may still run
    found,     \* the open fulfillment orders of the store, or the named segments
    lookedUp,  \* what this call read of them
    (* history *)
    calls,     \* the number of the call
    shown,     \* the arguments the preview showed
    ran,       \* the mutations that Shopify ran, in order
    keys,      \* the idempotency keys of the inventory changes that ran
    clobbered, \* a change replaced a quantity the caller had not compared
    doubtful,  \* mutations that ran though their answer, which had errors or no
               \* data, was taken for one that did nothing
    previewed, \* what the preview showed of what it had looked up
    sent,      \* what a mutation of this call sent of what it had looked up
    present,      \* what there was to find at some time of this call
    changed    \* others changed it since the preview looked it up

call  == <<args, at, completed, items, reply>>
shop  == <<quantity, late, ran, keys, clobbered>>
finds == <<found, lookedUp, previewed, sent, present, changed>>
vars  == <<call, shop, calls, shown, doubtful, finds>>

-----------------------------------------------------------------------------
(* The tools. *)

\* The optional arguments of each tool; "fields" are the plain ones.
Optional == [
    create_product     |-> {"price", "options", "variants", "images", "collectionId"},
    update_product     |-> {"fields", "replaceTags", "addTags", "removeTags", "images",
                            "variants", "removeMediaIds"},
    create_collection  |-> {"ruleSet", "productIds", "publicationIds"},
    update_collection  |-> {"fields", "ruleSet", "addProductIds"},
    set_inventory      |-> {"idempotencyKey"},
    create_discount    |-> {"customerEligibility", "customerSegments", "productIds",
                            "collectionId", "minimumPurchaseAmount", "minimumQuantity"},
    upload_image       |-> {"imageFile", "sourceUrl", "filename"},
    metafields         |-> {"set", "delete"},
    redirects          |-> {"create", "delete"},
    update_order       |-> {"fields", "replaceTags", "addTags", "removeTags"},
    tags               |-> {"add", "remove"},
    update_customer    |-> {"fields", "replaceTags", "addTags", "removeTags"},
    create_fulfillment |-> {"tracking"}]

Tools == DOMAIN Optional

\* More than one of these, or none of these, is given.
Both(g, names) == Cardinality(g \cap names) > 1
Neither(g, names) == g \cap names = {}

\* replaceTags goes with neither addTags nor removeTags.
TagConflict(g) == "replaceTags" \in g /\ ~Neither(g, {"addTags", "removeTags"})

\* Arguments the handler refuses.  A price stands for options and one variant.
Conflict(tool, g) ==
    CASE tool = "create_product" ->
           IF "price" \in g THEN "variants" \in g
           ELSE ("variants" \in g) # ("options" \in g)
      [] tool = "create_collection" -> Both(g, {"productIds", "ruleSet"})
      [] tool = "create_discount" ->
           \/ ("customerEligibility" \in g) = ("customerSegments" \in g)
           \/ Both(g, {"productIds", "collectionId"})
           \/ Both(g, {"minimumPurchaseAmount", "minimumQuantity"})
      [] tool = "upload_image" -> ("imageFile" \in g) = ("sourceUrl" \in g)
      [] tool = "metafields" -> Neither(g, {"set", "delete"})
      [] tool = "redirects" -> Neither(g, {"create", "delete"})
      [] tool = "tags" -> Neither(g, {"add", "remove"})
      [] OTHER -> TagConflict(g)

\* A price replaces the options that are given.
Used(g) == IF "price" \in g THEN g \ {"options"} ELSE g

\* A step: what it does, the document it sends, which of several it is, and the
\* arguments it carries to Shopify.
Step(do, op, n, with) == [do |-> do, op |-> op, n |-> n, with |-> with]

Check     == <<Step("check", "arguments", 0, {})>>
Preview   == <<Step("preview", "dryRun", 0, {})>>
Scopes    == <<Step("read", "capabilities", 0, {})>>
Read(op)  == <<Step("read", op, 0, {})>>
Write(op, with)  == <<Step("write", op, 0, with)>>
Create(op, with) == <<Step("create", op, 0, with)>>
Times(n, do, op, with) == [i \in 1..n |-> Step(do, op, i, with)]
When(condition, steps) == IF condition THEN steps ELSE <<>>

CreateProduct(g) ==
    Scopes \o Check \o When("collectionId" \in g, Read("collection")) \o Preview
    \o Create("productCreate", {"fields"} \cup (Used(g) \cap {"images", "options"}))
    \o When(~Neither(g, {"price", "variants"}),
            Write("productVariantsBulkCreate", g \cap {"price", "variants"}))
    \o When("collectionId" \in g, Write("collectionAddProducts", {"collectionId"}))
    \o Read("product")

\* Mutant: new tags are sent, removed ones are forgotten.
AddTagsOnly(g) == When("addTags" \in g, Write("tagsAdd", {"addTags"}))

TagChanges(g) ==
    When("addTags" \in g, Write("tagsAdd", {"addTags"}))
    \o When("removeTags" \in g, Write("tagsRemove", {"removeTags"}))

UpdateProduct(g) ==
    Check \o Scopes \o Read("product") \o Preview
    \o When(~Neither(g, {"fields", "replaceTags", "images"}),
            Write("productUpdate", g \cap {"fields", "replaceTags", "images"}))
    \o TagChanges(g)
    \o When("variants" \in g, Write("productVariantsBulkUpdate", {"variants"}))
    \o When("removeMediaIds" \in g, Write("productDeleteMedia", {"removeMediaIds"}))
    \o Read("product")

\* Each channel must confirm that it shows the collection.
Publish(g) ==
    When("publicationIds" \in g,
         Write("publishablePublish", {"publicationIds"})
         \o Times(Several, "confirm", "publishedOnPublication", {}))

CreateCollection(g) ==
    Check \o Scopes \o Preview
    \o Create("collectionCreate", {"fields"} \cup (g \cap {"ruleSet"}))
    \o When("productIds" \in g, Write("collectionAddProducts", {"productIds"}))
    \o Publish(g) \o Read("collection")

UpdateCollection(g) ==
    Check \o Scopes \o Read("collection") \o Preview
    \o When(~Neither(g, {"fields", "ruleSet"}),
            Write("collectionUpdate", g \cap {"fields", "ruleSet"}))
    \o When("addProductIds" \in g, Write("collectionAddProducts", {"addProductIds"}))
    \o Read("collection")

SetInventory(g) ==
    Scopes \o Read("inventoryAt") \o Preview
    \o Write("inventorySetQuantities", {"quantity"})
    \o <<Step("confirm", "inventoryAt", 0, {})>>

CreateDiscount(g) ==
    Check \o Scopes \o When("customerSegments" \in g, Read("segments")) \o Preview
    \o Create("discountCodeBasicCreate", {"fields"} \cup g) \o Read("discount")

\* Reading the image file and posting it to the staged target touch no store.
UploadImage(g) ==
    Check \o Scopes \o Preview
    \o When("imageFile" \in g,
            <<Step("post", "imageFile", 0, {})>> \o Write("stagedUploadsCreate", {})
            \o <<Step("post", "stagedTarget", 0, {})>>)
    \o Create("fileCreate", g) \o Times(Polls, "poll", "file", {})

Metafields(g) ==
    Check \o Preview
    \o When("set" \in g, Write("metafieldsSet", {"set"}))
    \o When("delete" \in g, Write("metafieldsDelete", {"delete"}))

Redirects(g) ==
    Check \o Scopes \o Preview
    \o When("create" \in g, Times(Several, "item", "urlRedirectCreate", {"create"}))
    \o When("delete" \in g, Times(Several, "item", "urlRedirectDelete", {"delete"}))

\* update_order and update_customer.
UpdateFields(read, update, g) ==
    Check \o Scopes \o Read(read) \o Preview
    \o When(~Neither(g, {"fields", "replaceTags"}), Write(update, g \cap {"fields", "replaceTags"}))
    \o TagChanges(g) \o Read(read)

Tags(g) ==
    Check \o Preview
    \o When("add" \in g, Write("tagsAdd", {"add"}))
    \o When("remove" \in g, Write("tagsRemove", {"remove"}))

CreateFulfillment(g) ==
    Read("fulfillmentOrders") \o Preview \o Write("fulfillmentCreateV2", {"fields"} \cup g)

\* The reads whose result is sent with the mutation, besides the arguments.
Lookups == {"fulfillmentOrders", "segments"}

Plan(tool, g) ==
    CASE tool = "create_product"     -> CreateProduct(g)
      [] tool = "update_product"     -> UpdateProduct(g)
      [] tool = "create_collection"  -> CreateCollection(g)
      [] tool = "update_collection"  -> UpdateCollection(g)
      [] tool = "set_inventory"      -> SetInventory(g)
      [] tool = "create_discount"    -> CreateDiscount(g)
      [] tool = "upload_image"       -> UploadImage(g)
      [] tool = "metafields"         -> Metafields(g)
      [] tool = "redirects"          -> Redirects(g)
      [] tool = "update_order"       -> UpdateFields("order", "orderUpdate", g)
      [] tool = "tags"               -> Tags(g)
      [] tool = "update_customer"    -> UpdateFields("customer", "customerUpdate", g)
      [] tool = "create_fulfillment" -> CreateFulfillment(g)

Steps == Plan(args.tool, args.given)

\* The call is of a tool that sends what it looks up in the store.
LooksUp == args.tool = "create_fulfillment" \/ "customerSegments" \in args.given

\* The arguments the preview shows.
Shown(tool, g) ==
    CASE tool \in {"create_product", "create_collection", "create_discount"} -> {"fields"} \cup Used(g)
      [] tool = "set_inventory"      -> {"quantity"}
      [] tool = "create_fulfillment" -> {"fields"}
      [] OTHER -> g

-----------------------------------------------------------------------------
(* The state. *)

\* The mutations of the plan: the document, and which of several.
Mutations ==
    {<<Steps[i].op, Steps[i].n>> : i \in {j \in DOMAIN Steps :
        Steps[j].do \in {"write", "create", "item"}}}

Items == {"urlRedirectCreate", "urlRedirectDelete"} \X (1..Several)

\* compareQuantity and quantity of set_inventory; other tools have none.
Arguments ==
    UNION {[tool : {t}, dryRun : BOOLEAN, given : SUBSET Optional[t],
            from : IF t = "set_inventory" THEN Quantities ELSE {0},
            to   : IF t = "set_inventory" THEN Quantities ELSE {0}] : t \in Tools}

\* What is said of the last step; "partial" of those before it.
Outcomes == {"none", "failed", "unknown", "rejected_or_partial", "partial"}
Statuses == {"ok", "partial", "failed", "unknown"}

\* No answer yet.  listed: the answer names the completed mutations; items: the
\* redirects it names; notice: it asks to read back before a retry.
NoReply == [kind |-> "none", outcome |-> "none", status |-> "ok", listed |-> FALSE,
            items |-> {}, notice |-> FALSE]

Init ==
    /\ args \in Arguments
    /\ at = 1 /\ completed = <<>> /\ reply = NoReply
    /\ items = [i \in Items |-> "none"]
    /\ quantity \in IF args.tool = "set_inventory" THEN Quantities ELSE {0}
    /\ late = {} /\ ran = <<>> /\ keys = {} /\ clobbered = FALSE
    /\ calls = 1 /\ shown = {} /\ doubtful = {}
    /\ found \in IF LooksUp THEN Findings ELSE {{}}
    /\ lookedUp = {} /\ previewed = {} /\ sent = {} /\ present = {found} /\ changed = FALSE

-----------------------------------------------------------------------------
(* Shopify and the other users of the store. *)

Mutation == <<Steps[at].op, Steps[at].n>>

IsInventory(m) == m[1] = "inventorySetQuantities"

\* Mutant: every call makes up its own key.
FreshKey == <<"call", calls>>

\* The key of a call: the caller's own, or a new one.
IdempotencyKey ==
    IF "idempotencyKey" \in args.given THEN <<"caller", 0>> ELSE <<"call", calls>>

\* The quantity a change must find, which the call passes on.
ChangeFrom == args.from

\* Shopify changes an inventory level only from the quantity it is told.
Accepts(m) == IsInventory(m) => quantity = ChangeFrom

\* Shopify runs a mutation; a key that was used before changes nothing again.
Run(m, key) ==
    IF IsInventory(m) /\ key \in keys THEN UNCHANGED <<quantity, ran, keys, clobbered>>
    ELSE /\ ran' = Append(ran, m)
         /\ IF IsInventory(m)
            THEN /\ quantity' = args.to /\ keys' = keys \cup {key}
                 /\ clobbered' = (clobbered \/ quantity # args.from)
            ELSE UNCHANGED <<quantity, keys, clobbered>>

\* It does not run it, or refuses to.
NotRun == UNCHANGED <<quantity, ran, keys, clobbered>>

MayRun(m, key) ==
    \/ NotRun
    \/ (Accepts(m) \/ key \in keys) /\ Run(m, key)

\* A mutation whose request was given up runs later, or never.
RunLate(m, key) ==
    /\ <<m, key>> \in late
    /\ late' = late \ {<<m, key>>}
    /\ MayRun(m, key)
    /\ UNCHANGED <<call, calls, shown, doubtful, finds>>

\* Others sell and restock.
Restock ==
    /\ args.tool = "set_inventory"
    /\ \E q \in Quantities \ {quantity} : quantity' = q
    /\ UNCHANGED <<call, late, ran, keys, clobbered, calls, shown, doubtful, finds>>

\* They fulfill orders, and replace customer segments by others of the same name.
OthersEdit ==
    /\ LooksUp
    /\ \E f \in Findings \ {found} : found' = f /\ present' = present \cup {f}
    /\ changed' = TRUE
    /\ UNCHANGED <<call, shop, calls, shown, doubtful, lookedUp, previewed, sent>>

-----------------------------------------------------------------------------
(* The answer. *)

Running == reply.kind = "none"

\* fitWriteResult: the completed mutations and the items that were applied are
\* left out of an answer that is too long, never an item that was not applied.
Fitted(r) ==
    {r, [r EXCEPT !.items = {i \in @ : items[i] # "applied"}],
        [r EXCEPT !.items = {i \in @ : items[i] # "applied"}, !.listed = FALSE]}

\* The call ends with an error; what the error says of its own step takes the
\* place of what is said of the steps before.
Fail(outcome, done) ==
    /\ completed' = done
    /\ reply' \in Fitted(
         [NoReply EXCEPT
            !.kind = "error", !.listed = TRUE,
            !.outcome = IF outcome # "none" THEN outcome
                        ELSE IF done # <<>> THEN "partial" ELSE "none",
            !.notice = outcome = "unknown" \/ done # <<>>])
    /\ UNCHANGED <<args, at, items>>

Advance(done) ==
    /\ at' = at + 1 /\ completed' = done
    /\ UNCHANGED <<args, items, reply>>

Idle == UNCHANGED <<shop, calls, shown, doubtful, finds>>

\* A mutation carries what was looked up.
Sent == sent' = lookedUp /\ UNCHANGED <<found, lookedUp, previewed, present, changed>>

Doing(kinds) == Running /\ at <= Len(Steps) /\ Steps[at].do \in kinds

\* The store is not configured.
NoStore == Running /\ at = 1 /\ Fail("none", completed) /\ Idle

\* Where the legacy schema of a ruleSet is not there.
NoLegacySchema ==
    /\ Doing({"check"}) /\ "ruleSet" \in args.given
    /\ Fail("none", completed) /\ Idle

CheckArguments ==
    /\ Doing({"check"})
    /\ IF Conflict(args.tool, args.given) THEN Fail("none", completed) ELSE Advance(completed)
    /\ Idle

\* The preview ends a dry run; when it is too long, nothing of it is left.
ShowPreview ==
    /\ Doing({"preview"})
    /\ IF args.dryRun
       THEN /\ reply' \in Fitted([NoReply EXCEPT !.kind = "preview"])
            /\ shown' \in {Shown(args.tool, args.given), {}}
            /\ previewed' = IF shown' = {} THEN {} ELSE lookedUp
            /\ UNCHANGED <<args, at, completed, items>>
       ELSE Advance(completed) /\ UNCHANGED <<shown, previewed>>
    /\ UNCHANGED <<shop, calls, doubtful, found, lookedUp, sent, present, changed>>

-----------------------------------------------------------------------------
(* The requests. *)

\* The inventory level must be what the caller compares it with, and after the
\* change what the caller asked for.
Expected == IF Steps[at].do = "confirm" THEN args.to ELSE args.from

\* Mutant: what the preview found is not looked up again.
FoundBefore == IF previewed # {} THEN previewed ELSE found

\* Every call looks up anew, the one that applies a preview too.
FoundNow == found

\* What is found is kept for the mutation of this call, or for its preview.
Remember ==
    IF Steps[at].op \in Lookups
    THEN /\ lookedUp' = FoundNow
         /\ changed' = (changed /\ ~args.dryRun)
         /\ UNCHANGED <<found, previewed, sent, present>>
    ELSE UNCHANGED finds

ReadPasses ==
    /\ Doing({"read", "confirm", "post"})
    /\ Steps[at].op = "inventoryAt" => quantity = Expected
    /\ Advance(completed) /\ Remember
    /\ UNCHANGED <<shop, calls, shown, doubtful>>

\* The answer has no data or does not pass the handler's check: a scope, the
\* object or its state is missing, the change is not confirmed, the file failed.
ReadDoesNotPass ==
    /\ Doing({"read", "confirm", "post", "poll"})
    /\ Fail("none", completed) /\ Idle

\* Mutant: a request that failed did nothing.
ThrownFailed(do) == "failed"

\* What is said of a request without an answer: a mutation may have run.
Thrown(do) == IF do \in {"write", "create", "item"} THEN "unknown" ELSE "failed"

\* What is said of a request answered with errors: a mutation may have run in part.
WithErrors(do) == IF do \in {"write", "create", "item"} THEN "rejected_or_partial" ELSE "failed"

ReadFails ==
    /\ Doing({"read", "confirm", "poll"})
    /\ \E outcome \in {Thrown(Steps[at].do), WithErrors(Steps[at].do)} : Fail(outcome, completed)
    /\ Idle

\* The file is ready; or it is not, and is read again while readings are left.
FileReady ==
    /\ Doing({"poll"})
    /\ at' = Len(Steps) + 1
    /\ UNCHANGED <<args, completed, items, reply>> /\ Idle

FileProcessing == Doing({"poll"}) /\ Advance(completed) /\ Idle

\* A mutation answered with data and without errors is completed.
Answered ==
    /\ Doing({"write", "create"})
    /\ Accepts(Mutation) \/ IdempotencyKey \in keys
    /\ Run(Mutation, IdempotencyKey)
    /\ Advance(Append(completed, Mutation)) /\ Sent
    /\ UNCHANGED <<late, calls, shown, doubtful>>

\* The answer does not give the ID of what was created.
WithoutId ==
    /\ Doing({"create"})
    /\ Run(Mutation, IdempotencyKey)
    /\ Fail("none", Append(completed, Mutation)) /\ Sent
    /\ UNCHANGED <<late, calls, shown, doubtful>>

Rejected ==
    /\ Doing({"write", "create"})
    /\ MayRun(Mutation, IdempotencyKey)
    /\ Fail(WithErrors(Steps[at].do), completed) /\ Sent
    /\ UNCHANGED <<late, calls, shown, doubtful>>

\* An answer with neither data nor errors says nothing of the mutation.
NoData ==
    /\ Doing({"write", "create"})
    /\ MayRun(Mutation, IdempotencyKey)
    /\ doubtful' = doubtful \cup {Mutation}
    /\ Fail("none", completed) /\ Sent
    /\ UNCHANGED <<late, calls, shown>>

\* The document or its variables do not pass the schema: nothing is sent.
Invalid ==
    /\ Doing({"write", "create"})
    /\ Fail("none", completed) /\ Idle

\* No answer: a timeout, a network error, a throttled or unreadable response.
GiveUp ==
    /\ Doing({"write", "create"})
    /\ late' = late \cup {<<Mutation, IdempotencyKey>>}
    /\ Fail(Thrown(Steps[at].do), completed) /\ Sent
    /\ NotRun /\ UNCHANGED <<calls, shown, doubtful>>

-----------------------------------------------------------------------------
(* Redirects, each with its own outcome; the next one follows in any case. *)

\* Mutant: the outcome of the error is the outcome of the item.
AsIs(outcome) == outcome

\* failedItem: what the outcome of an error makes of the item.
FailedItem(outcome) == IF outcome = "unknown" THEN "unknown" ELSE "rejected"

ItemIs(outcome) ==
    /\ items' = [items EXCEPT ![Mutation] = outcome]
    /\ at' = at + 1
    /\ UNCHANGED <<args, reply>>

ItemApplied ==
    /\ Doing({"item"})
    /\ Run(Mutation, IdempotencyKey)
    /\ ItemIs("applied") /\ completed' = Append(completed, Mutation)
    /\ UNCHANGED <<late, calls, shown, doubtful, finds>>

\* An answer that leaves open whether the redirect was made or deleted.
MayHaveApplied ==
    \/ NotRun /\ UNCHANGED doubtful
    \/ Run(Mutation, IdempotencyKey) /\ doubtful' = doubtful \cup {Mutation}

\* Answered with errors, with or without data: Shopify may have run it.
ItemRejected ==
    /\ Doing({"item"})
    /\ MayHaveApplied /\ ItemIs(FailedItem(WithErrors("item")))
    /\ UNCHANGED <<completed, late, calls, shown, finds>>

\* Not valid and not sent, or answered without data.
ItemWithoutOutcome ==
    /\ Doing({"item"})
    /\ MayHaveApplied /\ ItemIs(FailedItem("none"))
    /\ UNCHANGED <<completed, late, calls, shown, finds>>

ItemGivenUp ==
    /\ Doing({"item"})
    /\ late' = late \cup {<<Mutation, IdempotencyKey>>}
    /\ ItemIs(FailedItem(Thrown("item")))
    /\ NotRun /\ UNCHANGED <<completed, calls, shown, doubtful, finds>>

Named == {i \in Items : items[i] # "none"}

\* deriveStatus, of the outcomes a redirect can have.
DeriveStatus(os) ==
    CASE os \subseteq {"applied"} -> "ok"
      [] "applied" \in os         -> "partial"
      [] "unknown" \in os         -> "unknown"
      [] OTHER                    -> "failed"

\* The last step is done: the result.
Finish ==
    /\ Running /\ at > Len(Steps)
    /\ LET status == DeriveStatus({items[i] : i \in Named})
       IN reply' \in Fitted(
            [NoReply EXCEPT !.kind = "result", !.listed = TRUE, !.items = Named,
                            !.status = status, !.notice = status \in {"unknown", "partial"}])
    /\ UNCHANGED <<args, at, completed, items>> /\ Idle

-----------------------------------------------------------------------------
(* The client. *)

\* It calls again, with the same arguments.
Call(dryRun) ==
    /\ calls < MaxCalls
    /\ calls' = calls + 1
    /\ args' = [args EXCEPT !.dryRun = dryRun]
    /\ at' = 1 /\ completed' = <<>> /\ reply' = NoReply
    /\ items' = [i \in Items |-> "none"]
    /\ lookedUp' = {} /\ sent' = {} /\ present' = {found}
    /\ UNCHANGED <<shop, shown, doubtful, found, previewed, changed>>

Apply == reply.kind = "preview" /\ Call(FALSE)

\* After an error that leaves no doubt that nothing was done; a change of
\* inventory with a key of its own, after any.
Again ==
    /\ reply.kind = "error" /\ ~args.dryRun
    /\ \/ reply.outcome \in {"none", "failed"} /\ ~reply.notice
       \/ args.tool = "set_inventory" /\ "idempotencyKey" \in args.given
    /\ Call(FALSE)

Next ==
    \/ NoStore \/ NoLegacySchema \/ CheckArguments \/ ShowPreview
    \/ ReadPasses \/ ReadDoesNotPass \/ ReadFails \/ FileReady \/ FileProcessing
    \/ Answered \/ WithoutId \/ Rejected \/ NoData \/ Invalid \/ GiveUp
    \/ ItemApplied \/ ItemRejected \/ ItemWithoutOutcome \/ ItemGivenUp \/ Finish
    \/ \E l \in late : RunLate(l[1], l[2])
    \/ Restock \/ OthersEdit \/ Apply \/ Again

Spec == Init /\ [][Next]_vars

-----------------------------------------------------------------------------
(* Properties. *)

TypeOK ==
    /\ args \in Arguments
    /\ at \in 1..(Len(Steps) + 1)
    /\ completed \in Seq(Mutations)
    /\ items \in [Items -> {"none", "applied", "rejected", "unknown"}]
    /\ reply.kind \in {"none", "preview", "error", "result"}
    /\ reply.outcome \in Outcomes /\ reply.status \in Statuses
    /\ reply.listed \in BOOLEAN /\ reply.notice \in BOOLEAN /\ reply.items \subseteq Items
    /\ quantity \in Quantities \cup {0} /\ calls \in 1..MaxCalls
    /\ \A l \in late : l[1] \in Mutations
    /\ ran \in Seq(Mutations)
    /\ shown \subseteq {"fields", "quantity"} \cup Optional[args.tool]
    /\ doubtful \subseteq Mutations /\ clobbered \in BOOLEAN

LookupTypeOK ==
    /\ found \in Findings \cup {{}} /\ present \subseteq Findings \cup {{}}
    /\ lookedUp \in Findings \cup {{}} /\ previewed \in Findings \cup {{}}
    /\ sent \in Findings \cup {{}} /\ changed \in BOOLEAN

HasRun(m) == m \in ToSet(ran)

\* A mutation that ran, or may still run.
MayHaveRun(m) == HasRun(m) \/ \E l \in late : l[1] = m

\* A change of inventory with a key of the caller's own.
OwnKey(m) == IsInventory(m) /\ "idempotencyKey" \in args.given

\* The answer keeps what was done and what is uncertain (docs/PARITY.md:61), at
\* whichever step the call ends, however late a lost mutation runs, and however
\* much of the answer is cut:
\* - every mutation that ran or may still run is a completed one, is the step of
\*   which the answer says that its outcome is open, or is a redirect with an
\*   outcome of its own;
\* - what is called completed or applied ran, and with completed mutations the
\*   answer asks to read back, even when it was cut and no longer names them;
\* - a redirect that is not named was applied, a rejected one did not run, and
\*   the status follows from what really ran;
\* - a dry run sends nothing, and a result means that the whole plan ran.
\* There are two exceptions, against which docs/PARITY.md:61 says that uncertain
\* outcomes are preserved.  A "doubtful" mutation ran although the code took its
\* answer for one that did nothing: it was answered without data, or it is a
\* redirect answered with errors, which failedItem calls rejected and so to be retried,
\* though Workflow.run said rejected_or_partial.  And of a change of inventory with
\* a key of the caller's own, an answer tells only what became of this attempt,
\* not of an earlier one with the same key.
ReplyTellsAll ==
    ~Running =>
      /\ \A m \in Mutations : MayHaveRun(m) =>
           \/ m \in doubtful
           \/ m \in ToSet(completed) /\ (reply.listed \/ reply.notice \/ reply.kind = "result")
           \/ m \in Items /\ items[m] = "unknown" /\ m \in reply.items
           \/ reply.outcome \in {"unknown", "rejected_or_partial"} /\ m = Mutation
           \/ OwnKey(m) /\ calls > 1
      /\ \A m \in ToSet(completed) : HasRun(m)
      /\ \A i \in Named :
           /\ items[i] = "applied" => HasRun(i)
           /\ items[i] = "rejected" /\ i \notin doubtful => ~MayHaveRun(i)
      /\ reply.kind = "result" =>
           /\ \A i \in Named \ reply.items : HasRun(i)
           /\ reply.status = "ok" => \A m \in Mutations : HasRun(m)
           /\ reply.status = "failed" => \A i \in Named \ doubtful : ~MayHaveRun(i)
      /\ reply.kind = "error" /\ completed # <<>> => reply.notice
      /\ reply.kind = "preview" => \A m \in Mutations : MayHaveRun(m) => m \in doubtful

\* The client that applies a previewed call sends what the preview showed, and
\* all of it once the call succeeds, with the exception of the tracking of a
\* fulfillment, which no preview shows.
\* What the tool looks up in the store besides, the open fulfillment orders or the
\* named segments, is looked up by the call that sends it: it is what the store
\* held during that very call, and differs from what the preview showed only when
\* others changed it since.  Then the "exact store and change" that was authorized
\* (README.md:291) is not what is applied, as no call compares the two.
PreviewIsApplied ==
    /\ shown # {} /\ ~args.dryRun =>
         LET given == UNION {Steps[i].with : i \in {j \in DOMAIN Steps :
                               <<Steps[j].op, Steps[j].n>> \in ToSet(completed)}}
         IN /\ given \subseteq shown \cup {"tracking"}
            /\ reply.kind = "result" /\ reply.status = "ok" => shown \subseteq given
    /\ LooksUp /\ completed # <<>> => sent # {}
    /\ sent # {} => sent \in present /\ (previewed \in {{}, sent} \/ changed)

\* A client that repeats only a call of which the answer says that nothing was
\* done never makes a mutation run twice, but for one whose answer was taken for
\* one that did nothing ("doubtful", see ReplyTellsAll); with a key of its own it
\* may repeat a change of inventory after any error, and the change still happens
\* once, even when the first attempt was lost and runs late, or was not answered
\* with data.  No change of inventory ever replaces a quantity other than the one
\* its caller compared.
RepeatRunsOnce ==
    /\ \A i, j \in DOMAIN ran :
         i # j /\ ran[i] = ran[j] => ran[i] \in doubtful /\ ~OwnKey(ran[i])
    /\ ~clobbered
===============================================================================
