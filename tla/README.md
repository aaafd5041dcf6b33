# Verification of shopify-multi-store

TLA+ models of the stateful parts of shopify-multi-store, the TLC runs that check
them, and TLAPS proofs of the safety properties that the runs check. Paths such as `hosted/oauth.ts` are
relative to the source directory `src/src/`; `docs/` is `src/docs/`.

The program is an MCP server for Shopify's Admin API. Locally it runs over stdio
with the operator's credentials. Hosted (Node, `serve.ts`, or a Cloudflare
Worker, `workers/app.ts`) it is also an OAuth authorization server: people sign
in with their Shopify staff account, AI apps get tokens of this server, and each
tool call acts with the caller's own Shopify token. Most mutable state, and most
of what is hard to test, is in the hosted part, so the models begin there; the
calls of the Admin API, the tools that change a store and the reports follow.

## Inventory

| Component | State it keeps | Operations | Talks to | What makes it correct |
| --- | --- | --- | --- | --- |
| Token endpoint and bearer check (`hosted/oauth.ts` 726-898) | store kinds `code`, `access`, `refresh`, `revoked_family` | code exchange, refresh, revocation, bearer check | the store; `hosted/app.ts` calls `verifyAccessToken` on each request | codes and refresh tokens are used once; a reused token kills its family, also the tokens stored after the revocation; sessions end |
| Sign-in and consent (`hosted/oauth.ts` 457-722, `hosted/shopify-connect.ts` 376-436, 692-711) | store kinds `pending`, `consent`; binding and consent cookies | authorize, chooser, Shopify callback, consent, code | browsers, Shopify | whoever ends up signed in is in the browser that began, through a store picked there, in time, once |
| Store connections (`hosted/shopify-connect.ts`) | store kinds `shopify_token`, `shopify_state`, `session`; the key ring | /stores page, connect, disconnect, Reconnect all, token use, re-encryption | browsers, Shopify, tool calls | nobody is connected who did not ask; states are used once; live tokens stay readable across key rotations; chains end; a disconnected store stays so, but for records a re-encryption puts back |
| Client registration (`hosted/oauth.ts` 309-397) | store kind `client` with a kept counter, hourly `counter` records | register, touch on use, idle expiry, sweep | Durable Object store | the counter is exact, the cap holds, idle clients go |
| File store (`hosted/store.ts`) | the map in memory, the file, a chain of flushes | put, take, claim, increment, delete; flush; open | the filesystem | an acknowledged change survives a crash, the file is never torn, every caller is answered |
| Durable Object store (`workers/do-store.ts`) | records, counter keys, alarm | the same operations, one at a time; sweep | Cloudflare storage | as above, and the counter agrees with the records |
| Admin API client (`shopify.ts`, `concurrency.ts`, `config.ts`) | a queue per token, a token cache, requests under way | queries with throttle retries, mutations | Shopify | one request at a time per token, a mutation is sent once, the cache follows the secret |
| Run action (`actions/*.ts`) | none across calls | preview, look up, apply on up to 100 stores, judge each root | Admin API client, audit | nothing is sent unless every store passed; outcomes never claim more than the answers show |
| Price updates (`parity-tools.ts` 44-470, `admin-workflows.ts` 20-117) | the outcome of each item while a call runs | look up SKUs, write by product, read back | Admin API client | nothing unasked is written; no item is called applied or rejected that is not |
| Multi-step tools (`admin-tools.ts`, the rest of `parity-tools.ts`, `media.ts`, `admin-workflows.ts`) | the completed steps, the outcome of each item and the idempotency key of one call | thirteen tools: checks, preview, several mutations, read back, a reply cut to size | Admin API client | the reply keeps what was done and what is uncertain; what is applied was shown, or is looked up anew; a repeat runs nothing twice |
| Limits of results (`result-limits.ts`) | none | cut a result in stages until it fits | the tools | what did not apply stays visible |
| Reports (`reports.ts`, `report-tools.ts`) | pages, cursors and failed stores of one call | read every store page by page, compare, conclude | Admin API client | complete where it says ok, however pages fall; no conclusion from a store that was not read; it ends |
| HTTP application, guard, audit log, Worker entry (`hosted/app.ts`, `hosted/guard.ts`, `hosted/audit.ts`, `workers/app.ts`, `workers/d1-audit.ts`) | the promise of the application, of a request's connections and of the log's directory or table; the queue of lines | set up, check the bearer, guard a call, write its lines | everything above | one line per call, and one more per run action; a failure is given to nobody who comes after it; every request is answered |
| Single-request reads, schema access, platform helpers | a schema cache | queries, formatting, fetching | Admin API client | pure functions of one answer |

How they interact: `hosted/app.ts` routes a request to a handler of `oauth.ts` or
`shopify-connect.ts`. Handlers share no locks. They meet only in the store
(`OAuthStore`), whose single operations are atomic, and every `await` on it lets
other requests run. `shopify-connect.ts` calls `takeLogin`, `completeLogin` and
`setLoginStore` of `oauth.ts`; a tool call reads the connections the callbacks
wrote. Browsers and Shopify deliver requests in any order and more than once.

What is hard in this code: read-check-write across awaits, two requests with one
secret, expiry between two reads of one request, records written back from stale
copies, crashes between filesystem calls, counters kept beside records, one step
of several failing, pages that move while they are read, promises that several
callers share. Each place is listed, with its line, under `hazards` in `PROJECT.json`.

## Modules

One module per component; each action is one store operation (or one stretch of
local code that reads the clock or branches) of one request in flight, so TLC
interleaves requests exactly where the code awaits. A request is a record `req[r]`
with a stage and the values it holds across awaits; `Leave` ends it at any await
(a failed check, a store call that threw, a dead process, a lost answer).

| Module | Stands for | Correspondence |
| --- | --- | --- |
| `TokenFamilies` | token endpoint, bearer check | `TakeCode`, `BeginFamily` = `authorizationCodeGrant`; `PutAccess`, `PutRefresh`, `Respond` = `issueTokens`; `GetRefresh`, `ReadFamily`, `CheckRefresh`, `ClaimRefresh`, `AfterClaim` = `refreshTokenGrant`; `PutMarker`, `DeleteMatching` = `revokeFamily`; `GetAccess`, `CheckAccess`, `ReadFamily` = `verifyAccessToken` |
| `TokenFamiliesProofs`, `AdminApiProofs`, `RunActionProofs`, `SignInProofs`, `ConnectionsProofs`, `UpdatePricesProofs` | theorems about the module each is named for | see Proofs |
| `ServerStoresProofs`, `ToolCallsProofs` | theorems about `FileStore`, `ClientRegistry` and `HostedCalls`, and about `MultiStepTools` and `Reports`, alone and composed | see Proofs |
| `DurableStore` | what a store promises | abstract specification: a change, a save, an answer, a crash |
| `FileStore` | `FileStore`, `writeFileDurable` | `Change` = `changed`; `BeginFlush`, `FlushNothing`, `Settle` = `flush` and its chain; `TempStep`, `Rename`, `SyncDirectory`, `Throw` = `writeFileDurable`; `Restart` = `FileStore.open` |
| `SignIn` | sign-in with Shopify, consent | `Begin` = `authorize`/`startPageSignIn` with `beginLogin`; `Choose`, `SetGet`, `SetPut` = `chooseLogin`, `setLoginStore`; `Peek`, `Take`, `Exchange`, `OpenSession`, `AskConsent` = `callback`, `takeLogin`, `loginCallback`, `completeLogin`; `GetConsent`, `TakeConsent`, `IssueCode` = `consent`, `issueCode`; `Respond` = what the answer's cookies do to the browser |
| `Connections` | /stores, connections, key ring | `Post`, `DeleteToken`, `DeleteSession`, `Start` = `action`, `connect`, `startConnection`; `TakeState`, `CheckSession`, `Exchange`, `Save`, `Scan` = `connectionCallback`, `saveToken`, `nextUnconnected`; `SignedIn`, `OpenSession` = the end of a sign-in; `Load`, `Use`, `Reencrypt` = `accessFor`, `decryptStored` (`Outdated`: under an older key, or in the v1 format); `AddKey`, `DropKey` = the operator's rotation |
| `ClientRegistry` | registration, counted kind of the Durable Object | `Count`, `Increment`, `PutClient` = `register`; `GetClient`, `Touch` = `resolveClient`; `StorePut`, `Adjusted`, `Alarm` = `put`, `adjustCount`, `alarm`; `DieDeleted`, `DieCounted`, `DieUnscheduled` = the object dies between two storage writes of `all`, `live` or `put` |
| `AdminApi` | calls of the Admin API by one process | `Begin`, `ReadSecret`, `GrantToken`, `RefuseToken`, `TokenArrives` = `getAccessToken`, `getClientCredentialsToken`, `requestClientCredentialsToken`; `JoinQueue`, `Send`, `Release` = `serializeStore`; `TakeAnswer`, `Throttled`, `Retry`, `Fail` = `adminGraphqlWithToken`, `graphqlRequest` |
| `RunAction` | one call of `shopify_run_action` or `shopify_graphql_mutation` | `Start` = `resolveStoreTargets`, `actionPolicyError`; `Preflight`, `Decide`, `Lookup`, `LookedUp` = the checks before an apply and the dry run; `Send` = `mapConcurrent`; `SendUnchecked` = the handler of `shopify_graphql_mutation`; `Answer`, `TurnDown`, `GiveUp` = what becomes of the mutation, with `Verdict`, `StoreOutcome` = `evaluateOutcome` and `VerdictOfShape` = `evaluateOutcomeStructural`, where no schema says which field holds the errors |
| `UpdatePrices` | one call of `shopify_update_prices` on one store | `CheckAccess` = `requireScopes`, `dedupeSkuEntries`; `FindIds`, `ReadVariants` = `findVariantIdsByExactSku`, `findVariantsByExactSku`; `LookedUp`, `Send`, `Verify`, `ReadBack`, `ReadFails`, `Report` = `updatePricesCore`; `Answer`, `GiveUp` = how `Workflow.run` ends; `Status` = `deriveStatus` |
| `MultiStepTools` | one call of one of thirteen tools, its repeats and the apply after a preview | a tool is its plan (`Plan`: the steps of its handler in order, `CreateProduct`, `UpdateProduct`, ...); an action is what becomes of a step, whichever tool it is of: `CheckArguments`, `ShowPreview`, `ReadPasses`, `ReadFails`, `Answered`, `WithoutId`, `Rejected`, `NoData`, `GiveUp` = `Workflow.run` and its callers; `Remember`, `Sent` = the fulfillment orders and segments that a call looks up and sends, `OthersEdit` = others change them; `Item...`, `DeriveStatus` = the redirects; `Fitted` = what `fitWriteResult` leaves of their answers; `RunLate` = a request that was given up runs |
| `ResultLimits` | a result of `shopify_update_prices` that is too long | `Slim`, `Summarize`, `DropSummaries`, `Shorten`, `Identity` = the stages of `applyStage`; `Minimal` = the last resort of `fitWriteResult`. Sizes are not modelled: after any stage the result may fit |
| `Reports` | one call of `shopify_report` | `ReadPage`, `StrayPage`, `Turn` = `paginatedConnection`; `ReadRows`, `ReadNothing`, `ReadErrors` = a query of one page, or an answer in part; `ReadVariants`, `StrayVariants` = `completeCatalogVariants`; `StoreFails` = a store's error; `EndRound` = the next round, or the end; `Consistent`, `MissingStores`, `TransferComplete`, `Opportunities` = the conclusions |
| `HostedCalls` | a POST to /mcp and its tool calls, around the tools | `Arrive`, `SetUp`, `SetUpFails` = the application's promise in `workers/app.ts`; `Authorize`, `Unauthorized`, `CheckFails`, `Respond` = `handleMcp`; `Load`, `LoadFails`, `Changes`, `AuditCall` = the guard; `AuditAction` = the line that `shopify_run_action` writes, whether it ran, was refused or was a dry run; `LogReady`, `Logged`, `AppendFails`, `DirectoryFails` = `FileAuditLog`; `TableFails`, `InsertFails` = `D1AuditLog` |
| `ServerStores` | composition | `FileStore`, `ClientRegistry`, `HostedCalls`: what a server keeps; one of them runs in a behaviour, the others rest |
| `MCToolCalls` | composition, with the contents of its TLC instance | `MultiStepTools` or `Reports`: a call is of one tool |
| `MCUpdatePrices` | composition | `UpdatePrices` or `ResultLimits`: a call, or the cutting of a result |
| other `MC...` | TLC instances | symmetry sets, the order of stores, the request of each call |

Composition: the modules meet at one record each. `SignIn` ends in a code, where
`TokenFamilies` begins (a code is in the store), and in a verified person with a
store, which is `SignedIn` of `Connections`. `FileStore` and the Durable Object
are what makes one store operation one action in the other three. `RunAction` sees
of a request what `AdminApi` ends it with: data, throttled and not run, or an error
after which it may still run (`GiveUp`, `RunLate`); `RunsOnce` of `AdminApi` is what
lets it send each mutation as one request that runs at most once; `UpdatePrices`,
`MultiStepTools` and `Reports` see of a request the same. `HostedCalls` sees of a
tool that it changed a store or did not, of the bearer check that it passed or not,
and of the load of connections that it came or failed. They are checked apart
because their products are out of reach and they share no other state; `ServerStores`,
`MCToolCalls` and `MCUpdatePrices` put parts that never run in one another's way into one run, as a
disjoint sum, not a product.

Abstractions. Secrets, emails, stores and keys are model values; a check on a
client, resource, redirect URI, PKCE, HMAC or CSRF is whether it passes. A failed
check that changes nothing is `Leave`. Ciphertexts are named by the key they were
made with. The contents of the file are the number of changes it holds, since
each save is of the whole data. In `ClientRegistry` the clock is what it does: a
client expires, an hour ends, the alarm fires. In `AdminApi` a token is either
within five minutes of its end or not, and in `RunAction` the rules that find a
document destructive or its targets not listable are what they find. In
`MultiStepTools` arguments are given or not, and only the quantity of an inventory
level, and the fulfillment orders or segments that a tool looks up, have values; in
`Reports` a record is a variant with one value, which stands for its price or its
quantity; in `HostedCalls` an audit line is who it is of and
which event. Expired records are hidden, as the
store's `live` hides them. What audit lines say, logging and HTML are left out.

Variables after the mark `(* history *)` record what happened and are read by
properties only, never by a guard of the code's steps (`asked`, `opened`,
`began`, `start` and `parent` keep secrets fresh).

## Runs

Every property is explained above its definition. Bounds are constants of the
configurations: `MaxTime`, `MaxChanges`, `MaxKeys`, `MaxHour` end the clock and the
counters; the sets bound the secrets that can be drawn in one behaviour.

| Run | Question | Bounds and why they are enough |
| --- | --- | --- |
| `token_families` | single use, reuse detection, revocation, end of sessions | two requests, two codes and families, four tokens (a sign-in and one rotation of both kinds, or two sign-ins), time to 3 with lives 1, 2 and a session of 2: every record expires, and a marker outlives its session. A race of two requests on one token needs no more; a third adds only a second loser. 2.3 million states |
| `stores` | what a server keeps: durability of the file, and `FileStore` implements `DurableStore`; counter, cap and sweep of the clients; one audit line per call, no failure kept, every request answered | File: three callers (one write in flight, one queued, one coalesced), four changes; every call may throw, kills anywhere, power losses where directories can be synced. Registry: cap 2, four client ids, two requests (each can overshoot the cap while the other does), two hours, one death between two writes, any store an earlier version could leave. Calls: two POSTs, one with two calls, so that calls share connections, requests share the application and lines queue; one of them of `shopify_run_action`; every set-up and write may fail, one kill. 0.24 million |
| `tool_calls` | the answer of a tool of several steps, previews, repeats; pages, conclusions and end of a report | Tools: all thirteen with every set of optional arguments, two redirects or publications, two polls of a file, quantities 0 to 2, one or two things to find where a tool looks something up (`Findings`), so that others add or take away one of them between any two steps; three calls (preview, apply, repeat). Reports: two stores of three variants, two of one SKU and one of another, page size 1, so that a product has a second page of variants; five initial contents, one change by others, cursors that repeat or go astray. 0.55 million |
| `sign_in` | who ends up signed in, where, through what, when | two browsers, one sign-in, two stores, two requests, two consent ids, time to 2, where the sign-in and the consent expire. Sign-ins meet only in the browser's cookies, and these are per sign-in, so one is enough for its own safety. 5.3 million states |
| `sign_in_single_use` | the comment that the state is single use | violated: see Findings |
| `connections_people` | whose connection it is, single-use states | two people, sessions and states, one store, two requests. 3.0 million |
| `connections_chain` | Reconnect all moves on | one person, two stores, one of which may hold a record in the v1 format (`Inherited`), partial grants, two requests. 3.8 million |
| `connections_rotation` | live tokens stay readable, what can revive a disconnected store | two keys, one person and store, with or without a record in the v1 format from before the upgrade (`Inherited`), time to 3 so that a day passes after the rotation. 3.1 million |
| `connections_disconnect` | a disconnected store stays disconnected | violated |
| `admin_api` | token, queue, retries; every call ends | two mutations and a query, so that a queue has one running, one behind and one that joins late; two client secrets, two tokens, one retry. 0.95 million |
| `run_action` | nothing before every check, safe reports, once per shop | two stores and shops, two roots (partial outcomes need two), one worker, one edit of the stores file; for the unchecked mutation every shape an answer can have (errors in a list, beside an empty list, messages that are no errors). 0.66 million, up to symmetry |
| `update_prices` | what is written, and what is said of it, also when the result is cut | two SKUs and variants on one or two products, so that a SKU can have both variants, a variant can be found under both SKUs, and one write can go wrong after another; read back one by one, so that a later read fails after an earlier one. Renames and prices change at any time, and an answer may name variants that were not changed. Limits: one store or two, two SKUs with any outcome, so that a store is mixed, and stores differ; every stage. 0.63 million, up to symmetry |

`CHECK_DEADLOCK FALSE` is set where the clock's bound, or running out of secrets,
requests or calls, ends a behaviour that the code would continue.

Some properties have several parts, each of them about one story: `RotationIsExact`
is `SingleUse` (a code or refresh token is acted on once) and `RevokedForCause`;
`RevocationIsFinal` is `NoIssueAfterRevocation`, `LateAcceptOnlyPastEnd` and
`MarkerOutlivesTokens`; `SignedInRightly` (browser, store and time of who ends up
signed in) and `PendingGuarded` are about `SignIn`; `ServedInTurn`, `SharedToken`
are about the queue and the token of `AdminApi`; `RegistryCounts` is `CounterExact`
and `CapHolds`.

Each property of a passing run has a mutant in its module: an operator, marked
`Mutant:`, that changes a definition the way a plausible bug would (the check of
the cookie dropped, the marker living only a minute, the temporary file not
synced) and makes TLC find the property violated.

## Fairness

Five liveness claims are made (`NothingWaitsForEver` makes two); no safety property
needs fairness.

- `FileStore`: `WF_vars(Flush)`. A promise chain goes on when its head settles, and
  filesystem calls return or throw. With it TLC checks that every caller is
  answered, as `DurableStore` requires of `Answer`. Kills and power losses end
  their callers with the process.
- `ClientRegistry`: `WF_vars(Alarm)`. A scheduled Durable Object alarm fires, and the
  platform retries it until it succeeds. Requests, expiries and clients' uses
  have no fairness.
- `AdminApi`: `WF_vars(Step(c))` for each call: the keychain answers, promises and
  timers settle, and each request is aborted after 30 seconds if it has no answer.
  Shopify (`Serve`) has no fairness. A call makes one of these steps at a time, so
  fairness of their disjunction is that of each.
- `Reports`: `WF_vars(EndRound)`, and `WF_vars(Request(s))` for each store: a request is
  answered or given up (that is what `AdminApi` shows), and the stores of a call are
  read at once. What the answers are, cursors that repeat or go astray included, and
  what others change, is not constrained.
- `HostedCalls`: `WF_vars(Step)`. The process goes on as long as it has something to do:
  promises settle, tools return or throw, writes succeed or fail. Which of them goes on is
  free; that suffices because every step brings its request nearer to its end. Requests
  arrive, and kills happen, without fairness.

## Findings

Two statements of the code's comments or docs that the code does not keep,
each with the run that shows it. Both need a narrow race.

- A pending sign-in can be consumed twice: the chooser reads the record, the
  callback consumes it, the chooser puts it back with its store
  (`sign_in_single_use`). `SignedInRightly` and `PendingGuarded` hold all the same:
  only the browser that began can do it, and no later than the record's own expiry.
- A disconnected store can come back: a tool call read the record before, and
  re-encrypts it after a key rotation (`connections_disconnect`).
  A record in the v1 format, from before keys had ids, counts as outdated without any
  rotation (its key id is never that of the first key), and is put back in the same way.
  `RevivedOnlyIfOutdated` shows that these are the only ways.

Narrower gaps are the named exceptions of properties that hold; each property says
that nothing else goes wrong.

- A bearer check of a revoked token can succeed once at the very end of the
  session: the token is found unexpired, the session ends, and the marker,
  which lives as long, is then looked for. `RevocationIsFinal`, proved, says that
  nothing worse can happen.
- A price write that Shopify answers without the data of a variant it did change (no
  `data`, or an empty field with an error) is reported as rejected, as if it could be
  sent again; `shopify_run_action` calls the same answer unknown (`ResultIsTrue`,
  `omitted`). The other tools leave such a mutation without any outcome
  (`ReplyTellsAll`, `doubtful`).
- A redirect that is answered with errors may have been made: `Workflow.run` says
  `rejected_or_partial`. `failedItem` looks only for `unknown` and calls it rejected, and
  `itemSummary` asks to retry rejected items; docs/PARITY.md:61 says uncertain outcomes are
  preserved (`ReplyTellsAll` and `RepeatRunsOnce`, `doubtful`).
- An answer about an inventory change with a key of the caller's own is about this attempt
  only: an earlier one with the same key may have changed the level (`ReplyTellsAll`, `OwnKey`).
- The last two stages of `fitWriteResult` keep, of several stores, the stores without their
  items, although every item that did not apply is to be "always kept" (`result-limits.ts` 189;
  `FailuresStayVisible`).
- `shopify_graphql_mutation` judges an answer by its shape. A payload with messages that
  are no errors reads as rejected though it ran, and an empty list of errors beside
  the list that has some reads as applied though it was refused (`CheckedFirst` and
  `ReportIsSafe`, `misshown`).
- A Durable Object that dies between the counter and the record leaves the counter too
  high for ever, so that the server is full a client too early (`RegistryCounts`, `drift`);
  one that dies before it scheduled its first sweep sweeps nothing until the next put
  (`NothingWaitsForEver`, `unswept`).
- A failed `mkdir` of the audit log's directory is kept (`ready ??= mkdir`), so all later
  lines fail until the server restarts; the log in D1 tries again (`FailureNotKept`). And a
  line that was torn takes the next one with it, as it is appended to the piece.
- The preview of `create_fulfillment` shows no tracking. It fulfils what is open when it is
  applied, and `create_discount` looks up its segments again; neither compares what it finds
  with what the preview showed, so the "exact store and change" the user authorized
  (`README.md` 291) can be another one (`PreviewIsApplied`).
- `EveryCallAudited` asks no `action_run` line of a run action whose connections could not be
  read, as the tool never ran; and a call whose arguments the SDK refuses has no line at all,
  as the guard is inside the SDK's handler.
- A report that reads one page takes an answer with neither data nor errors as an empty,
  complete page (`PagesComplete`, `blank`); cursors that are wrong, and new each time,
  cannot be noticed (`strayed`). Cursors are finite in the model: only the character limit
  of a report ends a store that makes up a new one for every page.

Read in the code while modelling, outside what any property says: the last stage of
`fitWriteResult` drops previews; the key that `set_inventory` generates is not
in a reply whose outcome is unknown, so the caller cannot repeat with it;
`update_collection` accepts `ruleSet` together with `addProductIds`; in `create_product` a
price overrides options; a low-stock report can say `complete` although its first round
missed a store (`ClaimsTrue` asks that this round was ok, too); a comparison keeps the
part of an answer that came with errors, so a store that failed in part can be called
consistent; the third fallback of `auditLine` drops `argsSha256`, which docs/HOSTED.md says
stays; `decryptStored` says that a token could not be decrypted also when only the put of
its re-encryption failed.

## Proofs

`TokenFamiliesProofs` proves for all values of the constants, hence for any
number of requests, tokens, families and any lifetimes, from
`FamiliesAssumption` (lifetimes are natural numbers, `None` is no secret, and no
authorization code is also a token: both are fresh random strings):

| Theorem | Property |
| --- | --- |
| `TypeCorrect` | `TypeOK` |
| `MarkerOutlivesTokensHolds` | `MarkerOutlivesTokens` |
| `NoIssueAfterRevocationHolds` | `NoIssueAfterRevocation` |
| `LateAcceptHolds` | `LateAcceptOnlyPastEnd` |
| `RevocationIsFinalHolds` | `RevocationIsFinal`, which joins the three above |
| `ReuseKillsFamilyHolds` | `ReuseKillsFamily` |
| `SessionsDoNotSlideHolds` | `SessionsDoNotSlide` |
| `RotationIsExactHolds` | `RotationIsExact` |

None of these is inductive alone. The invariant `IInv` adds to `TypeOK`:

- `SessionsAgree`: every record, and every request past its lookup, carries the
  family and the start that its sign-in was given, and expires within that
  session. So all tokens of a family agree on when the session ends.
- `MarkersLast`: the marker of a revoked family lives at least to that end. With
  `SessionsAgree` this gives `MarkerOutlivesTokens`, whoever stores tokens late.
- `LateRequests`: a request whose lookup found a family already revoked is still
  before the marker check, or was stopped by it, or (only a bearer check) is past
  the session's end. The last case is why the bearer check needs a weaker
  statement: a refresh checks the age again after the marker, a bearer check does
  not.
- `MarkerFirst`: a request that deletes a family's tokens has written the marker.

`InitInv`, `TypeStep`, `StrengtheningStep` and `InvStep` make `IInv` inductive, one
step per action; `InvImplies` derives the properties.

`RotationIsExact` needs a second invariant, `RInv`, inductive given `IInv`:

- `Redemption`: tokens come only from a secret that was spent (`SpentFirst`), no two requests
  that are past its take or claim hold the same one (`OneWinner`), and what that one request
  has stored so far is what its stage says (`IssuedSoFar`). So a secret has one pair of
  tokens at most (`OneOfAKind`).
- `Causes`: whoever finds a token claimed, or is not alone with one, presents it again
  (`CameBack`), so that a marker is put only for a reuse or for age (`CauseFirst`).

`RStep` goes through the actions; `Unspent`, `TakeCodeStep`, `WonStep` are the steps in which
a secret changes hands.

`AdminApiProofs` proves the safety properties of `AdminApi` for any number of calls,
secrets, tokens and retries, from `AdminApiAssumption` (the bounds are natural numbers,
there is a secret, `None` is no call): `TypeCorrect`, `InOrderHolds`,
`TokenFollowsSecretHolds`, `SingleFlightHolds`, `NothingLeftBehindHolds`,
`RunsOnceHolds`, and from these `ServedInTurnHolds` and `SharedTokenHolds`. Its invariant `IInv` has three independent parts besides `TypeOK`:

- `TokenInv` follows a token through its copies: cache, answer and call agree with
  `issued`, a call that waits read the same secret as the one it waits for, and
  `asked` holds exactly the requests without an answer. The last gives `SingleFlight`,
  the others `TokenFollowsSecret`.
- `QueueInv` says why a chain of promises is a queue: calls in one line are ordered by
  `ahead`, a call that waits for `p` has ahead of it `p` and whoever is ahead of `p`
  (`WaitsForAll`), and the tail has everyone else ahead of it (`TailIsLast`). So when
  `p` gives up its place nobody is ahead, and dropping the queue of the last in line
  loses no one.
- `RunInv`: a mutation is sent once, and has not run while its request is unanswered,
  refused or throttled.

`TypeStep`, `TokenStep`, `QueueStep` and `RunStep` prove each part preserved.

`RunActionProofs` proves the safety properties of `RunAction` for any number of stores,
shops, mutation fields and workers, from `RunActionAssumption` (the aliases are finite,
there is a field and a worker, `None` is no shop): `TypeCorrect`, `CheckedFirstHolds`,
`ReportIsSafeHolds` and `OncePerShopHolds`. Its invariant `IInv`:

- `PhaseOrder` says what each phase may rely on, and `RequestsAllowed` that a request
  that exists was allowed and still is. Records are deleted while requests are out, so
  what stays true is that the record was there when the call began
  (`records \cup deleted`); this is all `CheckedFirst` promises.
- `PlansTrue` ties a plan to the file it was read from, `ShopsCompared` to the
  comparison of shops made before it. Both hold only until the file is edited, which is
  why `OncePerShop` has the same exception.
- `RequestsTrue`: nothing ran for a request that Shopify has not taken, and a request
  whose answer is lost is reported unknown. So one that runs late contradicts nothing.

- `OneUnchecked`: an unchecked mutation goes to the one store it names.

`JudgedRight` proves the verdicts on the fields of one answer right, `ShapeJudgedRight`
those that are made by shape alone, outside the cases of `misshown`; `TypeStep`,
`OrderStep`, `PlansStep`, `ShopsStep` and `ReportStep` prove the parts preserved.

`ServerStoresProofs` proves what a server keeps, part by part and then together:
`StoresTypeCorrect`, `StoresRegistryCounts`, `StoresAckedIsDurable`, `StoresEveryCallAudited`,
`StoresFailureNotKept` and `StoresImplementSafely` are the theorems of the composition
`ServerStores`, from the invariant of each part and the fact that a part that does not run
rests as it began.

Of `ClientRegistry`, `RegistryCountsHolds` and `RegistryTypeCorrect`, for any number of clients
and requests, any limits, and any number of deaths of the Durable Object, from
`RegistryAssumption` (limits are natural numbers, there is a place for a client, both sets are
finite, there is a request, `None` is neither a client nor a state). The invariant adds to
`TypeOK`:

- `CounterExact` itself, with `NoDriftBefore`: nothing drifts before the counter is built,
  so that building it makes it exact. `PutCounts` and `DropCounts` say what a put and a
  sweep do to the number of stored clients, `CounterMoves` that an adjustment by as much
  keeps the counter exact and never meets its lower bound 0.
- `CapKept`: `CapHolds` alone is not inductive, because a touch puts back a client that was
  swept after it was read. So clients that are about to be touched count as stored. A
  request that registers then ends with at most one more (`CapMoves`), and one begins only
  when the counter, which is no lower than the number of stored clients, is below the
  cap: as each request either registers or touches, `CapStarts` needs nothing else.

Of `FileStore`, `FileTypeCorrect`, `FileAckedIsDurable` and `FileImplementsSafely`, for any
callers, any number of changes and any choice of the filesystem, without an assumption.
`FileImplementsSafely` is the refinement of `DurableStore` without fairness: the initial states
map to initial states and each step to a step of the store that was promised, or to a stutter.
The mapping is that of `Implements`; that every caller is answered, which needs fairness, stays
with TLC. The invariant says what has reached the disk at each stage of a flush:

- `Kernel`: a restart finds no more than the map held, what the path names is no older than
  what a power loss leaves of it, and both were synced.
- `Writing`: the data being written holds the change of the caller at the head of the queue
  and replaces nothing newer; it is synced before the rename.
- `Coalesced`, `Queue`: if nothing is dirty and a flush is still queued, the one before it
  wrote all; callers wait once each, for changes the map holds. `AckedIsDurable` alone is
  not inductive, because a queued caller may be answered without a write of its own.

Of `HostedCalls`, `HostEveryCallAudited` and `HostFailureNotKept`, for any requests, calls and
kills, from `CallsAssumption` (a call comes in one request, and none is a request itself). A
line is written after its writer reached it and is accounted for after its writer has gone on,
so the invariant `HostInv` follows both ends of the queue:

- `CallsGoOn`: a call changed a store, or lost its connections, only after it loaded them, and
  only a run action is at a line of its own. So a run action that ended either had no
  connections (`unloaded`) or went by that line, whatever it did.
- `WritersWait`: the lines in the queue are different ones, and the writer of each still waits.
  So a line that leaves the queue, into the log, the console or a report, is accounted for
  before its call goes on (`CallsAccounted`), and a kill, which empties the queue, loses only
  lines of calls that are lost with it.
- `LogPast`: a line of the log is one whose writer went on or died. With `WritersWait` no line
  is written twice, and that of an action stands before that of its call.
- `NobodyJoinsFailed`: who waits for a shared promise came before it failed; only the
  directory of the file log stays failed, which is the exception of `FailureNotKept`.

`SignInProofs` proves `TypeCorrect`, `SignedInRightlyHolds`, `OneCodePerConsentHolds` and the
action property `PendingGuardedHolds`, for any number of browsers, sign-ins, consents,
stores and requests, from `SignInAssumption` (lifetimes are natural numbers and `None` is no
record). `IInv` adds to `TypeOK`:

- `PendingKept`: a pending sign-in that is there, put back or not, expires as it did when it
  began, and its store was picked by its beginner. This is what makes the double use of a
  pending sign-in (see Findings) harmless.
- `BrowsersBound`, `ConsentsRight`: only the browser that began holds the binding cookie, and
  only the browser a consent is bound to sees its screen, whatever answers arrive late.
- `CodesFinal`, `OneIssuer`: a consent that gave a code is gone for good, and two requests
  never issue for one consent.
- `RequestOK` says of a request at each stage what it checked before the last await
  (`OnLogin`, `OnConsent`, `OnReturn`), and that it still holds.

`ConnectionsProofs` proves `TypeCorrect`, `OnlyOwnConnectionsHolds`,
`LiveTokensReadableHolds`, `RevivedOnlyIfOutdatedHolds` and the action property
`ChainMovesOnHolds`, for any number of people, stores, sessions, states and requests and any
number of rotations, from `ConnectionsAssumption` (the stores are a sequence, lifetimes are
natural numbers, there is a key, scopes are asked for again no later than a token lives,
`None` is no record, v1 records belong to people and stores there are). `IInv` adds to `TypeOK`:

- `Readable`, of every stored token and of every token a request holds: it was granted for a
  day, not later than now; under an older key or in the v1 format it was granted before the
  last rotation; and its key is configured unless it has ended. The first part gives the
  second when a key is added, the second the third when one is dropped. It is needed of
  requests because they save and re-encrypt later.
- `StatesOK`: a state that is kept was asked for once and is not redeemed, and names a
  connection its person began; `OnCallback` carries that through the callback's awaits.
- `Old`, of a token that a request is about to re-encrypt: it was granted before the last
  rotation, and if there was none, it is one of the v1 records there were in the beginning.
- `MadeOK`: a connection that was cut is gone, or an old record of it was put back; one that
  was made and not cut is kept. `RevivedOnlyIfOutdated` is a part of it; `ChainMovesOn` follows,
  as a connection that is missing or partial, though it was just made, was cut or replaced by
  an older record.

`UpdatePricesProofs` proves `TypeCorrect`, `OnlyAsAskedHolds` and `ResultIsTrueHolds` of
`UpdatePrices`, for any SKUs, variants, products, values and batch size, from
`UpdatePricesAssumption` (finitely many variants, batches are not empty, `None` is nothing
else). `IInv` adds to `TypeOK`:

- `FlowOK`, `ReachedOK`: nothing runs, may run or is sent before all SKUs are looked up, and
  which outcomes an item can have at each phase.
- `ItemsFound`, `OnePerSku`: an item is there because its SKU was resolved, and a SKU has one
  item unless the caller allows more, although variants are renamed between its two reads
  and between the lookups. `AtMostOne` turns the size of a finite set into this.
- `WritesOK`: a write that was given up stays unknown, so that it contradicts nothing when it
  runs late, and one that ran is not reported otherwise, but for those left out of an answer.
  Of one that is named in an answer it says nothing, as an answer may name what did not change.
- `ReadingsOK`: what a variant was read back with, it held after the writes.
- `SeenOK`, inductive given `IInv`: what is called a mismatch was seen with another value, or
  was gone. While the call reads back, each accepted variant is unread, read or deleted.

`StatusIsTrue` derives the status of the store from these.

`ToolCallsProofs` proves `CallReplyTellsAll`, `CallPreviewIsApplied`, `CallRepeatRunsOnce` and
`ToolsTypeCorrect` for all thirteen tools with every set of optional arguments, any number of
items, polls and calls, from `MultiStepToolsAssumption` (each of them at least one; quantities
are natural numbers, what is found is not nothing). It has two halves.

The first is about plans. `GoodPlan` says what the second needs of one: no mutation is in it
twice, nothing is sent before the preview, and it sends exactly the arguments that the preview
shows (`create_fulfillment` also its tracking). `Searches` says of a plan that looks something up
that it does so before any mutation. A plan is put together of single steps, steps
under a condition and repeated steps; `JoinFacts`, `WhenFacts`, `TimesFacts`, `PreviewAfter` and `Then`
say what each way of doing so keeps, so that the plan of a tool (`CreateProductPlan`, ...) takes
one line for each of its steps, and `PlanGood` is all of them. The second is the invariants
`CallInv` and `LookupInv`, which know of a tool only that its plan is good and searches:

- `Progress`: at a step of the plan, the mutations before it are those that were answered,
  item by item for the redirects, and none after it was. What `CallPreviewIsApplied` says of a
  success follows, with `ShownWhole`, when the plan is at its end.
- `Known`: a mutation that ran, or may still run late, is among those that were completed or
  are uncertain, or is the one the call stopped at, or was sent by an earlier call under the
  same key, or is `doubtful`: its answer had no data, or errors and it is a redirect.
  `ReplyTellsAll` alone is not inductive: while the call goes on there is no reply yet.
- `RejectedNotRun`, `DryRunSendsNothing`, `AnswerTrue`: what the reply denies did not happen
  unless it is `doubtful`, and a reply is derived from the outcomes and from nothing else.
- `KeysUsed`, `RunsOnceMore`: the caller's key is used once its change of inventory ran, and
  whatever may still run of that change carries it. Of any other mutation at most one request
  may have run or still run, unless it is `doubtful`. That a client repeats only
  what it was told was not done enters here, through `Known`.
- `LookupInv`: what this call looked up and sent was in the store at some time of the call, and
  unless others changed it since the preview, preview and call found the same; no mutation
  completes before the lookup.

It also proves `ReportPagesComplete` and `ReportClaimsTrue` of `Reports`, for any stores, records
and values, pages of any size, any number of changes by others and any wrong cursors, from
`ReportsAssumption` (records and values are finite sets of numbers, `None` is no value, a wrong
cursor is a cursor). A page is defined by counting: a position is on it when fewer than
`PageSize` positions are before it. `Greatest`, `Least` and `PageFirst` turn that into the facts that
matter: a page that is not the last ends in a greatest position, and what is not on it comes
after that. The invariant `ReportInv` adds to the types:

- `Coverage`: of a store that answered as it should, every record that matches and was not
  changed was read if it stands before the cursor, or is a variant after the cursor of a product of
  which more is to be read. So nothing is lost between two pages, nor between the list of
  products and their variants, whatever others insert or remove; `PagesComplete` is what remains
  of it when the store is read.
- `History`: what was read was there, and if nothing was changed the store still has what it
  had. With `Coverage` this makes what is shown equal to what is there (`OkShowsAll`).
- `Reading`: where a store is in its reading, and that a store that failed shows nothing.
- `FirstRound`: what the first round of a low stock report passes on to the second. It holds
  every record that was low on stock from the beginning, so that a search that looked for
  every SKU (`AllSkus`) finds all transfers.

`ConsistentIs`, `GapsAre` and `TransfersAre` derive the three conclusions of `ClaimsTrue` from it.

Model-checked only: the liveness properties `EveryCallEnds`, `EveryReportEnds` and
`NothingWaitsForEver`, and `Implements` with its fairness, because liveness and `ENABLED` are out
of the prover's reach. What these rest on is proved where it is a safety property: no one is
lost from a queue (`NothingLeftBehindHolds`), and each step of `FileStore` is one that
`DurableStore` allows (`StoresImplementSafely`). Every invariant and every action property of the
runs that pass is proved, but for `FailuresStayVisible` of `ResultLimits`. The types of `UpdatePrices`
are proved and have no run of their own.

## Not modelled, and why

- Of the multi-step tools: `shopify_check_access`, the reads of `admin-tools.ts`, and the
  text of the documents they send. What is applied is which arguments are sent, not their
  values, but for the quantity of an inventory level.
- Of the limits of results: sizes, and `fitMultiStoreResults`, which cuts what reads return and
  can be read again. The answers of other tools are cut in `MultiStepTools` by one operator.
- Of reports: sums over orders, growth, SLA and analytics, which are pure functions of the
  rows read; the rows are read as those that are modelled are. Catalog search, schema
  access and the single-request reads are likewise functions of one answer.
- Of price updates: pages of a search are one read, and price, compare-at price and
  unit cost are one value of a variant, equal or not as decimals (`sameMoney`).
- Of Run action: the text search of the catalog. A document without record IDs skips the
  lookup; the model's document has one.
- Of the Admin API client: the five minutes a cached token must have left are not
  compared with the time a call waits in the queue (`shopify.ts` 118).
- Of the Durable Object: the writes of its uncounted kinds, which are one storage write each,
  and its fetch protocol. The hour of a source's counter is read before the call that
  increments it (`hosted/oauth.ts` 345); the model has that race, but no property of the
  hourly limit, which is a limit of effort.
- Of connections: an exchange under way when its store is disconnected or its session
  signed out saves its connection afterwards (`hosted/shopify-connect.ts` 739). The model
  has this; no property judges it, as nothing in code or docs says which of the two
  should win. `OnlyOwnConnections` says that it is still the person's own.
- Overlapping Worker isolates with old and new keys during a deployment
  (`hosted/shopify-connect.ts` 330), and two origins that set up applications at once over
  process-wide settings (`workers/app.ts` 41): a matter of the platform's scheduling of
  isolates, of which the code says nothing.
- Client metadata documents: a fetch and a bounded cache in memory.
- Parsing and validation of request parameters, HTML, cookies' attributes, redaction and
  shortening of audit lines, cryptography: taken as whether they accept. HMAC and
  encryption are trusted.
- Platform helpers, routing, settings, process start-up: plumbing.
- The file locks and receipts of `concurrency.ts` (lines 38-117) have no caller.

## Plan

The modules of the plan are written, in this order: `TokenFamilies`, `DurableStore` and
`FileStore`, `SignIn`, `Connections`, `ClientRegistry`, `AdminApi`, `RunAction`,
`UpdatePrices`, `MultiStepTools`, `Reports`, `HostedCalls`, `ResultLimits`, and so are the proofs
about all of them but the last. What is left is to model key rings per isolate, the hourly
limit of registrations and the cache of client metadata documents.
