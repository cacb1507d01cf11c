# A verification development for initia.js

initia.js is a TypeScript client for the chains of the Initia network. One part of it keeps
state across asynchronous events: WebSocket sessions that reconnect, waits that combine
a subscription, queries and timers, watches and flows over two chains, the signing pipeline
with its locally tracked account sequence, registries that refresh, and caches that share
requests under way. The other part consists of pure functions that must not change what a
caller means: amounts, addresses, contract arguments, messages, requests, sign documents. Both are
modelled here in TLA+ and model-checked with TLC; the most important statements about the
first are proved with TLAPS for all values of the constants.

Paths below are relative to the repository's own `src/` unless they begin with `test/`.

## 1. The system

### 1.1 Components

| Component | State it keeps | Operations | Modelled in |
|---|---|---|---|
| Cosmos session, `client/websocket/cosmos-session.ts` | `ws`, `isConnected`, `connectionPromise`, `isUserClose`, reconnect counter and timer, `subscriptions`, `pendingSubscriptions` | `subscribe`, `unsubscribe`, `close`; socket events, confirmation timeout, reconnect timer | `CosmosSession` |
| EVM session, `client/websocket/evm-session.ts` | the same, with `subscriptionInfo`, whose keys the node assigns | the same; `resubscribeAll` awaits each entry | `EvmSession` |
| WebSocket facade, `client/websocket/session.ts` | references to the two sessions, made lazily; the count | `subscribe`, `unsubscribe`, `close`, stand-alone `subscribe()` | `Sessions` |
| Waits, `client/websocket/waiting.ts` | flags and maps in closures, timer, session | `waitForTx`, `waitForEvent`, polling fallback | `WaitForTx`, `WaitForEvent`, `Wait` |
| Bridge watches and flows, `bridge/watch.ts`, `bridge/bridge.ts`, `bridge/op-bridge.ts` | sessions, subscriptions, timers, one `cleanup`; the transaction sent before | `watchWithdrawal`, `waitForClaimable`, `watchDeposit`, `waitForDeposit`, `depositAndWait`, `withdrawAndClaim`, `getWithdrawals` | `WatchWithdrawal`, `WatchDeposit`, `BridgeFlows`, `Wallets` |
| Signing pipeline, `wallet/chain-context.ts`, `client/gas.ts`, `client/broadcast.ts`, `client/transport-common.ts` | `_address`, `_nextSequence` | `signAndBroadcast`, `estimateGas`, `resetSequence`, retry interceptor | `ChainContext` |
| Cached client, `client/cached-client.ts`, `cache/*` | four LRU caches, `pending` | `module`, the denom mappings, queries at a height, `clearCache` | `CachedClient` |
| Usernames, `client/usernames/*` | two linked caches with expiry, two maps of requests | `getRecord`, `getAddress`, `getName`, `getMetadata`, `getKnownNames`, invalidation | `Usernames` |
| Move ABIs and transactions, `contracts/move/abi-fetcher.ts`, `tx/get-tx.ts`, `tx/enrichers/move.ts` | one ABI cache for the process | `createMoveContract`, `getModulesAbi`, `getTx`, `clearAbiCache` | `MoveAbis` |
| Registry providers, `provider/*` | maps of chains, assets and routes, fetches under way | `refresh`, `getAssets`, `listAssets`, changes of the custom provider; look-ups | `Providers`, `Registries` |
| Contracts, `contracts/*` | decimals known to a handle | from a caller's arguments to a message or query, views, logs, reverts; the life of a contract; publishing, scripts, state | `MoveArguments`, `ContractCalls`, `Assets` |
| Tokens and balances, `token/*` | none | information, balance, allowance, transfer, approve | `Assets` |
| Transactions and keys, `tx/amino.ts`, `tx/sign.ts`, `tx/evm.ts`, `signer/bridges/eip-hash.ts` | none | sign documents, three signing modes, typed data, `sendEvmTxAndWait` | `SignDocs` |
| Wallets, `wallet/wallet.ts`, `wallet/bridge.ts`, `wallet/typed-context.ts` | the key, the provider, a bridge with its contexts | addresses, contexts, deposits, withdrawals and claims, typed factories | `Wallets`, `SignDocs` |
| Messages and chain configuration, `msgs/*`, `chain-config.ts` | none (builders are immutable values) | `normalizeInit`, `build()`, `toAny`, `fromAny`, `decode()` | `Messages` |
| Amounts, denoms, addresses, `core/coin.ts`, `util/*`, `client/gas.ts` | none | arithmetic and conversions | `Amounts` |
| Events and address profiles, `client/events.ts`, `client/address-profile.ts` | a cache per profile key | accessors, query and filter; `getAddressProfile` | `Events` |
| RPC clients, `client/rpc.ts`, `client/evm-rpc.ts`, `client/http-client.ts` | none | one request each: parameters, headers, time limit, errors | `Requests` |
| gRPC client, `client/grpc-client.ts`, `client/headers.ts`, `client/response.ts`, `client/from-chain.ts` | services made so far | headers, end points, retries, wrapping of responses | `Requests` |
| Derived contexts, `wallet/chain-context.ts` | signer, address, clients made so far | `withSigner`, `forAddress`, the queries and subscriptions of a context | `Requests`, `Assets` |
| VIP, router client, categories of failures, `vip/*`, `bridge/router-client.ts`, `errors.ts` | none | messages and reads, requests and answers | `Services` |
| Code generation, `codegen/*` | the files written | `abigen move`, `evm`, `wasm` | `Codegen` |
| Keystore, entry points | the application's | | left out (5) |

### 1.2 How they interact

A wait or a watch creates sessions of its own, subscribes through them and closes them in
its `cleanup`; it hears of the chain by callbacks and by queries. The bridge flows
create a context for each chain, broadcast through it and then start a watch. A context
talks to the node by gRPC through transports that may carry the retry interceptor; a
gRPC client may be wrapped by the cache. The composite provider builds its routes from what
its children list and rebuilds them when they say that they have refreshed. The username
service, the ABI cache and the providers are asked by everything that shows or encodes
something. Sessions, waits and contexts share no memory with each other: the interfaces
between them are promises that settle, callbacks, and `close()`. So `WaitForTx`,
`WaitForEvent`, `WatchWithdrawal` and `WatchDeposit` take a session at its word --
`subscribe()` settles, `close()` rejects the calls that wait, events of a dropped connection
are lost -- and `CosmosSession` is where that word is checked (`EveryCallSettles`,
`HandlesAreServed`). `BridgeFlows` composes the two watches with the flows around them, and
`Providers` two providers with the composite one.

### 1.3 What is hard

The program is a single JavaScript thread, so no two statements race, but every `await`,
callback and timer is a point where other code runs:

* **Late reactions.** A close handler, a confirmation, a timer or an answer refers to a
  socket, an entry or a sequence that has been replaced since.
* **Connections that drop at any moment**, in particular while subscriptions are being
  restored, while `subscribe()` awaits, and between a subscription and its query.
* **Retries**: reconnection with backoff, the retry interceptor of the transport, the
  advice to reset the sequence and try again.
* **Orders nobody chose**: inclusion, indexing, block event and query answer; the three
  subscriptions and the finalization period of a watch; answers of overlapping calls.
* **Data of two moments**: a record put together from two requests, routes built before a
  refresh, an ABI from before an upgrade, a profile whose queries a block separates.
* **One thing said twice**: the filter sent to the node and the one applied to its answer, the
  bytes of a transaction and the JSON that is signed, the list of withdrawals and the single
  look-up, a chain's assets and the list of all.
* **Cleaning up once**: a wait has up to six ways to end, and each must release timer,
  session and subscription and settle the promise once.

The full list, line by line and with the properties that cover each item, is under
`hazards` in `PROJECT.json`.

### 1.4 What makes each component correct

* Sessions: one socket at a time, none after `close()`; what the application holds is
  registered, asked for at the node again after a reconnection, and delivered to once;
  every call settles.
* Waits: they end once, with a result only if it is on the chain, they find what is there
  in whatever order it becomes visible, and they leave nothing behind.
* Watches and flows: they end as a whole, promise and watch agree, nothing is reported
  afterwards, what is under way is reported, and what a flow resolves with or claims is due.
* Contexts: consecutive calls do not meet a sequence mismatch, the local sequence never
  runs ahead of the mempool, and "reset and retry" gets every transaction through.
* Caches of every kind: no answer is given to a question it does not answer, equal questions
  share a request, a failure is not remembered, who asks for fresh data gets it, what is
  cached for ever is right for ever, and what is served is within its time.
* Providers: what is listed is complete, and the composite provider sends each chain where
  its children have it.
* Conversions: what a caller writes is what the chain reads and what comes back, the two ways
  to one answer agree, and a signature commits to what the caller meant.

## 2. The modules

A component has a specification `M.tla` (constants, variables, `Init`, one action per
operation, handler or continuation, `Next`, `Spec`), its invariants, action properties,
fairness and liveness properties at the end of `M.tla`, a module `MCM.tla` with the small
instances for TLC, and, where theorems are proved, `MProofs.tla` (`WaitProofs.tla` has those of
both waits, `ChainContextProofs.tla` those of `Providers` too).

Conventions used throughout:

* **Settings.** A component is checked under several circumstances in one run: the
  constant `Settings` is a set of records (or sets of faults), and the variable `setting`
  (`faults` in `WaitForTx`) is chosen from it in `Init` and never changes. A property
  that needs circumstances names them in its antecedent (`Careful`, `Undisturbed`,
  `Consecutive`, `faults = {}`, ...), and the MC module lists settings with and without
  them. The proofs hold for any `Settings`.
* **Microtasks.** A socket event or timer runs its handler to the end, and the promise
  continuations it made ready run before the next event: event actions are guarded by
  `Quiet`, which says that no continuation is ready. Application code, which may itself
  be a continuation, is not guarded. Where the order of two continuations is not
  determined, both orders are in the model.
* **Mistakes next to the code.** The shared closures and assignments are operators of
  their own (`Cleanup`, `JoinConnection`, `UsableSequence`, ...). Some are preceded by a
  variant that a plausible bug would make of them (`CleanupTimerOnly`, ...); the variants
  are used nowhere, except that each property is shown to fail when its variant is put
  in the place of the original (`mutants` in `PROJECT.json`).

### 2.1 `CosmosSession`

The variables are the fields of `InternalCosmosSession`, plus the places where its
asynchronous functions are suspended (`call`, `waitsOn`, `resubscribing`) and the
environment: the platform's sockets (`sock`), the frames on the wire in both directions,
and what the node has subscribed.

| Action | Code |
|---|---|
| `Subscribe`, `SendSubscribe`, `Register` | `subscribe()` before, between and after its two awaits |
| `ConfirmationTimeout` | its `setTimeout` |
| `Unsubscribe`, `Close` | the returned handle, `close()` |
| `OnOpen`, `OnError`, `OnClose`, `OnMessage` | the four handlers of `connect()`, `onclose` up to the application's `onConnectionEvent('disconnect')` |
| `ScheduleReconnect`, `ArmTimer` | the rest of `onclose`: `scheduleReconnect()` up to and from `onConnectionEvent('reconnect')` |
| `ReconnectTimer`, `ResubscribeAll` | `reconnectAndResubscribe()` before and after its await |
| `NodeRequest`, `NodeEvent` | the node (external) |

The close handler calls the application twice before it arms the timer, and `telling` says
which of the two callbacks it is in. Nothing but the application runs then: it may
`subscribe()`, `unsubscribe()` and `close()` there, and the handler goes on without looking at
`isUserClose` again. Of a URL that `new WebSocket()` refuses (`validUrl`) every call rejects.

The session has three known weaknesses -- a `subscribe()` during the backoff opens a second
socket, so does one in `onConnectionEvent`, where a `close()` is followed by a timer and a
socket of its own, and a failed reconnect attempt is not followed by another (3.2) -- so its
strong properties are stated for a `Careful` application (one that calls `subscribe()` only
while connected, while a connection it asked for is under way, or when the session is
idle, and neither that nor `close()` in its `onConnectionEvent`) or an `Undisturbed` session
(in addition nothing refuses a connection or a subscription). The setting is an input; the
model itself includes every phase.

Two more conditions are in the antecedents of `HandlesAreServed`. `Exclusive(c)`: no other
call subscribes to the query of `c`; `subscriptions` has one callback for a query, and the
later call takes the place of the earlier one. `Reconnects`: the session has `autoReconnect`
and retries; without them the next `subscribe()` connects and restores nothing of what was
there. The proof of `HandlesServed` needs both, and each has a run of a few steps that
breaks the property without it.

### 2.2 `EvmSession`

The same connection management, but identifiers instead of queries: a subscription is
keyed by what the node returned on this connection, `resubscribeAll()` empties both maps and
awaits `subscribe()` for each old entry. A `subscribe()` therefore runs on a *thread*, a
call of the application or the loop of a reconnect socket; `todo` is what a loop has still
to do. `telling` and its two actions are as above. The frames in `inbox` are confirmations;
events, for which the session only looks up a callback, are left out, so that an event that
comes before its identifier is registered is not in the model. Requests are a set because
the node may answer them in any order. `Unsubscribe` and a failed confirmation take an entry
out of `subscriptionInfo` and `pendingSubscriptions` wherever it stands (`Forget`). Of its
properties only `RegisteredIsServed` needs `Reconnects`, for the reason given above.

### 2.3 `Wait`, `WaitForTx`, `WaitForEvent`

`Wait` is the abstract promise: it ends once, found only if the thing is on the chain.
`WaitForTx` and `WaitForEvent` are the closures of `waiting.ts`: `execute()` with
subscription, query and timer, the fallback on any error but a timeout, and the polling
loop, which looks at the clock before each query only. The chain has two steps, inclusion
and indexing, and queries see only the second. `ImplementsWait` is the refinement:
`Promise == INSTANCE Wait WITH onChain <- included`.

`Complete`, `Fail`, `Cleanup` are the closures of these names. `WaitForEvent` keeps results
under the key the code uses for the `Map`: the transaction's hash if a query found it, its
bytes if an event brought it. `NoMatchIsMissed` is "subscribe first, query after" as an invariant: as long as
the wait goes on, every match from the block asked for on has been collected, is on its way
to the callback or is in the answer of the query. Its condition `ExactQuery` says that the
query for the node selects what the filter accepts, and that nothing but the timeout disturbs
the wait (the index does not lag either).

### 2.4 `WatchWithdrawal`, `WatchDeposit`, `BridgeFlows`

`watchWithdrawal()` alone and wrapped by `waitForClaimable()`: three subscriptions over two
sessions, the finalization period by query, a timer per proposed output. `cleaned` is the
shared flag, `Report` what `handleError` does, `Settle` what `waitForClaimable()` adds.
`cover` is the output that covers the withdrawal on the chain; the code does not look at
it. `watchDeposit()` has one subscription on each chain; its callbacks get whole
transactions (`inbox`), of which they look at the deposits' sequences only, and pass the
events on one by one (`rest`, `PassOn`) without asking whether the watch is over. The
application may unsubscribe in a callback ("reentrant") or throw in it ("throws"): an
exception in 'waiting' rejects a promise and is reported by `handleError()`
(`WaitingThrows`), any other ends the callback and is swallowed by the session.

`BridgeFlows` runs one operation of class `Bridge`: either watch, alone or wrapped, or one of
the two flows. `depositAndWait()` broadcasts, takes the sequence from the transaction's
events and watches by sender and recipient; `withdrawAndClaim()` broadcasts, waits until
something is claimable, lists the withdrawals of the recipient and claims the first
claimable one. Both watches use the same variables for handle, promise and timer, as both
use the same closure in the code. `Others` are other withdrawals of the recipient, which
someone else may claim at any time.

`ImplementsWaits` has two refinement mappings to `Wait`, side by side: `WaitPromise` for
`waitForDeposit()` and `waitForClaimable()`, `FlowPromise` for the flow around them. What is
on the chain is a final deposit that is asked for, or an output whose period has passed, and
for `withdrawAndClaim()` a withdrawal that can be claimed; every way to reject counts as
`Wait`'s timing out. `PeriodIsOver` has a second disjunct because `setTimeout()` fires at
once for a period longer than it can hold (3.2), and the wait then resolves early.

### 2.5 `ChainContext`

`signAndBroadcast()` from `getSignerAddress()` to the assignment of `_nextSequence`, one
action per await, for several calls on several contexts, against a node with a mempool
(`expected`) and a committed state (`committed`). `Resend` and `Lose` are the transport
with and without the retry interceptor; `Evict` empties the mempool; `TryAgain` is an
application that follows the advice of `errors.ts:122`.

### 2.6 `CachedClient`

One call is `Begin` (look up, join, or send), `NodeAnswers` or `FetchFails` (external),
`Store` (`.then`) and `Settle` (`.finally` and the callers). The four caches are one
function of the key, with the method in the key; `Evict` drops an entry at any time, which
covers every LRU order and capacity. `ClearCache` may come at any moment. The history
variable `begun` remembers what had been answered when a call began.

### 2.7 `Usernames`

A look-up (`getRecord`, `getName`, `getMetadata`) is one call: it reads a cache, joins a request
or sends one; a record comes in two requests, `AddressArrives` and `MetadataArrives`,
between which the registry may change (`Publish`). `byName` and `byAddress` are the two
caches with the expiry the code computes (`EffectiveTtl`: the name's own or the time to live,
whichever is first, and the whole time to live for a name without an expiration or with 0), `pending` the two maps, `latest` (history) the last request sent for each
key. `Tick` is the clock, `Evict` the LRU. `SharingIsSound` says whose promise is registered and
that everyone who shares one awaits a request under way about the same key, so that nobody waits in vain.

`SkipIsFresh` has a condition for `getMetadata()`, which looks its answer up in the cache after
it has asked: `KeepsItsAnswer` says that the time to live is not 0 and that the registry never
brings the expiration of a name forward. Without the first, what was cached before is returned;
without the second, `setByName()` keeps the answer for less time than the entry it replaces
had, and `getMetadata()` may find nothing.

### 2.8 `MoveAbis`

The cache of ABIs with its three kinds of entry (with a time to live, without, and permanent
for immutable modules), and everyone who reads it: contracts made with `useCache` and `ttl`,
`getModulesAbi()`, and `getTx()`, whose messages are enriched in parallel and each of which may
fail to decode, have no ABI, or have arguments that do not fit. `Upgrade` publishes a
version; an answer carries the version it was read at and may arrive after newer ones.
An entry is keyed by the module and by its address as the caller wrote it, in lower case
(`Keys`), so that two spellings of an address have entries of their own, and `ClearAbiCache`
empties all or the entries of one spelling. The model has one chain; the key in the code does
not name the chain either (3.2).

### 2.9 `Providers`

A `CompositeProvider` over a `CustomProvider` and a `RegistryProvider`. `Answer` settles a fetch;
the calls that await it go on in microtasks (`Quiet`). `refresh` empties the maps, loads
chains and prefetches lists; `pendingFetches` and `pendingAllLoad` are the fetches calls
share. `ChangeCustom` adds or removes a chain of the custom provider. The composite provider is
not told: its routes stay as they are until its next `refresh()`, and `RoutesAgree` says so
(`touched`).

### 2.10 `Conversions` and the pure functions

`Conversions` has two variables, the request and the answer: a request is chosen in `Init`, one
action per operation computes the answer as the code does, and the properties compare it
with what the operation stands for. The functions are in modules of their own:

| Module | Functions of | Compared with |
|---|---|---|
| `Amounts` | `core/coin.ts`, `util/units.ts`, `util/amount.ts`, `client/gas.ts`; `util/address.ts`, `util/hex.ts`, the address codec | exact arithmetic on the values the texts stand for; the account or object each form names |
| `Events` | `client/events.ts`, the filters of `waiting.ts`; `client/address-profile.ts` with its cache | each other: query against filter, one accessor against another; some state the chain had during the queries of a profile |
| `MoveArguments` | `contracts/move/bcs.ts`, type helpers, casts of the enricher | the type's own reading; encode, decode, encode again |
| `ContractCalls` | `contracts/move`, `contracts/evm`, `contracts/wasm`: calls, views, schemas; the messages of a contract's life, of modules and of scripts; `tx/enrichers/*` | the parameters the ABI or schema declares; what the chain holds and tells after the messages; the call that was made |
| `Assets` | `token/*`, `contracts/evm/events.ts`, reverts, look-ups of a handle, `getBalance()` | the ledger of a token; the event or error that was raised; decimals the coin had |
| `SignDocs` | `tx/amino.ts`, `tx/sign.ts`, `signer/bridges/eip-hash.ts`; `wallet/wallet.ts`, signing in `chain-context.ts`, `tx/evm.ts` | what a document or typed data say, apart from the order of keys; what the verifying chain recomputes; when the receipt was there |
| `Messages` | `msgs/types.ts`, `msgs/decode.ts`, `chain-config.ts` | the message a caller wrote; every network's decoder |
| `Wallets` | `wallet/wallet.ts`, `wallet/bridge.ts`, `wallet/typed-context.ts`, messages of `bridge/op-bridge.ts`, `bridge/executor.ts`; the withdrawals of `bridge/op-bridge.ts`, `bridge/hash.ts`, `bridge/utils.ts`, events and filters of `bridge/watch.ts` | whose key signs, on which chain, for which bridge; the state of L1 at that moment; the events of the transaction |
| `Registries` | `client/from-chain.ts`, `provider/chain-utils.ts`, `cosmos-registry-provider.ts`, `custom-provider.ts`, `local-registry-provider.ts`, look-ups of `registry-provider.ts` and `composite-provider.ts`, amounts of `base-provider.ts` | the data given, and the last data given for one key |
| `Requests` | `client/headers.ts`, `http-client.ts`, `rpc.ts`, `evm-rpc.ts`, `transport-common.ts`, `grpc-client.ts`, `response.ts`, the proxies of `cached-client.ts`, derived contexts of `chain-context.ts` | the credentials, address, height and chain the caller named; the time that is allowed |
| `Services` | `vip/*`, `bridge/router-client.ts`, `errors.ts` | the Move functions' own parameters; what the other side said |
| `Codegen` | `codegen/*` | the ABIs and schemas found, and what is on disk |
| `Sessions` | `client/websocket/session.ts` | what is delivered and counted, call by call |

Five properties speak of all of them; each is a conjunction of parts, one for each kind of
request, that apply to requests of that kind only (`Asked(op)`). `RunWasmContracts`,
`UseHandle`, `ReadLocalRegistry`, `RunSessions` and others take a sequence of calls and
answer for each, so that one call can meet what an earlier one left.

A text is kept as what matters of it (a sign and digits, words of a type, a model value).
`undefined` is `<<>>`, an exception `Throws`. Loops over data are folds, or RECURSIVE operators
where the data are trees; these modules have no theorems.

## 3. The runs

Each passing run checks one component under all its settings; `PROJECT.json` lists the
properties, and the comment above each says in words what it means. Several properties are
conjunctions of named parts that concern one hazard (`SocketsAreKept` is `OneSocket`,
`ClosedStaysClosed` and `ConnectedHasSocket`), each with its own comment. A specification's
`TypeOK` is in no run of its own; where there are proofs it is a conjunct of what is proved.

| Run | Instance | What it shows |
|---|---|---|
| `cosmos_session` | 2 calls on different queries, 2 or 3 sockets; careful undisturbed, careful disturbed (with 2 and 0 retries), careless applications, which call `subscribe()` and `close()` in their callback too (with and without automatic reconnect), and a URL that is refused | sockets and session agree, pending entries are exact, nobody awaits what nothing can bring, each handle has its own callback, is subscribed at the node and is called only while it lasts, every call settles, a dropped handle is served again |
| `evm_session` | 2 calls; 3 sockets undisturbed; 3 sockets with drops while `resubscribeAll()` runs; 2 sockets with every disturbance (with 2, 0 and no retries); a URL that is refused | a callback is held once; undisturbed, every active handle is held and every registration is one the node has; every `subscribe()` and loop ends, also when the connection it talks over drops |
| `wait_for_tx` | 2 queries of block callbacks in flight; no fault, every fault | it implements `Wait`, cleans up, ends, and finds a tx in any order of inclusion, indexing, event and query |
| `wait_for_event` | 3 transactions, 2 of them matching; the first match without faults, 2 results with every fault from block 1 or 2, and 2 results with an exact query and a timeout | it implements `Wait`, returns only matches, does not throw away what it has, misses none, cleans up, and finds a match |
| `bridge_flows` | every operation of `Bridge` with 2 outputs, 2 deposits and one older withdrawal of the recipient; no fault, every fault but an overlong period, callbacks that unsubscribe and callbacks that throw among them | no partial watch, promise and watch agree, silence afterwards but for the rest of one transaction, what is under way is told, the result is due, waits and flows implement `Wait` and end |
| `chain_context` | 3 calls, 2 contexts, 2 accounts, a key and an external signer; calls in turn, crossing calls of two contexts of one account over a lossy network, insisting calls with an emptied mempool | no mismatch in turn, the local sequence is never ahead, reset and retry gets through |
| `cached_client` | 4 calls: both denom directions and one method at two heights with failures, skipping and a clear; or four calls of one method whose answer changes twice | answers fit their questions, entries are requests under way, nobody awaits what has settled, one flight per key, time does not run backwards |
| `usernames` | 3 calls, 2 names, 2 addresses, a name that expires and changes hands, a name whose expiration is 0; sharing with failures, both directions with invalidation, and full maps | the registered request is the latest, nobody awaits one that is over, skipping the cache gives fresh data, what is served is alive |
| `move_abis` | 3 calls, 2 modules with up to 2 upgrades, one of them becoming immutable; contracts under two spellings of an address with clears of either and of all, transactions of two messages in every mode with failures | permanent entries are current, the ways out of a stale ABI work, a transaction comes whole or is refused |
| `providers` | 3 calls, 2 chains, a registry with 2 editions; single lists and refreshes, crowding listings, refreshes of composite and child with a custom chain | listings are complete, routes agree with the children |
| `conversions` | every request of `MCConversions` (955,528 states): digits, denoms, types of depth 2, sequences of up to 3 messages, events, chains, calls or steps | values, events, calls, signatures and reads are what they stand for |
| `cosmos_retry` | careful disturbed application | the divergence in 3.2 |

Bounds, and why they are enough: two calls suffice for one to disturb the other, and the
hazards of the sessions pair a call with a reconnection; the third socket lets a session
reconnect twice, or reconnect while an old socket is closing. Two block slots allow an old
answer to arrive after a newer query is sent. Two outputs are one that covers the
withdrawal and one before it; two deposits fit one transaction or two. Three calls on a
context allow an answer to arrive after a later call has gone ahead and a third to use the
result. Of the four calls of the cached client one can be the earlier answer, one the
request under way and two the callers; of the three of the other caches one is the older
request, one the newer and one the reader. Two chains are one loaded and one not, two
editions before and after a refresh. The pure functions branch on signs, emptiness, equality,
length against a width and nesting, and the requests have each on both sides of its
boundary; widths are scaled down where they are constants (`WordBits`, `Word`, `MaxSafe`) and kept
where they are not (addresses have 40 and 64 digits). The bound on sockets is an
exit of two liveness properties: in `DroppedIsRestored` it is `SocketsSpent`, so that the first
of three connections to drop must be restored; in `EveryThreadEnds` it is `OutOfSockets`, a
`resubscribeAll()` that would make a socket of its own after the last. With three sockets a
loop on the second one whose connection drops has the third to go on over or to fail with.
Deadlock is not checked: every one of these programs may come to rest.

### 3.1 Fairness

A JavaScript runtime runs ready continuations and due timers, a connection attempt ends
one way or the other, and transports answer or reject: these actions are weakly fair. A
node that refuses nothing (`nodeAnswers`) answers. What the application does, drops,
losses, evictions, and answers of any other node are not fair. Blocks are fair only where a
property says so: in `chain_context`, whose mismatches end with the next block, and in the
antecedent `ChainFairness` of `IncludedIsFound`. `FlowFairness` of `BridgeFlows` asks the same of
both watches and of the flow's own awaits; that outputs are proposed, deposits finalized and
periods short is not asked, so "ends" is claimed where a timeout can pass. In the waits, too, a
timeout can pass only if the setting has it, so that "found" is claimed of waits nobody
cuts short, and "ends" of the others.

### 3.2 What the code does differently from what it says

The run `cosmos_retry` checks one sentence of the repository and finds it violated; the
counterexample is an execution of the code as it stands: "connect() already handles next
reconnect attempt via onclose" (`client/websocket/cosmos-session.ts:170`). A failed reconnect
attempt was never connected, so its `onclose` schedules nothing and nothing is announced:
the session stays down.

The following were met while modelling as well. They have no run; the models have the
behaviour, and the properties above are stated so that they hold in spite of it. Where the
sentence is written down as a definition, its name is given.

Sessions and waits

* `cosmos-session.ts:159`, `:201`: `subscribe()` during the backoff opens a socket beside
  the timer's; `close()` releases one (the reason for `Careful`). An on-demand reconnect
  does not resubscribe what was there. Such calls are not "queued in
  `pendingSubscriptions`" (`:44`) before their socket is open.
* `cosmos-session.ts:124`, `:157` (and the same in `evm-session.ts`): the close handler tells the
  application between its look at `isUserClose` and the arming of the timer. After a `close()` in
  that callback the timer is armed all the same, and a socket opens on a closed session; after a
  `subscribe()` there are two sockets (`Careful`, `telling`).
* `evm-session.ts:163`: the maps are emptied first, so an entry whose `subscribe()` fails is in
  neither map any more, against "will be retried on next reconnect" (`:169`, `ActiveIsHeld`).
  `:247`: after a reconnect, `unsubscribe()` uses the identifier of the old connection and
  misses the callback. `:167`: `close()` during `resubscribeAll()` lets the loop's next
  `subscribe()` connect again.
* `session.ts:356`: the stand-alone `subscribe()` does not close its session when the
  subscription is refused; it stays open and reconnects. `:166`: a `cosmosCustom` query that is
  also a built-in one replaces the callback of that one without a word.
* `waiting.ts:340`: a subscribed connection that drops does not fall back to polling, as
  `:31` says; the wait times out. `:634`: an event and a query's answer for one
  transaction are stored under different keys, so `:567` "Dedupe by txHash" does not
  hold. `:628`: events below `fromHeight` are kept. `:714`: polling asks for the first
  page of an ascending search each time, which with the catch-all query
  (`:425`) never reaches the matches.

Bridge

* `bridge/watch.ts:328`: any output of the bridge starts the clock, whether or not it covers the
  withdrawal, against "Wait for a withdrawal to become claimable on L1" (`:464`,
  `ClaimableIsClaimable`). `:317`: a timeout while a subscription is under way calls `onError`,
  which `test/unit/bridge/watch.spec.ts:457` says it should not. `:341`: a finalization
  period beyond 2^31 - 1 ms fires at once (setting `overflow`). `:152`: of a transaction with
  several deposits, the wait may hand over another one. `:412`: a watch that fails
  synchronously reads `handle` before it is declared.
* `bridge/watch.ts:151`, `:178`: the loop over the events of a transaction does not look at
  `cleaned`, so an application that unsubscribes in a callback, and a wait that has settled,
  is still given the rest of that transaction (the exception of `StoppedIsSilent`). The loops of
  `watchWithdrawal()` have the same form; there the model has one proposal per transaction. A
  callback that throws loses the rest of its transaction, in 'proposed' the whole output, and
  in 'waiting' the output's timer: `:346` then reports it and, unless the application has an
  `onError`, ends the watch.
* `bridge/bridge.ts:193`: the watch subscribes after the broadcast, so an event in between is
  missed. `:238`: `withdrawAndClaim()` claims the first claimable withdrawal of the recipient,
  not always its own (`ClaimsItsOwn`), and throws if the first proposal does not cover it. It
  asks the executor by recipient, where `executor.ts` documents the sender on L2. `:59`: the
  wallet's bridge keeps its contexts, `wallet.chain()` makes a new one each time.

Signing

* `client/transport-common.ts:252`: a broadcast whose answer is lost is sent again and refused;
  the call fails for a transaction the mempool has, against "Only retries idempotent
  operations by default" (`:203`, `FailedIsNotAccepted`). The jitter may exceed `maxDelayMs`.
* `client/gas.ts:131`: the estimate is simulated with the committed sequence while earlier
  transactions wait in the mempool; whether a node refuses that is outside the
  repository, so `NoMismatch` is about calls that pass their fee. `client/broadcast.ts:91`: the
  default multiplier is 1.3 where the documentation has 1.4.
* `chain-context.ts:1058`: a late answer takes the local sequence back. `:737`: the address of
  an external override stays the address of the context; `:859`: `sign()` hands an override the
  context's own address, where `createTx()` used the override's. `:999`: `broadcast()` called by
  itself does not advance the local sequence.
* `wallet/wallet.ts:345`: a key of Ethereum's kind signs a SHA-256 hash here and a keccak hash
  in `key/key.ts:106`. `:268`: the wallet declares `LEGACY_AMINO_JSON` where the context declares
  `EIP_191` (`chain-context.ts:500`). The JSON that is signed has no height of the timeout.
* `signer/bridges/eip-hash.ts:159`: only arrays without a length are arrays: a `uint256[1]` of
  `[5]` is hashed as 5, and other arrays with a length are refused. `:118`: of `T[][]` the struct
  `T` is not part of the type's hash. `:190`: a missing text is an empty text.
* `tx/amino.ts`: options of nested messages are ignored; keys that look like array indices are
  enumerated first (`:322`). `tx/evm.ts:96`: concurrent sends read the same nonce; a
  fee cap below a tenth of the gas price is refused with the default tip; one failed poll rejects
  a transaction that was sent, and a receipt that comes after the last poll is a timeout.

Caches and look-ups

* `cached-client.ts:215`: the `.then` of a forgotten request fills the emptied cache, against
  "Clear all caches and pending requests" (`:366`, `ClearedIsGone`). `:219`: `.finally` removes
  whatever entry has its key, also a newer one after `clearCache()` (the reason for
  `clears = 0` in `OneFlight`). `:206`: a call with `skipCache` joins a request under way, which
  `test/cache/integration.spec.ts:65` wants and `cache/types.ts:8` does not suggest;
  `NeverBackwards` holds for it all the same.
* `usernames/service.ts:206`: `getMetadata()` with `skipCache` and a `cacheTtl` of 0 returns what
  the cache had before (the reason for `KeepsItsAnswer`). `cache.ts:72`: a name whose expiration is 0 counts as
  one without, and is cached for the whole time to live. `:165`: `setByName()` does not renew
  the time of the record under its address. Invalidation does not reach requests under way. `http.ts:113`: a record may mix
  the owner of one moment and the metadata of another.
* `abi-fetcher.ts:64`: the key of the ABI cache does not name the chain, and the address is in it
  as the caller wrote it (`:72`): `clearAbiCache(address)` leaves what another spelling of that
  address has cached, and who uses that spelling is served the old ABI (the reason for the
  spelling in `NothingStaleOnRequest`). `:366`: an older answer
  overwrites a newer one, also after `clearAbiCache()`. `address-profile.ts`: the same key, and
  "none" is served for a minute after a deployment.
* `registry-provider.ts:436`: a list requested before a refresh is stored in the map the refresh
  has emptied (`RefreshIsFresh`); a refresh that fails leaves the maps empty. `composite-provider.ts`: `listAssets()` and `findAsset()` without a
  chain show assets of a chain another child shadows; a refresh with a failing child does not
  rebuild the routes. `custom-provider.ts`: the corrected channel of a chain added again
  comes after the old one, which `getIbcChannel()` returns, so that a path
  may be missing although a channel for it is there. Its bridge keeps the router of the network
  whose chain was the first when it was made (`:378`), and `fromChain()` lends the provider a
  transport before it finds that the chain is not listed (`client/from-chain.ts:141`). `cosmos-registry-provider.ts`: lists
  and channels are by the chain's name, which a mainnet and a testnet may share. The local
  provider serves a list edited before its first read with the chains of the older load.

Conversions

* `core/coin.ts:162`: a negative amount is formatted with its sign among the digits; `parseCoin()`
  refuses `:` in denoms. `bcs.ts`: "-0.5" loses its sign; addresses of more than 64 digits are
  cut; a struct that is not known is taken for a text; `Option<Option>` collapses.
  `bridge/hash.ts` cuts numbers to 64 bits.
* `contracts/move/types.ts:334` types `u64` arguments of views as `bigint`, which
  `contract.ts:138` cannot serialise. `contracts/evm/contract.ts`: the first overload of a name
  is taken, and arrays of a fixed length are passed on as they are. The two
  `getSchemaVariants` of `contracts/wasm` disagree; a height of 0 is dropped.
* `tx/enrichers/evm.ts:42` passes the data of a call, a hexadecimal text in the messages
  `contracts/evm` makes, to `bytesToHex()`: such a call is told by no selector, where
  `tx/get-tx.ts:44` has `0xa9059cbb`, and decoding it with an ABI fails. Its tests give bytes
  (`form` in `EnrichCall`).
* `msgs/types.ts:439`: unsafe integers are taken for `bigint` fields; a `Date` or an empty
  array given for a nested message is an empty message; `oneof` groups are refused.
  `chain-config.ts`: replacing a module drops the old schemas from `decode()` while the registry
  keeps them.
* `client/events.ts`: of a key that occurs twice one accessor gives the first and another the
  last value. `evm-rpc.ts:224`: the block tags "safe" and "finalized" reach `BigInt()`.
* `core/coin.ts:309`: `parseCoin()` refuses denoms with `_`, `-` or `.` too and takes a zero coin,
  where `:296` asks for a positive integer; a `Coin` may be negative after `sub()`.

Requests and contexts

* `client/http-client.ts`: the time limit ends with the headers; a body may take for ever.
  `client/transport-common.ts:252`: every method is retried, whether or not it is idempotent.
* `client/rpc.ts`: an end point without a scheme but with a port is handed on as it is. The rule
  of `normalizeUrl()` for ports is never reached by chains of the registry, whose end points
  were normalized before.
* `client/response.ts:123`: messages under a `oneof` are not wrapped, so they have neither
  `toJson` nor `typeUrl`; the `typeUrl` of an `Any` is that of its content.
* `client/address-profile.ts:370`: the cache of profiles is one for the process and its key is the
  address alone.
* `wallet/chain-context.ts:804`: without a denom `getBalance()` tells the first page.
  `:1101`: `getTokenInfo()` takes a height and does not use it. `:737`: an external signer brought
  to `estimateGas()` names a context without an address for good, and is not asked by one that
  has an address.
* `errors.ts`: failures of a broadcast are classified by their code, whose meaning depends on the
  codespace.

Tokens and contracts

* `token/cw20.ts`: CW20 approvals add to what was allowed before. ERC-20 messages refuse bech32
  recipients, where the other two take any text. `contracts/move`: a bech32 coin address is looked
  up as it is and not found.
* `contracts/evm/contract.ts:641`: with an ABI, the standard errors are answered as "Error(msg)"
  and "Panic(17)". `events.ts`: logs of pending blocks are dropped.
  `contracts/wasm`: `NftExpiration.atTime` is documented in seconds; CW721 gives nanoseconds.
* `contracts/wasm/schema.ts:275`: an array of a union is written without parentheses; a nullable
  type is unknown. `contract.ts:482`: `instantiate2` without `fixMsg` twice with one salt is
  refused by the chain. `util/json.ts:10`: bytes become an object in JSON.
* `contracts/move/contract.ts:643`: bytes of a script are written as an array of numbers, where the
  comment says a hex text. `buildMoveView()` swallows a conversion that fails and answers the
  raw text; a JSON text and the same raw text are read alike.
* `msgs/types.ts:164`: an Amino override of a message is lost once it is packed and decoded; the
  decoders know type URLs with a leading "/" only, `fromAny(schema, any)` any prefix; an explicit
  `undefined` removes a default of `msgWithDefaults()`.

Wallets, VIP and code generation

* `wallet/bridge.ts`: no router is passed on, so `wallet.bridge.op.route` always throws; the
  first L1 a provider lists is taken, of whatever network; a recipient that is left out is the
  sender, with the prefix of the sender's chain. `typed-context.ts`: a chain of another type is not
  refused. `bridge/watch.ts:302`: filters speak of the transaction, so the events of another
  sender, recipient or bridge in it are told too.
* `vip/vip.ts`: an amount that is left out is sent as 0; `claimRewards()` uses `this`;
  `getPosition()` takes the first lock if no release time is given and compares addresses as texts;
  shares with a fraction reach `BigInt()`.
* `codegen/cli.ts`: `--out` without a value writes to a file named "true", and a flag takes `-h`
  for its value; `fooBar` and `foo_bar` share a file and an export; a module named twice is
  exported twice; a write that fails leaves files without an index (`:298`). `wasm.ts`: one variant
  without `required` refuses the schema. Newlines are not escaped, object keys not quoted.

## 4. The proofs

TLAPS checks the following for every value of the constants that satisfies the named
assumptions in the modules (`CosmosSessionAssumption`, ...), which say only that sets are
apart and settings well formed. Nothing is assumed about the number of calls, sockets,
contexts, names, modules, deposits or blocks.

| Theorem | Says | Argument |
|---|---|---|
| `CosmosSessionProofs!TypeCorrect` | `[]TypeOK` | one lemma per shared operator (`SentType`, `ScheduleType`, `ResubscribeFrames`), one step per action |
| `BackoffIsFlat` | the reconnect counter never passes 1; `maxRetriesReached` needs `maxRetries = 0` | `BackoffInv`: while a connection stands the counter is 0 |
| `CarefulSessionIsSafe` | `[]SocketsAreKept` | `SafetyInv` adds that an armed timer excludes a live socket (`TimerAlone`), that until `close()` the live socket is `ws` (`LiveIsWs`), and that `close()` leaves neither socket, flag nor timer (`UserClosed`) |
| `NobodyIsStranded` | `[]AwaitedIsDue`, the safety part of `EveryCallSettles` | in any use, `DueInv`: a connection that calls await (`SettlementIsDue`), or that later calls would join (`PromiseIsDue`), has yet to open or to fail, and whoever removes an entry settles its call. In a careful use, on top of `SafetyInv`: a call that may send finds an open socket (`ReadyIsConnected`), so `send` does not throw between the entry and its timer (`PendingIsAwaited`) |
| `CallsSettleOnce` | `[][SettledStays]_vars`: a `subscribe()` that rejected is not confirmed later, a handle ends by `unsubscribe()` only, in any use | `SettledInv`: the entry that a `send` which threw leaves behind is of a call nothing on a wire is about (`UnsentIsUnanswered`), and every other entry is of a call that awaits it (`EntriesFit`) |
| `HandlesServed` | `HandlesAreServed` | `ServedInv`: nothing fails but by `close()` and drops of open sockets (`NothingFails`), a session with a handle is connected or about to be, by a socket that will resubscribe (`BackSoon`), and on an open socket everything held or about to be is asked for or about to be (`HeldIsAsked`) |
| `EvmSessionProofs!CallbackHeldOnce` | `[]HeldOnce` | `IdInv`: the identifiers on the wires and in the maps are those the node has given, each once (`KeyInv`, `WireInv`), and a loop that runs has work (`LoopHasWork`). `HeldInv`: a call is registered once (`RegisteredOnce`), awaits restoring once (`AwaitedOnce`), never both (`Apart`), and only when its own `subscribe()` is over (`HeldIsSettled`) |
| `UndisturbedSessionServes` | `[]UndisturbedIsServed` | `StandInv`: an undisturbed session has one connection or is on its way to one (`Calm`), and a loop is that of the socket that stands (`LoopStands`). `ServedInv`: while a handle is held the session comes back (`ComesBack`), each request of a loop is on the wire, at the node or answered (`LoopIsAnswered`), what is confirmed or registered is known to the node (`ConfirmedIsServed`, `KeysAreServed`), and a handle is registered or still in a loop's list (`NothingIsLost`) |
| `WaitProofs!WaitCleansUp` | `Tx!Spec => [](Tx!NothingLeftBehind /\ Tx!OnePathAtATime)` | `TxInv`: answers are true (`TxAnswersAreTrue`), the wait ended on the path it is on (`TxEndedOnItsPath`), the paths exclude each other (`TxPathsApart`) |
| `WaitForTxIsWait` | `Tx!Spec => Tx!ImplementsWait` | initial states map to initial states, each step to `Happens`, `Found`, `TimesOut` or a stutter |
| `KnownIsNotLost` | `Tx!Spec => (indexed /\ faults \subseteq {"timeout"} => []KnownIsUnderWay)`: the safety part of `IncludedIsFound` | `KnownInv`: a transaction that `getTx` knows is about to be asked for, asked for or found while the wait goes on, no query for it comes back empty, and nothing but an outcome sets `resolved` |
| `EventWaitEndsProperly` | `[]EndsProperly`; that no match is missed is said of a wait that goes on, not of the moment it gives up, when one may still be on its way | `WaitInv`: what is on its way to the wait is on the chain (`UnderWayIsLanded`), what it collected matches (`CollectedMatches`), it ended on its path, and the paths exclude each other. For `NoMatchIsMissed`, `Collecting`: the subscription stands from before the query, the index has all that is on the chain, and the results are fewer than the limit; an answer that leaves out a match is as long as the limit (`AnswerIsEnough`, with `HeightIsPlace`) |
| `WaitForEventIsWait` | `Spec => ImplementsWait` | from `WaitInv`, as above |
| `BridgeFlowsProofs!WatchesEndAsAWhole` | `[]EndsAsAWhole` | `WatchInv`: which states the variables both watches share are in during which operation (`WatchTyped`); one lemma per watch, one for the steps of the flows |
| `WhatIsClaimedIsDue` | `[]ResultIsDue` | `DepositInv`: what is on its way to the callbacks is final, and of the right sender and recipient if it comes alone; `ClaimInv`: what is picked is among what was found due, and already claimed only if there was a rival |
| `FlowsAreWaits` | `FlowSpec => ImplementsWaits` | initial states map to initial states, and each step of a watch, a flow or a chain maps, for the wait and for the flow, to `Happens`, `Found`, `TimesOut` or a stutter: one lemma per watch (`WithdrawalSettles`, `DepositSettles`) and one for the flow (`FlowSettles`), on top of `ClaimInv` and `DepositInv` |
| `StoppedWatchIsSilent` | `StoppedIsSilent`, whose one exception is the rest of a transaction that is being passed on | one case per step on top of `FlowInv`: the only timer that may be left tells nobody |
| `ChainContextProofs!ContextTypeCorrect` | `[]TypeOK` | `Addressed`: a call past `naming` has an address |
| `TrackedIsNeverAhead` | `[]NeverAhead` | `AheadInv`: what a call will assign is at most what the mempool expects (`Passed`), and so is what was assigned (`Within`) |
| `ConsecutiveCallsMatch` | `[]NoMismatch` | `StepInv`: only one call runs, its sequence is what the mempool expects once it is created, and the larger of the committed and the local sequence is the expected one whenever no call is running |
| `RetryCannotSendTwice` | `[](~setting.retries => FailedIsNotAccepted /\ ...)`: what 3.2 says fails with the retry interceptor holds without it | `AcceptedIsSent`: a call whose transaction is in the mempool has its answer "ok" or has lost it, and neither leads back to sending |
| `ListingsAreComplete` | `P!Spec => []P!ListingIsComplete` | `ProvidersInv`: a call awaits a fetch of its kind that is under way (`WaitsForFetch`, `AwaitsItsOwn`), calls that go on in one task have awaited the same list (`ReadyTogether`), an entry is a fetch under way or its caller removes it next (`FetchesStand`), and a listing nothing disturbs has what it has passed (`Loaded`) |
| `RoutesAlwaysAgree` | `P!Spec => []P!RoutesAgree` | `RoutesStand`: while no child has changed by itself and no call is between its children's refresh and the rebuild, the routes are those of the chains known |
| `CachedClientProofs!CallersGetTheirAnswer` | `[]AnswersItsQuestion` | `CacheInv`: entries fit their keys (`Fitting`), `pending` holds calls with that key under way (`Entries`, `PendingIsInFlight`), and a joined call has the same cache key (`Requested`, by `SharedKey`) |
| `RequestsAreShared` | `[]OneFlight` | an entry stands for a request under way (`PendingIsInFlight`) and no caller awaits a promise that has settled (`WaitersAreServed`), both from `CacheInv`; `Registered`: before the first clear, every request that caches has its entry |
| `AnswersGoForward` | `[]NeverBackwards` | `OrderInv`: the cache is at least as new as every answer given (`CacheIsNewest`), and so is every request under way relative to the answers given when its callers began (`FlightIsNewer`, `PromiseIsNewer`) |
| `UsernamesProofs!LatestIsRegistered` | `[]SharingIsSound` | `UsernamesInv`: who awaits what (`CallsAreAsked`, `WaitersAreServed`), and the latest request about a key is about that key and runs on its own account (`LatestIsSender`) |
| `SkippersGetFreshData` | `[]SkipIsFresh` | a skipper joins nobody, what it has read so far is fresh (`ReadIsFresh`), and `getMetadata()` finds what it stored: no cached expiry is later than the published one (`EntriesAreOld`) |
| `CacheServesAlive` | `ServedIsAlive`, with 0 for no expiration | an entry lives no longer than its name, if that expires, and than some look-up of its key asked for (`EntriesExpire`), through every merge of `setByName()` |
| `MoveAbisProofs!PermanentEntriesAreCurrent` | `[]PermanentIsCurrent` | `EntriesAreSound`: a permanent entry is of the last version, and the chain has it |
| `StaleAbisCanBeAvoided` | `[]NothingStaleOnRequest`: `useCache: false`, `clearAbiCache()`, and `clearAbiCache(address)` for those who spell the address as it was cleared | what is cached and what is under way are not older than the floors of the cache and of the calls (`Answered`), so neither is what a part uses (`Proper`) |
| `TransactionsAreWhole` | `[]TransactionIsWhole` | `WellShaped`: which parts a call has and which of them may have failed, by where it is |

The invariants are needed because the properties speak of the visible ends (a socket, a
settled call, a returned answer) and say nothing of the suspended functions that will
produce the next ones; each strengthening is a statement about what is suspended, or on
its way. `WaitProofs` extends `WaitForEvent` and has `WaitForTx` as the instance `Tx`, with the
same variables where both have them: they share the abstract `Wait` and lemmas, not steps. Likewise `ChainContextProofs` has the
providers a context takes its chains from as the instance `P`, whose assumption about its
constants the theorems name as `ProvidersConstants`.

Looking for the proofs has changed what is claimed in a few places, each for an execution that
the instances were too small to contain: two calls on one query and a session
that does not reconnect (`Exclusive`, `Reconnects`, 2.1 and 2.2), and the answer of
`getMetadata()` (`KeepsItsAnswer`, 2.7). The conditions are in the properties, so TLC checks
them in this form too.

Only model-checked: liveness (`EveryCallSettles`, `DroppedIsRestored`, `EveryThreadEnds`,
`WaitEnds`, `IncludedIsFound`, `MatchIsFound`, `EventIsTold`, `EveryFlowEnds`,
`RetryGoesThrough`), which needs fairness and is outside the prover's reach; the five properties of
`Conversions`, whose functions are recursive or branch over data the prover has no induction
for.

## 5. What the models leave out

Within the modelled components:

* Contents: messages, events, transactions and answers are identities in the state machines;
  JSON, protobuf and a message that does not parse are not modelled there.
* The order of microtasks beyond `Quiet`. Browsers dispatch each frame in a task of its
  own; a platform that dispatches several frames of one packet before the microtask queue
  is drained (Node's WebSocket may) has further interleavings.
* Exceptions of user callbacks, in part. Those of the callbacks for messages the sessions
  swallow (`cosmos-session.ts:228`), and where such a callback is the library's own (the bridge's
  watches) the models have what an exception loses. An `onConnectionEvent` that throws, which
  would keep the rest of the handler from running, is left out.
* Delays: timers fire at any time after they are armed. Orders that depend on the lengths of
  two timers are therefore all in the model. `Usernames` and `MoveAbis`, whose entries expire, have
  a clock.
* The LRU order: eviction is allowed at any time instead.
* The node's mempool is a counter per account; gas, fees and the contents of transactions
  never cause a refusal there.
* Cryptography: hashes are injective, signatures are what was signed and with which key.
* Proxies: how `contract.execute.name(...)` becomes a call of a function is left out; what the
  call does is in `ContractCalls`.
* Answers: of what a node answers, only what the clients look at; the shapes the types promise
  are taken as given.

Not modelled, with the reason:

* `client/transport.node.ts`, `client/transport.browser.ts`: the construction of @connectrpc's
  transports, which are external.
* `contexts/*`, `chains/*`, `client/create-client-*.ts`, the entry points: construction and
  re-exports.
* `vip/abi/*`: the ABIs (about 2,400 lines of data), of which `Services` has the functions in use.
* `provider/`: what the schemas say of the shape of their inputs.
* `tx/amino.ts`: `fromAmino()`, a change of the case of keys.
* `signer/keystore.ts`: an abstract class; the storage and the lock are the application's.
* `key/mnemonic-key.ts` and the curves: cryptography.
* `examples/`: programs that use the library.
* `*/types.ts` and documentation comments, which make up about half of the lines
  of the source. The map of `PROJECT.json` covers 30 % of the implementation's lines, counted
  with these and the examples. In the modules of 2.10 a helper whose lines are part of those of
  the definition that uses it has no row of its own there.

## 6. Plan

Done, in this order: the Cosmos session (the base of everything that waits), the EVM
session, the waits and their abstract specification, the withdrawal watch, the signing
pipeline, the cached client, with proofs of the Cosmos session, `waitForTx`, the signing
pipeline and the cached client; then the deposit watch and the flows of the bridge, usernames,
Move ABIs and transactions, the providers, and the pure functions; then the requests of the
clients, derived contexts, tokens, wallets, VIP, the lives of contracts and modules, the
WebSocket facade and code generation; then the proofs of the EVM session, of both waits, the
bridge flows, usernames, Move ABIs and the providers.

Next, in the order of what they add:

1. `ChainContext`: `NeverAhead` with an emptied mempool, up to the last eviction.
2. `CosmosSession` below `WaitForTx` and `WaitForEvent`: the session they take at its word
   (`EveryCallSettles`, events lost with a connection) as an abstract specification both share.

To check a module: `tlc -config MCWaitForTx.cfg MCWaitForTx`; to check proofs:
`tlapm WaitProofs.tla`.
