# NEKTE in TLA+

A verification development for the NEKTE protocol implementation
(`src/packages`): TLA+ modules of its stateful parts, TLC configurations that
check them on small instances, and TLAPS proofs of what matters most for every
instance. Line references are to files under `src/packages`.

Contents: 1 the system; 2 the modules; 3 the runs; 4 the proofs; 5 where the
repository's words and its code part; 6 what is not modelled; 7 the plan.

## 1. The system

NEKTE is an agent-to-agent protocol. A *server* offers capabilities and
delegated tasks over HTTP+SSE, gRPC or WebSocket; a *client* discovers, invokes
and delegates, with a cache in front; a *bridge* presents MCP servers as one
NEKTE server. Everything is single-threaded TypeScript on an event loop: what
happens between two `await`s is atomic, and the interleavings are those of
requests, handlers' promises, timers and microtasks.

### Server

| Component | State | Operations | Hard behaviour | What makes it correct |
|---|---|---|---|---|
| Task lifecycle (`core/src/task.ts`) | an entry: status, transition history, checkpoint, abort controller, timestamps | `createTaskEntry`, `transitionTask`, `saveCheckpoint`, five predicates | invalid or repeated transitions; the signal must fire with cancellation | the history explains the status; aborted iff cancelled; an ended entry is frozen |
| Task registry (`server/src/task-registry.ts`) | `Map` id → entry, listeners, cleanup interval | `register`, `transition`, `cancel`, `suspend`, `resume`, `saveCheckpoint`, `on`, `cleanup`, `dispose` | events are delivered in microtasks, after further calls; an id is reused after cleanup while references to the old entry live on | subscribers see every change in order; a live task is never dropped; ended ones are |
| HTTP / gRPC transport, delegate (`server/src/http-transport.ts`, `grpc-transport.ts`) | one call per request: the stream, the handler's promise | register → accepted → running → `await handler` → completed / failed / nothing if aborted | everything can happen during the `await`: cancel, cleanup, reuse of the id, the handler ending the stream itself | every accepted task ends; a late call touches only its own task; nothing follows the last frame; a failure is told while the stream allows it |
| Streams (`sse-stream.ts`, `grpc-stream.ts`) | `closed` | `progress`, `partial`, `complete`, `error`, `cancelled`, `suspended`, …, `close` | written to by handler and transport | at most one last frame |
| Contexts (`server/src/server.ts`) | `contexts`, `contextTimestamps` | `nekte.context` share / request / revoke, delegate, interval | two maps that must agree; expiry against writes | nothing is served late; nothing shared is lost early; no timestamp leaks |
| Discover filter cache (`server.ts` 211-261) | query → ranked ids, time | `nekte.discover` | `now` is read before the `await` of the ranking | bounded; a cached ranking is no older than its TTL |
| Filter strategies (`core/src/filtering/`) | embeddings by capability id | `filter`, `precompute` | two requests embed the same capabilities at once; the provider is slow or rejects; a capability is described anew | nothing is ranked without its embedding; an answer has the best, best first |
| Invoke, capability registry (`server.ts` 263-304, `capability.ts`) | id → capability, version hash | `register`, `invoke`, `filter` | a schema that changes under cached hashes | a stale hash is answered VERSION_MISMATCH |
| Verify (`server.ts` 486-544) | – | `nekte.verify` | the entry is looked up before `await import('node:crypto')` and read after it | what one answer says is of one task, and goes forward in time |
| WebSocket transport (`ws-transport.ts`), request dispatch | connection set | messages, close | requests of one connection interleave with the tasks of other transports | as for verify |
| Authentication (`auth.ts`) | – | a predicate per request | – | – |

### Client

| Component | State | Operations | Hard behaviour | What makes it correct |
|---|---|---|---|---|
| Client (`client/src/client.ts`) | cache, coalescer, transport | `discover`, `invoke`, `delegateStream`, lifecycle calls | responses arrive out of order; VERSION_MISMATCH is retried once; revalidation runs in the background | a call ends after a bounded number of attempts; the cache ends up with what the server has |
| Coalescer (`request-coalescer.ts`) | in-flight key → promise | `coalesce` | callers join between start and settlement | one request in flight per key; the entry is removed when it settles |
| Capability cache (`cache.ts`) | entries by agent and capability, levels, hash, TTLs, negatives, revalidation set | `set`, `get`, `getHash`, `setNegative`, `isNegative`, `invalidate` | stale-while-revalidate; a positive entry arriving while a negative one stands; a hash that changes under cached levels | – |
| Cache store and SIEVE (`cache-store.ts`, `core/src/cache/sieve-policy.ts`) | `Map`, linked list with hand and visited bits, costs | `get`, `set`, `delete`, `evict` | a linked list threaded through a map; eviction chosen by two policies | the list, the map and the store agree; capacity is kept |
| Shared cache (`shared-cache.ts`) | one store, invalidation listeners | `store`, `onInvalidate`, `notifyInvalidation`, `clear` | what one client learns, another uses, perhaps over another transport; the listeners have no caller in `src/packages` | one client's hash is good for every client |
| HTTP and gRPC client transports | read buffer; event queue and waiter | `rpc`, `stream` | chunk boundaries; events that arrive while nobody waits | every frame is yielded once, in order; no lost wake-up |

### Bridge

| Component | State | Operations | Hard behaviour | What makes it correct |
|---|---|---|---|---|
| MCP connector (`bridge/src/mcp-connector.ts`) | connections, their tools, sessions | `connect`, `refreshAll`, `call` | overlapping refreshes; a server that fails or hangs | tools and signature agree with the last answer |
| Catalog (`bridge/src/catalog.ts`), bridge (`bridge.ts`) | capability id → tool; the signature last built | `buildFrom`, `init`, periodic refresh | a refresh timer over slow servers | the catalog catches up with the tools |
| Discovery and invocation (`bridge.ts` 162-244) | requests that await a strategy or a tool | `nekte.discover`, `nekte.invoke` | the hash is checked against a catalog that is old by the time the tool runs | agents are told of what the servers list, as soon as these stand still; an answer fits its budget |
| Stdio session (`mcp-connector.ts` 298-420) | a child process, the pending requests by id | spawn, `send`, a line of output, a 10 s timer per request, kill | child death; timeouts; late and repeated answers; requests of the child's own; a child that outlives its signal | a result answers the request; no child is left without its signal; every session ends |

### Pure parts

`core/src/budget.ts`, `codec.ts`, `hash.ts`, `filtering/keyword-strategy.ts`, `sse.ts` (codec),
`msgpack.ts`, `schema.ts`, `grpc-types.ts`, `cache/token-cost.ts`; `bridge/src/compressor.ts`.

### Interactions

Client → transport → server's request handler; the HTTP and gRPC transports
call `NekteServer.delegateHandler` themselves and drive `NekteServer.tasks`;
lifecycle requests reach the same registry; timers run the cleanups. On the
client, `discover` fills the cache, `invoke` reads the hash from it, the
coalescer wraps `discover`, the cache calls back for revalidation and for
eviction decisions its store asks SIEVE. In the bridge a timer refreshes the
connector, whose signature decides whether the catalog is built again.

## 2. The modules

| Module | Models | Composition |
|---|---|---|
| `TaskLifecycle` | `task.ts`: statuses, transition table, predicates, what `transitionTask` and `saveCheckpoint` leave in an entry | extended by `TaskRegistry` and `Delegation` |
| `TaskContract` | the lifecycle as the rest of the system may rely on it | abstract; implemented by `TaskRegistry` and by `Delegation` |
| `TaskRegistry` | `task-registry.ts`, every call, the microtask delivery of events, the cleanup timer, `dispose` | |
| `Delegation` | the delegate branches of both transports, the application's handler with its stream and the registry, `nekte.task.cancel`, `nekte.task.resume`, cleanup | |
| `ContextStore` | the two context maps of `server.ts` | |
| `SieveList` | `sieve-policy.ts`: the doubly linked list, its map and its hand | extended by `CacheStore` |
| `SieveQueue` | SIEVE as it is described: a queue, the visited keys, the hand | abstract; `CacheStore` checks that `SieveList` computes it |
| `CacheStore` | `cache-store.ts` as `cache.ts` drives it | over `SieveList` |
| `NekteClient` | `client.ts`, `cache.ts`, `request-coalescer.ts`, `shared-cache.ts`, and of the server its registry, `discover` and `invoke` | |
| `EventStream` | what `Transport.stream` promises | abstract |
| `SseReader`, `GrpcStream` | the generators of the client's HTTP and gRPC transports | composed by `TransportStream`, which implements `EventStream` |
| `RankingStrategy` | the keyword, semantic and hybrid rankings, and what a ranking is meant to be | operators; extended by `DiscoverFilter` |
| `DiscoverFilter` | `handleDiscover` with a query and its result cache, the match of `handleDelegate`, the embeddings of a strategy | over `RankingStrategy` |
| `BridgeCatalog` | `bridge.ts`, `catalog.ts` and the tool lists of `mcp-connector.ts` | implemented by `BridgeInvoke` (proved) |
| `TokenBudget` | `budget.ts`, the representations of `capability.ts` and `compressor.ts`, and what the best fit is | operators; extended by `BridgeInvoke` |
| `BridgeInvoke` | `nekte.discover` and `nekte.invoke` at the bridge | `BridgeCatalog` goes on beside its requests |
| `StdioSession` | `stdioSession` and its two users | |
| `GrpcWire` | the converters of `grpc-types.ts`, the handlers that call them, proto3's defaults | |
| `WsSession` | one WebSocket connection and the request handlers it reaches, `handleVerify` in particular | |

Every `*Proofs` module extends the modules it is about; every `MC*` module
instantiates one for TLC. `PROJECT.json` maps each definition to its lines.

How state and actions correspond to the code:

- **One turn of the event loop is one action.** What runs between two `await`s,
  or in one callback, is one step, with everything it calls. A promise that
  settles and the code after the `await` are two steps. A call that throws before
  it changed anything is a stuttering step.
- **Time is an age.** `Date.now() - t` is a number of ticks that stops at the
  first value beyond every limit (`TaskRegistry`, `Delegation`, `ContextStore`,
  `DiscoverFilter`), or the transition it causes: an entry of a cache goes stale
  and expires at any time (`CacheStore`, `NekteClient`), since every `set`
  multiplies its TTL by a random factor. A timestamp that is missing reads as one
  of 1970: an age beyond every TTL.
- **Entries are objects.** `Ref` in `TaskRegistry`, calls in `Delegation`: a
  reference outlives the map's entry, and an id is registered again as another
  object. Events carry the reference, as `emit` does.
- **`Delegation`.** The registry is one for HTTP and gRPC. A handler may do at
  each step what `DelegateHandler` receives the means to: send frames, end its stream with a
  last one, close it without one, suspend its task. Frames are told apart by the method that
  writes them: one given to `send` itself leaves the stream open, whatever its event. A handler
  that calls `server.tasks.transition` or `cancel` on its own task is not modelled. Whether an error after the response head
  brings the process down depends on Node's handling of an unhandled rejection:
  both outcomes are taken.
- **`CacheStore`.** Nodes are named by their key, as each key has one.
  `accessCount` stops at `MaxCount`, `MaxEntries` is at least one (with nought the loop of
  `set` would not end).
- **`NekteClient`.** A version stands for a schema and its hash. A request is
  sent, answered and received in three steps. The `finally` of the coalescer is
  one with the settlement. A handler's own error counts as a lost call. `Dropped`
  is `invalidate`, eviction or expiry. Which clients use gRPC is chosen at the
  start; over gRPC the answers stay in their proto form and errors lose their code. `cached`,
  `refusedBy` and `ran` of an invocation are history, for `OneRunPerInvoke`.
- **`SseReader`.** A frame is three tokens and a chunk is any non-empty prefix of
  what is on its way. **`GrpcStream`.** Callbacks come in any number between two
  runs of the generator. What `EventStream` sees of either is how many frames have come,
  yielded or not, and whether the connection failed: it throws only when it has failed and
  nothing that came is left.
- **`DiscoverFilter`.** The strategy a server was given is chosen at the start. A
  capability is its id and its description, and `register` may describe it anew;
  embeddings are kept per id, as in the code. The provider is external: it answers
  at any time or rejects. A call waits in `embed` while it lacks embeddings and in
  `query` for the query's; the keyword strategy waits in `query` only, for its own
  promise. `from` is history, for the properties: what an answer was made of and
  how long ago.
- **`RankingStrategy`.** How a query is found in a text and how similar two
  embeddings are is a parameter; scores are percentages. The capabilities given
  are a set and the position of each, since `Array.prototype.sort` is stable.
  `filter.category`, which picks among the capabilities before they are ranked,
  is left out.
- **`BridgeCatalog`.** `connect` is atomic at the arrival of the answer; the MCP
  servers change their lists at will. A server fails a request, or answers it with an error,
  which `?? []` reads as an empty list (`ServerRefuses`).
- **`BridgeInvoke`.** A request looks its entry up once. The catalog is built anew
  and the servers change between that and the answer. The server runs what it
  lists when the call arrives; the time between its answer and the bridge's is not
  a step, as nothing others write is read in it. The hash of a tool stands for its
  input schema: the bridge gives every tool the same output schema.
- **`TokenBudget`.** A representation is its number of characters. The minimal one
  follows from the text a tool returned; the length of the compact one depends on
  the structure of the text and is any number.
- **`StdioSession`.** Children are external. `kill` sends SIGTERM: the child may print on, exit
  later, or ignore it. Whether writing to a child that is gone raises EPIPE
  is not determined.
- **`GrpcWire`.** A field is absent, zero or set, a set threshold comes out rounded to 32 bits (one
  below their range, which would read as zero, is not told apart), and a message that was not sent
  has no fields; an exception in the `data` callback ends the client's side. `category` and `id` of a filter are converted as
  `query` is and left out.
- **`WsSession`.** Tasks belong to other transports; the module's requests read
  and move them. A socket that the transport has begun to close still brings
  messages, whose replies go nowhere. A verification runs up to the import before its next hash
  check, in whatever order it asks.

## 3. The runs

| Run | Instance | Distinct states | What it shows |
|---|---|---|---|
| `registry` | 1 id, 2 entry objects, 1 subscriber, 4 transitions an entry, 2 queued events | 577 000 | the history explains the status; live tasks are kept; a subscriber sees every change in order and every final status; ended tasks are dropped; the contract is implemented |
| `delegation` | 2 calls under 1 id, 2 frames before the last | 368 000 | no orphan; an unaborted call owns its id; the last frame is last; no task fails behind an open stream, and one left open tells of the failure; a late call leaves its id's next task alone; everything ends |
| `context_store` | 2 ids, TTL 0 to 2 | 57 000 | nothing is served late, lost early or kept for ever |
| `cache_store` | 4 keys, capacity 3, costs 1 and 3 | 174 000 | map and sieve agree, capacity is kept, eviction takes one entry and not the worthiest, the list computes SIEVE |
| `client` | 1 client over either transport, 2 versions, 2 discoveries and 1 invocation in flight | 571 000 | no call over HTTP is lost to a version; an input runs once at most, under another schema only after a refusal; refreshes are coalesced and, over HTTP, end; the hash catches up |
| `client_mismatch` | 2 clients with one store, one over gRPC | violation | section 5 |
| `bridge` | 2 servers with a tool of one name, 2 overlapping callbacks, 1 request | 643 000 | no change is lost; answers fit their budgets; agents are told the truth once the servers stand still, though some fail for good |
| `transport_stream` | 4 frames over either transport | 30 000 | no lost wake-up, no frame held back, `EventStream` is implemented: nothing is lost before an error; the iteration ends |
| `discover_filter` | each strategy; 2 capabilities, one described anew; 3 requests and an id, room for 1 result; 2 rankings at a time | 1 336 000 | the cache is bounded, hits are young, nothing is ranked without its embedding, answers are the best, best first |
| `stdio` | 2 sessions, 2 lines each | 24 000 | results answer requests; no child is left without its signal; sessions end |
| `grpc_wire` | 3 events, every kind; calls with every combination of fields absent, zero and set | 781 000 | an event arrives whole or the stream stops before it; what a call asks with arrives, a zero as not given |
| `ws_session` | 2 requests, 2 registrations of the id, 4 orders of checks | 4 476 000 | a verification is of one task and looks forward |

Why the bounds are enough:

- *registry*, *delegation*: the hazards need an id that is reused while the
  first object lives on, hence two objects for one id; four transitions contain
  suspension, resumption and an end; two queued events make a listener late. Two
  ids share no state but the cleanup, whose decision is per entry, and the proofs
  cover any number.
- *cache_store*: eviction considers three candidates, so a store of three with
  four keys evicts with all entries, or fewer, as candidates; two costs and one access
  make priorities differ.
- *client*: an answer overtakes another with two discoveries; a refresh and a
  discovery race; a retry needs a version to change twice, and two versions may
  alternate for ever. Several clients are covered by the proofs.
- *transport_stream*: with four frames a chunk can end before, in and after a
  frame that is neither the first nor the last.
- *discover_filter*: a limit of one is exceeded by a second key; a TTL of one tick
  tells young from old; two rankings of one query, or of two, may end in either
  order. Two capabilities can be ranked one before the other, and both requests may
  embed them at once. The texts asked for are found in an id, in a description and
  by words; the rankings of the strategies differ on them.
- *bridge*: one request meets every state of the catalog and of the callbacks,
  and requests share nothing else. The two servers offer different lists, so that a
  tool changes its schema, goes, or moves from one server to the other. Either server, or both,
  may from some time on fail or refuse every refresh. One result is cut
  to 20 tokens by its minimal representation only; every choice of a representation is covered by
  `BudgetsResolve` in `MCBridgeInvoke`, which compares `resolveBudget` with its
  reference for lengths around the limits, and by the theorem.
- *stdio*, *ws_session*, *grpc_wire*: two of everything that may overlap;
  sessions share nothing but the process. The lists of checks have the hash first, later, twice
  and not at all.

Symmetry is used in `cache_store`, `discover_filter` and `ws_session`, which check no liveness.
`CHECK_DEADLOCK FALSE` stands where the system may stop: the server process went
down (`delegation`), every session, stream or request is over (`stdio`,
`transport_stream`, `ws_session`, `grpc_wire`).

Fairness, and why the code justifies it:

| Module | Assumed | Because |
|---|---|---|
| `TaskRegistry` | delivery of events, the clock, the cleanup timer while it is set | microtasks and intervals run |
| `Delegation` | a handler's promise settles; its transport goes on; clock and cleanup | of the handler this is an assumption about the application: nothing enforces `timeout_ms` |
| `ContextStore` | the clock and the interval | `setInterval` |
| `NekteClient` | a request of a client over HTTP settles; the cooldown ends | `timeoutMs` aborts every `fetch`, `setTimeout` frees the cooldown; the gRPC transport has no deadline, so nothing is assumed of its requests and `RefreshEnds` is about HTTP |
| `BridgeInvoke` | the timer fires; a request to a server, or to the provider of embeddings, is answered or fails | `setInterval`; 10 s for stdio; for HTTP the limits of `fetch` |
| `TransportStream` | the timer (HTTP); delivery and microtasks; an application that goes on asking. The server need not end | |
| `StdioSession` | the timers of the requests | `setTimeout`; nothing is assumed of the child |

`HashCatchesUp` and `InvocationsCatchUp` say of the environment, in their
antecedents, that it comes to rest. For `HashCatchesUp` the schemas stop changing, calls over
HTTP get through, and the application goes on invoking. For `InvocationsCatchUp` the lists stop
changing and each server either answers every refresh or none any more; of the latter the truth is
what was last held of them.

## 4. The proofs

| Module | About |
|---|---|
| `TaskRegistryProofs` | `TaskRegistry`, and `TaskContract` |
| `DelegationProofs` | `Delegation` |
| `ServerProofs` | `ContextStore`, `GrpcWire`, `WsSession` |
| `DiscoverFilterProofs` | `DiscoverFilter`, `RankingStrategy` |
| `NekteClientProofs` | `NekteClient` |
| `CacheStoreProofs` | `CacheStore`, `SieveList`, `SieveQueue` |
| `TransportStreamProofs` | `SseReader`, `GrpcStream`, `TransportStream`, `EventStream` |
| `BridgeProofs` | `BridgeCatalog`, `BridgeInvoke`, `TokenBudget`, `StdioSession` |

TLAPS checks them. They hold for all sets of ids, objects, calls, servers,
clients, keys, frames and versions and for all bounds. The assumptions are the named ones
of the modules: an "undefined" that is not a value (`NoRefAssumption`, `NoCallAssumption`,
`NoContextAssumption`, `NoEntryAssumption`, `NullAssumption`), bounds that are numbers
(`BoundsAssumption`, `MaxTtlAssumption`, `MaxEntriesAssumption`, `CostAssumption`,
`StdioAssumption`), or both, with the shape of what is configured or asked
(`TransportAssumption`, `BridgeAssumption`, `InvokeAssumption`, `FilterAssumption`,
`RankingAssumption`, `ScoreAssumption`, `ClientAssumption`, `GrpcWireAssumption`,
`WsSessionAssumption`). No theorem has a hypothesis beyond these.

Every safety and action property of section 3 is stated by a theorem. **Only
model-checked** is liveness, since fairness and `ENABLED` are beyond the prover:
`FinalStatusIsDelivered`, `EndedTasksAreDropped`, `DelegationEnds`, `ExpiredContextsGo`,
`RefreshEnds`, `HashCatchesUp`, `InvocationsCatchUp`, `IterationEnds`, `SessionEnds`; and
`client_mismatch`, which is a violation.

Loops and positions in sequences call for induction. The library's induction theorems
cannot be instantiated with the installed provers, so those proofs look at the
least counterexample instead, or at a longest prefix: a set of numbers that is not empty
has a least one, and a bounded one has a greatest.

- **Registry and delegation.** Neither invariant follows step by step from the
  code's actions without repetition, so each step is first shown to be of one of
  a few kinds (`StepKinds`): an entry is created, moved along the table, kept, or
  dropped from the map (and, in `Delegation`, a call is refused or settled). Each
  part of the inductive invariant is then shown to survive each kind.
  `RegistryInv` needs, beyond the checked invariants, that a registered entry
  exists and is registered under one id. `DelegationInv` needs that an unsettled,
  unaborted call owns its id: `transition(id, ...)` after the `await` moves the task *by
  name*, and only the invariant says that the name still means the call's own
  task. `StreamInv` adds that an unsettled call has a stream and that one which has not begun
  has no frames; `FailuresAreTold` then looks at each settlement. Theorems: `RegistryTypeCorrect`, `HistoryIsSound`, `AbortMeansCancelled`,
  `NoLiveTaskIsLost`, `EndedTasksStayFrozen`, `RegistryImplementsContract`; `DelegationTypeCorrect`,
  `NoOrphans`, `CallsOwnTheirIds`, `SettlementIsLocal`, `NothingFollowsTheEnd`,
  `FailuresAreTold`, `DelegationImplementsContract`.
- **Subscribers.** `FollowersKnowTheEnd`: for each subscriber and entry, what it was told
  last and the events queued for it are the end of the entry's history, without a gap.
  To be inductive (`FollowInv`) this also says that a listener that has not subscribed
  has nothing queued and knows nothing, and that an entry not yet created has no history.
  `emit` appends to every queue, a microtask takes the head, and events about other
  entries change nothing (`QuietFollows`).
- **Contract.** `SignalsAreCancellations` and `EndsOnce`: what every implementation inherits.
- **Contexts.** `ContextInv` relates the age the server computes to the age of the
  content: never younger, exact after a share. `NothingIsServedLate`, `NoStampLeaks`,
  `SharedContextsLast`.
- **gRPC messages.** `EventsInv`: the wire holds the last of the events sent, and the client
  the whole ones of all before them; so `EventsArriveWhole`. `CallsArriveAsAsked`
  looks at each conversion: a zero and a field left out read alike, so it says of each field that
  it arrives exactly when it has a value.
- **WebSocket.** `WsInv`: what a request has been told goes forward check by check and is of the
  entry it holds, no later than what that entry is now; one that waits has its next hash check
  ahead. The status moves only with the count of transitions, so an entry seen twice with
  the same count is the same. `VerificationsLookForward`.
- **Discovery.** `Sound` adds to the checked invariants that a call has an embedding
  for whatever it does not still wait for (`CallCovered`), which survives because embeddings
  are replaced and never removed, and that an entry is exactly as old as what it was made
  of (`EntrySound`); a hit is then young because the entry found is the only one of its key.
  `ResultCacheBounded`, `HitsServeYoungEntries`, `RankedByEmbeddings`.
- **Best first.** `Sorted` puts a capability in the place that the number of those before it says;
  these ranks are a bijection, by the pigeonhole principle (`RanksNumber`), so the sort has
  every capability once and in order (`SortedSorts`), and cutting it keeps the best
  (`CutIsBest`). `Ranked` says beside `Sound` that no two registered capabilities share an
  id, that those of a call were registered together, and that an entry of the result cache
  has the ids of a ranking of what it was made of. A hit looks these ids up again and drops
  those no longer found: what is left is still in the order of the ranking. `AnswersAreBestFirst`.
- **Client.** `RefreshInv`: a refresh in flight holds its key, alone
  (`RefreshesAreCoalesced`). `CallsAreConsistent`: only a hash can mismatch, and a second
  attempt carries none; it is sent only after a refusal, which means that the first did not
  run (`CallsRunOnce`, `RetrySucceedsOverHttp`). `ClientTypeCorrect`.
- **Cache store.** The links, the map and the hand of the sieve are sound when some sequence of
  distinct keys is the list they form (`IsList`); each method takes a sound sieve to the list
  one expects (`InsertAppends`, `RemoveTakesOut`, `EvictTakesOut`). The loop of `evict` ends
  at the first node without a visited bit or at its own limit (`LoopEnds`). `Kept`: the store's map and the sieve hold the
  same keys, no more than `MaxEntries`. `StoreStaysSound`, `WorthiestSpared`. For `ListIsQueue` the list is read as a
  queue with its hand, and each method is shown to do what `SieveQueue` says, `evict`
  by the place in the round at which the hand comes to rest (`LoopEndsInRound`).
- **Streams of the client.** `WireInv`, over HTTP: the frames received, those split off and
  the tokens in the buffer and on the wire are, one after the other, what was sent. That a
  chunk is split where it should be (`SplitWritten`) follows from where the blank lines of
  such tokens are. Over gRPC: the same of the frames received, queued and on the wire; an end
  without an error has seen them all; and the reader sleeps only while the queue is empty.
  `NothingIsHeldBack`, `FramesComeAsPromised`, the latter a refinement of `EventStream`, whose
  `Throw` needs that the queue, or the last chunk, is used up.
- **Bridge.** `BridgeInv` is inductive as checked, because a callback remembers
  that it changed something until it has built the catalog: `SignatureNeverMasks`,
  `ChangesReachTheCatalog`, `BridgeTypeCorrect`. A request changes nothing that
  `BridgeCatalog` has, so `BridgeInvoke` implements it (`ImplementsBridgeCatalog`) and
  inherits these (`ChangesReachTheAgents`). `ResolvesBestFit` is about `resolveBudget` alone:
  its three loops find what the reference definition describes, for every result and
  budget. `AnswersFit` needs no more than that an answer was made from the request it
  carries, but for this the requests at work have to be typed.
- **Stdio sessions.** `SessionInv` alone does not say that a session waiting for the answer to its
  request has sent it; `RequestWasSent` does, and the two are inductive. `SessionsEndClean`, `RepliesMatchRequests`.

The type invariants are proved. Those of the modules proved first are not among the runs;
those of the others are conjuncts of `StoreInv`, `StreamInv`, `FilterInv`, `SessionInv` and
`VerifyInv`, which the runs check.

## 5. Where the repository's words and its code part

Run `client_mismatch` shows one disagreement as a trace: a client learns a hash
over HTTP into the shared cache, the capability changes, and the client that
shares the cache but speaks gRPC sends the hash. `server/src/grpc-transport.ts:150`
answers every protocol error as INTERNAL, `isVersionMismatch` is false, and the
call fails, where `docs/RFC.md:451` promises an "inline schema refresh".

Others were met while modelling. The modules follow the code, so no property
states the words:

| Code | What it does | The words |
|---|---|---|
| `http-transport.ts:80` (server) | a task whose `complete` frame has been sent can still end cancelled or failed | `sse.ts:48` "Task completed successfully" |
| `http-transport.ts:81` | a handler that suspends its task and returns makes it fail: suspended to completed is no transition | `sse.ts:82` "can resume" |
| `http-transport.ts:87` | a cancelled call's stream closes without a `cancelled` frame | `PROTOCOL_FLOWS.md:99` |
| `http-transport.ts:90` | after a handler that calls `close()` and then throws, no error frame is written: the stream ends in silence, the registry says failed | `sse-stream.ts:63` "Send error event and close the stream" |
| `sse-stream.ts:107` | a `complete` event given to `send` itself leaves the stream open, and further frames may follow | `sse-stream.ts:50` |
| `http-transport.ts:78` | nothing enforces `timeout_ms` | `SPEC.md:684` |
| `server.ts:447` | resume moves the status and calls no handler | `SPEC.md:405` "re-invokes the delegate handler" |
| `server.ts:309` | a delegated context has no timestamp, so it counts as expired at once, or keeps an older one | `SPEC.md:682` |
| `server.ts:216` | the cache key leaves `filter.id` out: a ranking made for one id answers the same query without it | `PERFORMANCE.md:223` "identical queries" |
| `server.ts:250` | the result cache evicts the entry inserted first | `server.ts:100` "LRU cache" |
| `server.ts:499` | a hash asked for after another check may be of a later state of the task than that check | `SPEC.md:507` |
| `server.ts:306` | a delegation over WebSocket registers no task | `SPEC.md:146` |
| `client.ts:173` | the first discovery of a client caches nothing | `shared-cache.ts:15` |
| `client.ts:228` | after a mismatch the same input is sent without a hash and runs under whatever version is there | `RFC.md:426` |
| `cache.ts:107` | a newer hash is put beside levels of an older schema | `SPEC.md:108` |
| `cache-store.ts:173` | the cheapest of three candidates goes, not the cheapest of all | `cache-store.ts:164` |
| `grpc-transport.ts:182` (client) | the answer to `discover` is not converted; iterating its `caps` throws | `transport.ts:8` |
| `grpc-types.ts:435` | a `complete` event without one of its JSON levels throws in the `data` callback | `SPEC.md:775` |
| `grpc-types.ts:375` | a zero threshold or `top_k` becomes the default | `types.ts:242` |
| `grpc-transport.ts:138` (client) | `nekte.context` is not converted; its data arrives empty | `nekte.proto:105` |
| `grpc-transport.ts:281` (server) | without `config.taskRegistry` the lifecycle calls answer UNIMPLEMENTED | `GETTING_STARTED.md:182` |
| `mcp-connector.ts:425` | a new description alone never reaches the catalog | `mcp-connector.ts:89` |
| `grpc-types.ts:231` | a delegated context without `budget_hint` arrives with one of nought | `types.ts:109` |
| `grpc-transport.ts:312` (server) | the budget of a resume is converted and not read | `types.ts:296` |
| `semantic-strategy.ts:43` | a capability that is registered again keeps the embedding of its old description | `semantic-strategy.ts:40` "after registering capabilities" |
| `server.ts:212` | a query must be found word for word in an id or a description before the strategy sees the capability | `PERFORMANCE.md:219` |
| `hybrid-strategy.ts:62` | a capability beyond the ten the semantic strategy returns by default counts as if it had no similarity | `hybrid-strategy.ts:2` "Weighted combination" |
| `budget.ts:55` | where nothing fits, a result is answered with a representation beyond the budget, perhaps one more detailed than asked for | `types.ts:17` "receiver MUST respect" |
| `compressor.ts:54` | the text that fits is put into an object afterwards, which is not counted | `SPEC.md:78` |
| `mcp-connector.ts:259` | an error reply to `tools/list` takes all tools of the server out of the catalog | `mcp-connector.ts:108` "Failed to refresh" |
| `mcp-connector.ts:387` | a request of the child's own that carries the pending id settles the session with nothing | `mcp-connector.ts:361` |
| `mcp-connector.ts:418` | a child that ignores SIGTERM runs on | `mcp-connector.ts:361` "then kill" |
| `mcp-connector.ts:368` | a command that cannot be run raises an `error` event nobody listens to | `PERFORMANCE.md:275` "Individual failures logged" |

## 6. What is not modelled

- **Conversions**: codec, hashes, MessagePack, zod schemas, logging. A version
  stands for its hash, a level for what it contains.
- **Cosine similarity** and the search for words in a text: parameters of
  `RankingStrategy`. `filter.category`. The counters of the bridge's **metrics**, which only
  their report reads. The lengths of the compact representation of a tool's result.
- **HTTP routes of the bridge, command lines, authentication, benchmarks, demo,
  website**: no state of their own, or programs that use the packages.
- A second delegation of a registered id over HTTP ends in a rejected request, of
  which only the outcomes are modelled; a `tools/list` over HTTP or a gRPC call
  that is never answered is excluded by fairness; a gRPC stream that the
  application leaves early stays open, which no property says is wrong.

## 7. The plan

The order was: lifecycle, registry and delegation first, as everything else
depends on them; then the client with its caches; the bridge with its catalog;
the streams; the edges (wire formats, WebSocket, stdio); then rankings, budgets and
the bridge's requests. What is left:

1. Extend: `NekteClient` against the bridge's server instead of the agent's own, so that a
   hash is checked against a catalog that is rebuilt.
2. `TransportStream` under a task: `Delegation`'s frames read through `EventStream`, so that
   what the last frame says and what the caller ends up with are one property.
