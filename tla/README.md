# A verification development for AI-Trace

AI-Trace records what an AI application asked and was answered, chains the
records by hash, and issues certificates over them: a Merkle root, a signature,
and, depending on the evidence level, a locked object in a WORM bucket or an
anchor on a chain. This directory holds TLA+ modules that model its server
(`src/server/internal`), its contracts and its offline verifier, TLC
configurations that check them on small instances, and proofs that TLAPS checks
for every instance.

File references are relative to `src/server/internal` unless they begin with
`src/`.

1. [The system and its parts](#1-the-system-and-its-parts)
2. [Plan](#2-plan)
3. [Modules](#3-modules)
4. [Runs](#4-runs)
5. [Where the code does not do what is said of it](#5-where-the-code-does-not-do-what-is-said-of-it)
6. [Proofs](#6-proofs)
7. [What is not modelled](#7-what-is-not-modelled)

## 1. The system and its parts

### The evidence pipeline

| part | state | operations | correct when |
|---|---|---|---|
| gateway (`gateway/gateway.go`, `gateway/stream.go`) | the events of one request, in memory | forward a request, read the answer or the stream, build INPUT, MODEL, CHUNK, OUTPUT events with their hashes | every event names its predecessor |
| chat handlers (`api/chat.go`) | one background goroutine per request | answer the client; store the events one INSERT at a time | every event is stored, or its failure is logged |
| event table (`api/events.go`, `src/scripts/init.sql`) | rows | `storeEvent`, ingest, queries by trace | rows are never lost |
| certificates (`api/certs.go`) | table `certificates` | `CommitCert`: query, tree, signature, WORM upload, INSERT | a certificate covers what the trace had, in chain order |
| WORM bucket (`store/worm.go`) | objects, locked or not | `StoreCertificate` | the object and its certificate agree |
| reading (`api/certs_*.go`, `api/events.go`, `src/verifier`) | none | search, report, verify, prove | pages miss nothing; the server and the offline verifier agree |
| Merkle trees (`merkle/tree.go`, `src/verifier`) | none | build, prove, verify | builder, prover and offline verifier agree |

The gateway calls back into the stream handler for every chunk. The handlers
and `CommitCert` share nothing but the event table; nobody waits for the
goroutine. What is hard: commits that interleave with the goroutines of several
requests of one trace, an INSERT that fails or times out with its row written,
a crash between any two of these steps, and the order of equal sequence numbers.

### The asynchronous library

`integration/example.go` wires these together; no handler uses them yet.

| part | state | operations | correct when |
|---|---|---|---|
| queue (`queue/queue.go`) | a buffered channel, handlers, counters | publish, work, retry, stop | a message is in one place and settles |
| batch processor, delayed queue (`queue/worker.go`) | a buffer; a list of due times | handle, flush, stop; delay, publish | what is delayed or acknowledged is processed once |
| batch anchorer (`anchor/batch.go`) | pending items, batches, counters | submit, flush (three callers), anchor, notify, stop | an item is in one batch, answered once and truthfully |
| incremental tree (`merkle/incremental.go`) | levels of nodes | append, snapshot, restore, prove | it is the tree of its leaves |
| event DAG (`dag/`) | nodes with links and depths, a reader-writer lock | add, sort, group, verify | links and depths follow the order of arrival; calls return |
| trace processor (`integration/example.go`) | tree, queue, anchorer | process an event, commit a certificate, flush, stop | a committed root covers what was acknowledged before |

What is hard: submitters, ticker, goroutines and `Stop` that race for the same
items; state that is read under a mutex and acted on after it; a channel that is
full when a retry comes back; a lock taken twice.

### Services beside the pipeline

| part | state | operations | correct when |
|---|---|---|---|
| circuit breaker (`gateway/circuit_breaker.go`) | state, counters, time of the last failure | allow, record, reset, retry | it opens in time, limits its probes and closes again |
| provider registry (`gateway/provider.go`) | providers by priority | register, choose, translate | registration order decides only ties |
| cache (`cache/cache.go`) | an L1 per process over one L2 | get with backfill, set, delete, clear, cleanup | stale copies die out |
| rate limiter (`middleware/middleware.go`) | tokens per client | allow, cleanup | it is a token bucket |
| automatic certification (`cert/auto_strategy.go`) | a strategy under a lock | evaluate, replace | a verdict is of one strategy |
| keys and content (`crypto/keystore.go`, `store/encrypted.go`, `api/decrypt.go`, `store/decrypt_audit.go`) | a data key per tenant, in memory; objects; audit rows | store, decrypt, rotate, delete, restart | what was stored can be read; what was read was audited |
| proof service (`zkp/`) | keys of prover and verifier, cached proofs | initialize, prove, verify | kept proofs stay valid |
| fingerprints (`fingerprint/`, `store/fingerprints.go`) | rows | collect, save, compare, verify, list | similarity is sound; two reads fit together |
| health (`api/health.go`) | none | detailed, ready | 200 and 503 are earned |

### Other parties

| part | state | operations | correct when |
|---|---|---|---|
| federation (`anchor/federated.go`) | nodes, their known anchors | anchor, confirm, verify, add and remove nodes | an anchor has enough confirmations of distinct nodes; `Anchor` returns |
| Ethereum (`anchor/ethereum.go`, `anchor/contracts/`) | pending transactions, blocks | nonce, send, wait, verify | what is reported is on the chain |
| registry (`src/contracts/AITraceRegistry.sol`) | attestations | create, anchor, revoke | the root of an attestation is written once |
| arbitration (`src/contracts/AITraceArbitration.sol`) | disputes, votes, stakes, reputation | dispute, vote, resolve, expire, manage | a stake leaves once; counters count accounts |

`PROJECT.json` lists every component, the ones left out too, and the hazards
that the properties are for.

## 2. Plan

Order, the most important behaviour first: the breaker; the pipeline with its
abstract ledger; the trees; the batch anchorer with its abstract promise; the
queue; then the vault, the DAG, the contracts, the federation, the helpers and
the readers. All of them are written, and every safety property that a run
checks is proved. What is left: `TraceProcessor` as a composition of
`MemoryQueue`, `BatchAnchor` and `IncrementalTree` themselves, where it now states
what it needs of each.

The runs are kept to about a dozen: parts that share nothing are checked side by
side in one run, whose first state decides which is at work, so the run has the
sum of their states and not the product.

## 3. Modules

Parameters are CONSTANTS with a named ASSUME; an action is one operation or one
section under a mutex; each operator of the code keeps its name. An operator
`X_Something` is `X` with a plausible mistake in it; each property is shown to
fail when `X` is replaced by one of these.

### CircuitBreaker (`gateway/circuit_breaker.go`)

Every method of the breaker holds its mutex throughout and is one action; a
caller's way through `ResilientExecutor.Execute` (allow, attempts, back-offs,
record) is a sequence of actions. `elapsed` is the age of `lastFailureTime`,
saturated at `OpenTimeout`, which is all the code reads of it. Half-open is
never stored; it is derived from an open state of sufficient age, as
`currentState()` does. `probes`, `probed` and `streak` are history variables.

### EvidencePipeline (`gateway/*.go`, `api/chat.go`, `api/certs.go`, `store/worm.go`)

| variable | code |
|---|---|
| `pc`, `streamed`, `trace`, `chunks`, `answered` | one request: handler, `traceCtx`, `chunkIndex`, response |
| `cursor` | the loop variable of the goroutine over `result.Events` |
| `rows`, `certs` | the tables |
| `worm` | objects of the bucket, locked or not |
| `commit` | the local state of one `CommitCert` |
| `dropped`, `faults` | history; budget of failures |

An event is its request, kind, sequence number and the number of its
predecessor. `EventAt` gives the order of storing, in which OUTPUT precedes the
chunks it follows in the chain. A failed call may have had its effect. `tie` is
the order the database chose for rows of equal sequence number. `Crash` ends
everything that is in memory. `CertifiedLedger` is the abstract specification:
a ledger that only grows, pages read from it at one moment, and certificates
that are exactly their page.

The schema is that of `src/scripts/init.sql`, which `src/docker-compose.yml`
loads. `src/server/deploy/init.sql` differs: no column `timestamp`, which
`storeEvent` inserts, `UNIQUE(trace_id, sequence)`, which would refuse a second
request of a trace, and an `evidence_level` too short for "compliance".

### CertificateDesk (`api/certs_*.go`, `api/events.go`, `report/`, `src/verifier`)

What clients do with the two tables. `SendEvents`, `IngestNext` and `SendAgain`
are `IngestEvents` and a client that sends its list again, because it was told of
an error or nothing at all. A search is a COUNT and a SELECT, a report four
queries, and rows are inserted between them, in any order of their times. Rows
may have the same time (`TimeOf`: clients give it, and may leave it out): the
queries order by it alone, so what a LIMIT and OFFSET give is a choice
(`Firsts`, `PagesOf`) that the database makes anew in every query.

One certificate may be damaged in one field (`damage`), of which the server's
verdict and the offline verifier's are compared. A timestamp is its seconds and
its fraction of a second, of which the signature has the seconds only
(`Seconds`). Extends `MerkleTree`, whose offline computations it uses.

### MerkleTree, IncrementalTree (`merkle/`, `src/verifier`, `anchor/batch.go`)

`MerkleTree` has no state: the three trees of the repository as operators, with
SHA-256 as an injective constructor (a hash is the pair of what was hashed),
and a reference definition from the root down (`NodesAt`, `RootOf`). The loops of
the code are recursive functions over the level (`LevelAt`, `BatchLevelAt`), with
`Rounds` as many rounds as they take. `IncrementalTree` is the mutable tree with
appends, batches, snapshots and restores, and with the index panic of
`updatePath`; its states double as the bounded inputs on which the pure trees are
checked.

### BatchAnchor (`anchor/batch.go`)

`client` is a caller of `Submit`/`SubmitAndWait`, `spawned` counts the
goroutines that a full batch starts, `batches` the batches under way, `result`
what each channel was sent. Each section under `itemsMu` or `statsMu` is an
action; anchoring is outside them. The `Anchorer` is external: it honours its
context, and an error may hide a transaction that went through (`landed`).
`AnchorPromise` is the abstract specification: an item gets one answer, and a
success only if its root is on the chain.

### MemoryQueue, BatchProcessor, TraceProcessor (`queue/`, `integration/example.go`)

`MemoryQueue`: `messages` is the channel, `worker` the position and message of
each worker, `fate` how the queue was done with a message. `Publish` reads
`closed` and sends in two steps, as the code does. A retry sleeps with its worker
and is put back at the end, or lost when the channel is full.

`BatchProcessor` puts `DelayedQueue` before a channel and the batch processor
behind it. `handleMessage` appends under the mutex and flushes after it, so
several flushes compete; `lost` remembers the messages dropped where the code
ignores or only logs an error.

`TraceProcessor` is the user of all this: `AppendLeaf` and `PublishEvent` are the
two halves of `ProcessEvent`, `BeginCommit` and `EndCommit` those of
`CommitCertificate`, `StopWorkers` and `StopAnchorer` those of `Stop`, between
which certificates are still accepted. A tree is its sequence of leaves, the
queue what it holds, the anchorer what `AnchorPromise` says. `BatchEventProcessor`
has no mutex, so it is modelled for one caller: an `AddEvent` with its `Flush` is
one step.

### EventDAG (`dag/`)

`caller` is what each goroutine does. The lock is Go's `RWMutex`: an announced
writer keeps new readers out, including one that holds the lock already, which
is what `GetParallelEvents` does. `listed` is `PrevEventHashes` in memory, which
`VerifyMergePoint` sorts in place, and `hashed` the list the event was hashed with.
The sort's `visit` is a recursive function over how deep it may go (`Visit`).

### TwoLevelCache, RateLimiter, AutoCert, HealthProbe, ProviderRegistry

`TwoLevelCache`: one key, an L1 per process, one L2; each visit to a level is an
action and `user` remembers what an operation has read. A lifetime counts down.
`RateLimiter`: `idle` is the time since a client's last request, as the refill is
lazy; `bucket` is the abstract bucket, as a history variable. `AutoCert`:
`Evaluate` takes the read lock and tests one trigger at a time; `UpdateStrategy`
waits for it. `HealthProbe`: the checks are sequential under one deadline, which
a hanging dependency uses up. `ProviderRegistry`: `Register` appends and makes
one pass of swaps; a request is built and its answer translated as each provider does.

### ContentVault (`crypto/keystore.go`, `store/encrypted.go`, `api/decrypt.go`)

A request stores or decrypts, one call at a time (`pc`). Keys are numbered as they
are generated; AES-GCM opens with the key that sealed and no other. `drops` and
`since` count, per tenant, how often the key was replaced or lost, now and when
the request was given its key. `GetTenantDEK` and `CreateTenantDEK` are two
sections, of which the second looks again, and a restart loses all keys.

### ZKProofs (`zkp/`)

A circuit is the equation it asserts, modulo a small prime; Groth16 is external:
a proof can be made exactly when the witness satisfies the equation, and verifies
with the key of the same set-up. `Initialize` sets up and copies keys one type at
a time, and provers set up what is missing on first use.

### Fingerprints (`fingerprint/collector.go`, `store/fingerprints.go`, `api/fingerprints.go`)

Similarity in whole thousandths; rows in order of insertion; two-read requests
(`BeginCompare`/`EndCompare`, `ListCount`/`ListPage`) with inserts between them.

### Federation (`anchor/federated.go`, `api/federated.go`)

`array` and `size` are the slice behind `f.nodes`: `AddNode` writes in place or
copies, `RemoveNode` shifts in place, while the loop of `Anchor` runs over the
array without the mutex. `job` is that call: goroutines, the two channels with
their capacities, confirmations. Nodes go down, and come back as they are
configured, without what they knew and with the list they started with.

### ChainAnchor, Arbitration (`anchor/ethereum.go`, `anchor/contracts/`, `src/contracts/*.sol`)

`ChainAnchor`: a call reads the pending nonce, sends, waits for a receipt or
times out; the node (external) keeps one transaction per nonce, replaces it by a
better offer, mines in order and may undo its last block. The registry after
each block is a recursive function over the blocks (`Registries`).

`Arbitration`: each entry point is one action, as a transaction is atomic. `paid`,
which account was paid how much for which dispute, and `withdrawn` are history
variables. `Refusing` are accounts that do not take a transfer, contracts for
instance, so that the resolution that would pay them reverts.

## 4. Runs

| run | instance | distinct states | shows |
|---|---|---|---|
| `breaker_outage` | 3 callers, thresholds 2, 2 probe slots, 2 attempts | 35,472 | trips in time, probe budget, failures bounded, closes only on a streak, recovers from an outage with unspent slots |
| `evidence_request` | 1 request, 2 commits, up to 2 chunks, 2 faults | 607,920 | certificates are prefixes in chain order, nested, and agree with their objects; refines the ledger; evidence settles |
| `batch_callers` | 3 items, batches of 2, 1 retry | 279,232 | one place per item, full and stopped are flushed, counters, the promise, every item is answered |
| `queue_workers` | 3 messages, 2 workers, room for 1, 1 retry | 763,526 | one place per message, retries bounded, counters, stop ends processing, messages settle |
| `helpers` (`MCServices`) | DAG: 3 events, 2 goroutines; cache: 2 goroutines in 1 or 2 processes, 1 key; limiter: 2 clients; processor: 3 messages, 2 workers, batches of 2; strategy: 2 goroutines | 208,172 | the graph follows arrival, clean reports last, calls return; stale copies die out; the limiter is a bucket; batches are bounded and disjoint, delayed messages settle; a verdict is of one strategy |
| `peers` (`MCPeers`) | federation: 4 nodes, 2 confirmations; desk: 3 certificates, 3 events, two of one time, lists of events that repeat one; fingerprints: 2 tenants, 2 traces; registry: 4 registrations; health: 3 dependencies, 2 outages; tree: depth 3 | 277,795 | anchors are earned and end; searches, reports and answers to lists of events add up; server and offline verifier agree; fingerprints add up; the registry is ordered; reports are earned; roots and proofs agree with the reference |
| `chain` (`MCChain`) | registry: 2 callers, 3 calls, 3 blocks, 1 undone; arbitration: 4 accounts, one of them refusing, 2 disputes; trace processor: tree for 8; proofs: 2 provers, 2 boots; vault: 3 requests, 2 tenants, 2 drops per tenant | 3,533,019 | reports are on the chain, roots are written once; stakes leave once and to whom they should, votes count accounts and no party; roots cover what was acknowledged; kept proofs hold; current content is readable, answers are audited |

Five more runs expect a violation (section 5).

### Bounds

- Breaker: three callers is one more than either threshold or the slots, so a
  result can arrive after the outage it belongs to and slots run out.
- Pipeline: two chunks give a stream whose OUTPUT overtakes more than one chunk;
  two commits can lie on either side of any step; two faults are a failure and a
  crash, or two failures around a stored event. Nesting for several requests of
  a trace is proved (section 6).
- Trees: up to eight leaves have every shape of lonely node on three levels;
  the panic starts at the fifth.
- Batches: three items make one more than a batch, so one arrives between the
  filling and the flush; one retry distinguishes the last attempt from others.
- Queue: room for one message makes every put-back compete with a publisher.
- DAG: with three events one can arrive before, between and after its
  predecessors, and be a merge point; two goroutines are a writer and a reader
  of the two locks. `Clocks` has clocks in order, at a standstill and one that
  is fast.
- Cache: `TTLs` are below, above and equal to no expiry against `L1TTL` = 2.
- Limiter: `Cost` = 3 units and `Rate` = 2 make a tick earn less than a request,
  and `CleanupInterval * Rate >= Burst * Cost`, as `router.go:40` and the default
  configuration have it; without that relation forgetting a client would give
  it tokens it has not earned.
- Processor: two workers and batches of two let a batch exceed its size by one.
- Federation: two listed nodes and one more to add, of which one confirmation
  can be lost; `MaxHops` stands for the timeout that ends a verification that is
  passed round.
- Desk: `MaxSize` = 1 and `CertLimit` = 2 are exceeded by three rows. `TimeOf` is
  constant on two rows, so one is tied and one is not; `Batches` has a list that
  names an event twice.
- Chain: three calls are two callers and a retry; a block that is undone can
  hold the call that was reported. `InitialReputation` = 196 puts the reputation
  cap within reach. `MaxChanges` = 3 lets the owner change the minimum, register
  and remove, or register twice and withdraw. `Minimums` are none, one and
  both of the accounts that may vote, beside the three of the constructor;
  `Refusing` is one of the two parties.
- Vault: one request stores, one decrypts, one interferes; two drops are a
  rotation after a restart. The tenant `default` has a short name.
- Proofs: `Prime` = 11, four values of a byte, chunks of two bytes.

`MaxChunks`, `MaxFaults`, `MaxBatch`, `MaxChanges`, `MaxDowns`, `MaxHops`,
`MaxCerts`, `MaxEvents`, `FpClock`, `MaxRows`, `MaxProviders`, `MaxOutages`,
`MaxCalls`, `MaxBlocks`, `MaxReorgs`, `MaxTries`, `MaxKeys`, `MaxBoots`,
`MaxDrops` and the saturation of `elapsed` and `idle` are the bounds that are not
in the code.

### Fairness and deadlock

- Breaker: callers that are in a call go on, and new requests come
  (`Step`); the clock runs. Nobody has to reset it or to repair the service, so
  recovery is stated for a service that stays healthy.
- Pipeline: every call has a deadline (upstream time-out, ten seconds for an
  INSERT, thirty for a commit), so a request and its goroutine take steps. Each
  storing step is an INSERT that succeeds or fails; nothing forces success.
- Batches: goroutines run, the ticker fires, `Anchor` returns since its context
  ends after `AnchorTimeout`. Nobody has to submit or stop.
- Queue: workers run and handlers return, having a context of thirty seconds.
  Publishers need no fairness.
- DAG: a goroutine that waits for the lock gets it if it is free again and again
  (strong fairness on `Continue`), as Go's `RWMutex` neither starves writers nor
  readers. `CallsReturn` excepts the state `Jammed` of section 5.
- Cache: goroutines go on and time passes. The cleanup needs no fairness: a read
  drops an expired item as well.
- Processor: workers, the ticker's loop, `Stop` once called, and the goroutine
  of the delayed queue go on.
- Federation: goroutines run, and requests end with an answer or a timeout.
- The other parts have no liveness property and no fairness: a transaction need
  not be mined, and a client may leave at any time.

Deadlock is not checked where the system may come to rest: all requests served,
the batcher or the queue stopped, all bounded inputs used. The breaker never
rests. `CallsReturn` and `AnchorEnds` are the statements about waiting for each
other where code does so. No run uses symmetry.

## 5. Where the code does not do what is said of it

Each of these has a run that ends in a counterexample.

| run | divergence |
|---|---|
| `breaker_wedge` | `RecordFailure` sets `lastFailureTime` before it reads the state, and `transition` returns when the state is already open (`gateway/circuit_breaker.go:159`, `176`): the slot of a failed probe is not given back. When all are gone the breaker rejects for ever, though the service is healthy. |
| `evidence_answered` | The response does not wait for the goroutine (`api/chat.go:107`): a commit that follows the response can miss events, against the order of `src/server/docs/ARCHITECTURE.md:174`. |
| `evidence_compliance` | A failed upload or lock is a warning (`api/certs.go:187`, `store/worm.go:73`): a certificate says "worm" with no locked object. |
| `merkle_proofs` | `GetProof` omits a path node where the builder hashed a lonely node with itself (`merkle/tree.go:110`): the proof of the third of three events does not verify. |
| `vault_rotation` | `RotateKey` overwrites the key and no object records a version (`crypto/keystore.go:170`): what was stored before cannot be read, against the comment at line 168. |

Met while reading, without a run of their own. Where the behaviour is a step or
a value of a modelled part, the model has it and the property excepts it by name
or leaves it open; section 7 says what is not modelled.

Pipeline and certificates:

- A streamed chunk is forwarded with its event hash before it is stored, where
  `api/chat.go:154` says that it is recorded in real time.
- `ORDER BY sequence` does not order the rows of two requests that share a
  trace, so two certificates over the same rows can have different roots, where
  `src/server/docs/ARCHITECTURE.md:238` speaks of sorted leaves. The model has
  the choice (`tie`), and `RootOfOwnTrace` states what does hold.
- A legal certificate is given the anchor type "local".
- Anchors are never verified. `VerifyCert` reports "anchor_proof" as passed
  whenever the certificate has one (`api/certs_verify.go:174`), where its own
  description (line 31), `src/server/docs/ARCHITECTURE.md:198` ("Service checks
  anchors") and `src/docs/ARCHITECTURE.md:249` say that it is. So a certificate
  whose anchor was changed is called valid: `VerdictsAgree` speaks only of the
  events, the root, the level and the time.
- What is signed is the time to the second (`api/certs.go:139`,
  `api/certs_verify.go:134`), so a change of its fraction is not noticed.
- Searches order by a time that several rows can have (`api/events.go:186`,
  `api/certs_search.go:62`), which clients choose for events and may leave out.
  Between two pages such rows can change places, and one of them be missed and
  another listed twice, without any row being inserted. `SearchMissesNone` is about
  the rows that are alone in their time.
- `IngestEvents` answers `Success: true` whatever its results are
  (`api/events.go:81`), and a list that is sent again meets the events of the
  first time as errors.
- A report shows every certificate as verified without verifying it
  (`api/certs_report.go:278`).
- The count of an events search ignores the range of time, a `page_size` of 0
  divides by zero (recovered), the parts of a report have no common snapshot, and
  its query for tokens looks for an event type that is never written.
- The answer of `GenerateProof` wraps the proof in an object that the offline
  verifier does not parse.

Asynchronous library:

- `ErrBatchFull` is never returned, and items submitted between the filling and
  its flush enter the same batch (`anchor/batch.go:193`), so `MaxBatchSize` is
  not a maximum; `Submit` before `Start` with a full batch runs with a nil
  context; items left at `Stop` are anchored under a context that is already
  cancelled and so fail with an anchorer that honours it.
- `updatePath` writes above the root (`merkle/incremental.go:126`): the tree
  panics past half of the capacity it accepts (line 41), so the error "capacity
  exceeded" is hardly ever met. `PanicsBeyondHalf` says exactly when.
- `ProcessEvent` appends the leaf and then publishes; a message whose data is no
  JSON cannot be marshalled, so its leaf stays without a message.
  `handleEventStore` stores nothing, and `BatchEventProcessor` does not use its
  interval and has no mutex, which its model does not show: it has one caller.
- `GetParallelEvents` takes the read lock twice (`dag/dag.go:247`): with a writer
  waiting in between, all wait for ever. `VerifyMergePoint` sorts
  `PrevEventHashes` in place (`dag/validator.go:151`), after which the event's own
  hash no longer verifies.

Services:

- A cached value set with lifetime 0 stays in L1 for ever, against the comment
  at `cache/cache.go:358`.
- A tenant of fewer than eight bytes, such as "default", panics at
  `crypto/keystore.go:117`. `Retrieve` never returns `ErrContentNotFound`, so
  `api/decrypt.go` never answers 404. A failed audit INSERT does not keep the
  plaintext back, against `api/decrypt.go:21`, and attempts by other tenants
  that were denied are not shown to the owner.
- A strategy issues no certificate yet, and its `GetStrategy` copy shares the
  triggers. `api/chat.go` never sets industry or content.
- The registry of providers is not used by the gateway. A model whose name has
  both "deepseek" and "llama" goes to Ollama; one that nobody matches gets no
  provider at all, where the comment at `gateway/provider.go:115` calls OpenAI the
  default for all the models that the others do not match; Claude gets only the last of
  several system prompts; Ollama ignores the caller's address and key.
- The circuits do not fit the values the service gives them: the ownership
  commitment is a SHA-256 where the circuit wants a weighted sum; the hash of a
  preimage is taken per byte and checked per chunk; the Merkle circuit skips its
  last level. So those requests are refused. A type whose set-up failed in
  `Initialize` is set up on first use, but its key never reaches the verifier,
  and keys and proofs are lost at a restart.
- One deadline of five seconds is shared by the checks of health, so a
  dependency that hangs makes the later ones "unhealthy".
- Nobody calls `Save` or `UpdateCertID` of fingerprints; the latter has no filter
  by tenant. Two equal fingerprints without speed and first-token time are
  similar to 571 of 1000 only, as a ratio of zeros counts as none
  (`fingerprint/collector.go:198`); so a row's own similarity is the greatest but not
  always the whole.

Federation and chain:

- With more than one confirmation required, no other node knows an anchor that
  a node has made, so no other verifies it; a verification that nobody can answer
  goes round until its timeouts. A removal while the loop runs asks the last
  node twice (`anchor/federated.go:442`); a list that grows between the making
  of the channels and the loop can block a failed request for ever.
- `waitForTx` ignores the status of a receipt, and `Verify` does not read the
  transaction's data and only warns below six confirmations. Data that encodes
  no call always reverts on a contract. `anchor/contracts/registry.go:432` does not
  compile under the tag `blockchain`. `batchCreateAttestations` succeeds while it
  skips what is attested already.
- A draw of the arbitration counts the votes against as correct; a new
  registration resets an arbitrator's statistics; a list that shrinks during a
  vote closes it early; a minimum of 0 lets a dispute without votes be resolved
  as a draw; a winner that does not take the transfer keeps its dispute open; after
  `emergencyWithdraw` an older dispute is paid from the stake of a newer one.
- `GetDefaultSigner` (`src/server/pkg/sign/ed25519.go:28`) returns no signer and
  no error after a first failure.

## 6. Proofs

Eight modules, for any finite sets of callers, requests, items, messages,
nodes, accounts or keys, any number of leaves and events, and any thresholds and
bounds. Assumptions: only the named ASSUMEs of the modules, which TLC evaluates
on its instances. A module of proofs has a section for each module it is about,
and a boxed comment at its head gives the argument.

### EvidencePipelineProofs

`TypeCorrect`, `CertificatesArePrefixes`, `CertificatesAreNested`,
`CertificatesAreConsistent` and `PipelineImplementsLedger`. The invariant has
three parts. `StoringInv`: of each request, what precedes the goroutine's cursor
is stored or dropped, and nothing that follows it is stored. `ReadInv`: what a
commit read is the rows of its trace, closed under "stored earlier", and any two
commits of a trace are nested; this is what makes nesting inductive, as later
reads see more rows. `CertInv`: a certificate has what its commit read.
Consistency adds what a commit and its WORM object know of each other
(`KeyInv`, `SealedInv`) and that a tie is among leaves of equal sequence number
(`TieInv`). The refinement maps rows to the ledger and leaves to pages; crashes,
requests and failed calls are stutters or the step they had the effect of.

### BatchAnchorProofs

`TypeCorrect`, `EveryItemIsAccountedFor` and `BatchImplementsPromise`. Every step
adds an item to `pending`, moves all of `pending` to a new batch, or makes
progress with one batch; the lemmas `FlushFacts` and `StepIsProgress` say so
once, and each conjunct is then preserved by cases over these three.
`AnsweredByBatch` (only a batch past its anchoring has answered) and
`SentHasLanded` (a transaction is sent before it succeeds) are what the
refinement needs beyond the properties that TLC checks. The counters are
the sizes of the sets of items that they have counted (`StatsInv`).

### MemoryQueueProofs

`EveryMessageIsAccountedFor` and `StoppedQueueIsQuiet`. `PlaceInv` says that the channel has no message
twice (`Distinct`), that workers hold different messages, none of them in the
channel (`Holds`), that a message is in one of these places exactly when it was
sent and is not done with (`Placed`), and how often its handler has run at each
place (`Ran`). `Counted` adds that the counters are the sizes of sets that
partition the published messages.
`StoppedQueueIsQuiet`: `Stop` returns without an error only after every worker
has exited, and nothing starts one again (`StoppedIsQuiet`).

### ChainProofs

`ChainAnchor`: `AnchorsAreOnChain` and `AttestedRootIsFinal`. The registry after a
block depends on the blocks up to it only, so what it was does not change when
one is added. A transaction is mined under the nonce that counts its sender's
transactions before it, which puts it in one block at most, so that its receipt
stays the same until a block is undone; and a root stays until it is revoked.

`Arbitration`: `CountersCountAccounts`, `StakesLeaveOnce` and
`ContractHoldsTheStakes`. A vote adds one account to those that voted so, which
had not voted and is no party; that nobody has voted on a dispute that does not
exist (`NoVoteYet`) makes the counters of a new dispute right. A dispute is paid
in the step that closes it, to the party that its counters, and so its voters,
entitle to it (`PaidKept`, `CloseKeeps`); closed disputes get no vote and stay
closed. The balance is the sum of
the stakes of the open disputes (`HeldInv`), of which there are finitely many.

`TraceProcessor`: `TraceRootCovers`. An event is acknowledged after its leaf is
appended, the tree only grows, and a commitment that waits for the queue counts
leaves against messages published, handled or on their way.

`ZKProofs`: `KeptProofsStayValid`. A key of the verifier is the prover's key of
that type, or none, since the prover never makes a second one; a kept proof was
made with the prover's key, and a request in progress already has its key.

`ContentVault`: `CurrentContentStaysReadable` and `AnswersAreAudited`. A key is
followed from the moment a request is given it: it is the tenant's key as long as
nothing has replaced it since (`KeyInv`). `Place` is what each place of a request
implies, and `Reference` what a decryption knows of the storing request it refers
to, which is over and changes no more.

### ServicesProofs

`EventDAG`: `ArrivalIsAlwaysKept` and `CleanReportsAlwaysLast`. The invariant says
link by link what the order of arrival makes: the two directions agree, depth
rises by one along the longest way, and the k-th arrival is less than k deep. That
no event starts a cycle follows from the depth it is given; what the walks
collect, by taking the sets they are the least of; and that the sort puts parents
first, by induction on the depth to which it visits.

`RateLimiter`: `LazyRefillIsBucket`. A client that is forgotten has been away long
enough to have a full bucket; this is where the relation between the interval of
the cleanup, the rate and the burst is needed, which the module assumes as the
code configures it.

`BatchProcessor`: `ProcessorBatches`. A message is in one place at most (`Apart`),
and each operation takes messages from one place to another. The buffer is longer
than a flush allows only by the workers that are about to flush it.

`AutoCert`: `VerdictIsOfOneStrategy`. An evaluation holds the read lock from its
first trigger to its verdict, so its strategy is the one in force and no trigger
it has passed matches.

### PeersProofs

`CircuitBreaker`: `TypeCorrect`, `BreakerSafe` (no missed trip, probe budget,
bounded failures) and `ClosesOnStreak`. The invariant is `BreakerInv` in
`CircuitBreaker`: the probe budget is not inductive, since nothing in it relates
the probes in flight to the counter that `Allow` tests. `ProbesHoldSlots` adds that
each holds a slot of the counter, which only ever grows during an outage. The
bound on failures counts the callers that are still in flight and may each add
one. `ClosesOnStreak` needs that the counted successes are the latest results.

`Federation`: `FederationAnchorsAreEarned`. While nobody adds or removes a node,
the array that an anchoring reads lists each node once, so the confirmations it
counts are of different nodes; a node that restarts begins with its configured
list and in no call. A confirmation that needs others' verification is
followed through the hand-overs that are left.

`Fingerprints`: `FingerprintsAlwaysAddUp`. Each measure is a share in thousandths,
the same from both sides and greatest of a value with itself, and so is their
weighted mean; what a first read found is still there at the second.

`ProviderRegistry`: `RegistryIsAlwaysOrdered`. One pass of swaps takes the new
provider from the end of an ordered list to its place, after those of the same
priority.

`HealthProbe`: `HealthReportIsEarned`. The answers of a request in progress are
those of the conditions its calls met, and its deadline is past only after a call
that hung.

### MerkleProofs

`IncrementalTree`, and with it the pure functions of `MerkleTree`, for any number
of leaves: `RootsAlwaysAgree`, `ProofsAlwaysVerify` and `OldRootAlwaysStands`. Place i
of level l has a node exactly if i * Pow2(l) < n (`Covers`), the rounds end at
the first power of two that covers n, and one leaf more changes at most the node
above it on each level (`LevelsGrow`). So what `updatePath` writes is what building
the levels again would give, and every tree the program can hold has the levels
of its leaves, with at most one above its root (`TreeInv`). Proofs are climbed
along the nodes above their leaf; as hashing is injective, a climb that starts
from another leaf leaves that path and never comes back.

`CertificateDesk`: `ListsAlwaysAddUp` and `AuditsAlwaysAgree`, for any number of
certificates and events and any page sizes. The inductive invariant is `DeskInv`:
a row that a search wants and has not got yet, and that is alone in its time, has
at least as many newer rows as the pages read hold (`SearchFits`), whatever order
the others are in, and rows are only ever stored, so the number only grows and
the last page, by the count, reaches the oldest of them; a report counts events
first and their types later, when they are no fewer (`ReportFits`); what a sender
of events was told is stored is in the table, where only one result of its rounds
can have put it (`ListFits`).
The verdicts agree because trees of equally many leaves with the same root have
the same leaves (`TopsTell`). A proof of a certificate passes over a level where its
node is alone, and the climb is off the nodes of the tree from there on, so it
verifies exactly if no level is passed over (`ProofPasses`); `Lonely` says for which
leaves of how many one is.

### Induction

The library's induction theorems take operators, which these provers cannot
instantiate. `Induction` restates them with sets and functions, from well-founded
minimality: induction over the naturals and over finite sets (`NatAll` and its
like), existence of what is defined by recursion (`Iterated`, `Looped`), and sums
over finite sets. Every proof about a recursive definition rests on it. No module
with a theorem reaches a RECURSIVE operator.

Proving changed the models where they were wrong or out of reach: two arms of the
CASE in `Executed` (`ChainAnchor`) overlapped; recursive operators became recursive
functions; finiteness of the nodes became an assumption of `Federation`; the
records of a client of `CertificateDesk` have all their fields from the start.

### Only model-checked

- Liveness under fairness: `RecoversIfProbesSucceed`, `EvidenceSettles`,
  `AcceptedIsAnswered`, `SentIsSettled`, `CallsReturn`, `StaleDiesOut`,
  `DelayedIsSettled`, `AnchorEnds`.

## 7. What is not modelled

- Cryptography: hashes are injective, signatures are not forged; the signer can
  fail. AES-GCM and Groth16 are external. `ConsistencyProof.Verify` checks sizes
  only, as its comment says.
- Data: texts, token counts, JSON, SSE framing, the rendering of reports, the
  extraction of features from texts, images, audio and video
  (`fingerprint/semantic.go`, `image.go`, `audio.go`, `video.go`, `perceptual.go`,
  `logprobs.go`), which is numerics without a protocol.
- `CircuitBreakerManager` is a map of breakers that share nothing.
- The SQLite store: `NewSQLiteStore` is called by nobody, and its methods are
  single statements. The timeout middleware (`middleware/middleware.go:220`) is
  installed by nobody; it runs the handlers in a goroutine while it writes the
  response.
- The default signer's once-only initialisation (section 5).
- The manager of anchors is a lookup by type; the stub of the default build
  returns errors. The registry's administration (submitters, pause) and the read
  calls of the Go clients are left out.
- Of the arbitration contract, `transferOwnership`: the owner stays one account.
  `setMinStake`, `setVotingPeriod` and `setRegistry` change what is an input or a
  choice of the model already (stakes, the end of a vote, the certificate).
- Maintenance of the database: `cleanup_old_events` (`src/scripts/init.sql:164`)
  deletes old events and is called by nobody; in the models no row is deleted.
- Several callers of one `BatchEventProcessor`: it has no mutex
  (`integration/example.go:303`), and its model has one caller.
- Router, authentication, configuration, metrics, headers; the generated
  `src/server/docs/docs.go`.
- SDKs (stateless, one request per call, no retry), console, website, manifests
  and JSON schemas.
