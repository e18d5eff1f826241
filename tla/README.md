# Verification of the Proof trading SDK

TLA+ specifications of the SDK's stateful logic (the TypeScript `ExchangeClient`,
the Python client's nonce allocator and streams, the WASM loader) and of the Rust
core's formats (layouts, codec, signatures, error codes, admin governance), the TLC
configurations that check them on small instances, and proofs, checked by TLAPS,
that the most important properties hold for every value of the constants. Paths
below are relative to the repository (`src/client.ts` is the TypeScript client,
`nonce.py`, `streams.py` and `client.py` are in `python/src/proof_trading_sdk/`, the Rust files
without a path in `crates/proof-trading-sdk/src/`).

Run a check with `tlc -config X.cfg M`, a proof with `tlapm M.tla`.

## 1. Inventory

| Component | State it keeps | Operations | Interacts with | What makes it correct |
| --- | --- | --- | --- | --- |
| Python nonce allocator (`nonce.py`) | `_last`, `_lock` | `allocate`, `step`, `peek` | threads of one client, wall clock, engine's nonce window | no nonce twice in a process; lead over the clock bounded by the burst; what a restart may repeat |
| TypeScript nonce allocator (`client.ts:463`) | `lastTimestampNonce` | `nextTimestampNonce` | `broadcastSigned`, wall clock | no repetition away from the 60 s cap |
| Signing (`client.ts:405, 564, 961`) | `privateKey`, `publicKey`, `address` | `setPrivateKey`, builders, `broadcastSigned` | chain id, WASM core, allocator | posts in nonce order; owner and signer agree |
| Chain id binding (`client.ts:340`) | `chainId`, `chainIdPromise`, `allowUnbound` | `resolveChainId`, `ready` | `/status` of the gateway | one fetch, one binding, no replayed failure |
| WASM loader (`wasm-loader.ts`) | `cached`, `initPromise` | `ready`, `instantiate` | every codec user | one instantiation; failures are forgotten |
| Reply classification (`submitViaGateway`, `submit_action`) | none | one per binding | gateway's `/exchange` | the two bindings agree; no phantom rejection or success |
| Submission (`client.ts:495-945`) | `pendingVerifies`, `deliveryResults`, `autoVerifyDelivery` | `submitTx`, `submitSignedTx`, the two `...Commit`, `awaitPendingVerifies`, `setUnsafeFastSubmit` | gateway, chain, `/tx` polls | final verdicts are true; each found result handed over once; everything returns |
| TypeScript streams (`client.ts:1619-1799`) | `activeStreams`; per stream `closed`, `ws`, `timer`, `backoff`, `afterId` | `subscribe...`, `unsubscribe`, `disconnect`, `orderbookSnapshot` | gateway WebSocket | one connection at a time; no gap or duplicate; silence after unsubscribe |
| Python streams (`streams.py`) | `_ws`, `_closed`, `_last_event_id` | iteration, `close` | gateway WebSocket, a closing thread | the same, with two threads |
| Trigger policies (`triggers.ts`, `trigger_config.py`, `types.rs`) | none (views of chain state) | validate, decode, derive the next version | governance, `/v1` queries | only consistent pairs of current and pending policy pass |
| Trigger history (`trigger-history.ts`, `trigger_history.py`) | none (page cursors) | decode pages | `/v1` queries | pages join without gap or repetition |
| Governance (`governance.rs`, `governance-query.ts`, `codec.ts:137`) | none in the client; proposals, votes and registry in the chain | propose, read, recompute the content hash, approve, reject | an untrusted server, the chain | a vote that counts was over what its signer saw; a build decides only what it can render |
| Codec and envelope (`codec.rs`, `wire.rs`, `codec.ts`, `codec-adapter.ts`) | none | encode, decode, sign, relay | everything that signs, builds of other releases | what is executed is what was asked for; one network; released shapes stay readable |
| Action and state types (`types.rs`, `types.ts`, `actions.py`) | none | layouts | codec | optional and defaulted fields survive releases |
| Error codes (`types.rs`, `state.rs`, `errors.ts`, `errors.py`) | none | code, kind, name | replies | a rejection never gets another's name |
| Crypto and signers (`crypto.rs`, `signer.rs`, `pkcs11.rs`) | a key or a token's session | signing message, sign, verify | envelopes | a signature binds chain, type, nonce and payload |
| Language bindings, derive macro, queries, ABCI events, test tooling | none of interest | glue | | |

How they interact: a builder calls `submitTx`, which goes through signing (chain
id, WASM core, nonce) to one `POST /exchange`; the reply is classified; an open
verdict leaves a background verifier that polls `/tx`. Streams are independent of
submissions but share the chain id and the loaded key. Both bindings encode, sign and
hash through the Rust core, whose builds of different releases meet at the gateway and
the engine. All TypeScript code runs on one
thread and interleaves at `await`; the Python client is called from several threads.

The behaviours that are hard to test are listed with their lines as hazards in
`PROJECT.json`: lock and clock order, restarts, key changes during an `await`,
promise sharing around failures, verdicts that come late or not at all, drained
buffers with several waiters, reconnects that race `close()`/`unsubscribe()`, structs
read by a build of another release.

## 2. Modules

| Module | Models | State and actions |
| --- | --- | --- |
| `NonceService` | abstract: what an allocator promises | the sequence issued so far; `Issue` appends a larger nonce |
| `PyNonce` | `nonce.py` | per thread `pc`, `now`, `candidate`; `_lock`, `_last`. `ReadClock`, `Acquire`, `Compute`, `Store` are the statements of `allocate()`; `ClockMoves` is the environment |
| `PyNonceRestart` | a process that dies and restarts | adds `Restart` (a new `NonceAllocator`), keeps what earlier processes were granted |
| `TsNonce` | `nextTimestampNonce` | one action `Allocate`: the method has no `await` |
| `Signing` | builders, `setPrivateKey`, `broadcastSigned` | extends `TsNonce`; `Build` up to the `await`, `SignAndPost` after it, `Abandon` when it rejects |
| `ChainBinding` | `resolveChainId` | the promise is a numbered attempt; `ResolveCached`, `Join`, `Start` are the three ways in, `FetchSucceeds`/`FetchFails` the async body, `Continue` the awaiting caller. `allowUnbound` and a pinned `chainId` are chosen in `Init` |
| `WasmLoader` | `ready()`, `instantiate()` | as above; `Catch` runs per caller, at its own microtask |
| `SharedAttempts` | what the two have in common: callers and a bound on attempts | |
| `Ready` | `ExchangeClient.ready()`, the first `await` of `broadcastSigned` | composes `ChainBinding` (EXTENDS) and `WasmLoader` (INSTANCE): `Ready` starts both awaits in one step, their steps then interleave; `Resolved` and `Rejected` are what `Promise.all` makes of the halves |
| `GatewayReply` | `submitViaGateway`, `submit_action`, `_check_response` as operators from a reply to a verdict | no state. Texts are reduced to the engine code they lead with, or the canonical text they start as |
| `ErrorCodes` | `ExecError`, `code()`, its `Display`, the manifest of kinds, `decode_exec_error_kind`, `StateError` | no state; one function per table |
| `GatewayVerdict` | replies one after another, to rejections by nodes that are upgraded one by one | `Raise...` is an engine, `Answer...` the gateway (with the log, without it, or as compatibility text); `AnswerAnything` is any reply at all |
| `Submission` | the submit methods, verifiers, `awaitPendingVerifies` | extends `GatewayReply`; `tx` is the transaction's fate in the world (refused, rejected, mempool, executed, failed, dropped), `reply` what the client will read. `Arrive`, `Decide`, `Answer` are gateway and chain, the rest is the client |
| `EventFeed` | abstract: what a subscriber is promised | events emitted and delivered, each once and in order from the first delivered |
| `AccountStream` | `subscribeAccountEvents` with `openStream` | each connection attempt has a number and a state; handlers are actions |
| `PyEventStream` | `AccountEventStream` | `pc` of the iterating thread, `closer` of the closing one; a step is one read or write of `_closed` or `_ws` |
| `ActionLayouts` | every struct of `types.rs` and `governance.rs` that is sent or stored | a layout per struct: field order, the `Option` fields, the fields with `#[serde(default)]` |
| `PayloadCodec` | `codec.rs`, `wire.rs`, `crypto.rs`, `signer.rs` as operators | dict to struct, struct to array, array to the struct of a build with n fields; envelope, signing message, verification |
| `SignedTx` | one struct on its way to two deployments | `Encode`; `SignAndEncode`, `SignUnbound`, `SignWithHandle`, `Assemble` are the ways to an envelope; `Relay` decodes and encodes again; `Deliver` decodes and verifies; `ReadRecord` reads a stored record; `Upgrade` at any moment |
| `AdminGovernance` | `governance.rs`, the hash exports, the decoding of proposals | `Propose`, `CountApproval`, `CountRejection`, `Tick` are the chain; `ReviewAndSign` is a signer's client before an untrusted server |
| `GatewayProof` | the proofs about `Submission` and `GatewayVerdict` | |
| `ReadyProof`, `SigningProof` | the proofs about `Ready` and its two halves, and about `Signing` and `TsNonce` | |
| `PyNonceProof` | the proofs about `PyNonce` and `PyNonceRestart` | |
| the other `*Proof` | the proofs about the module of that name | |

Operators such as `StepByTwo` or `CatchClearingAny`, which stand before the
definition they resemble, are faulty variants of it. Each property of a passing run
is violated when one of them takes the definition's place (the list is in
`PROJECT.json`), which shows that the property depends on the code it is about.

Modelled abstractly: a value on the wire is a form (the Rust type's encoding) and a
content, an array of such values stands for MessagePack bytes, a signature is the pair of
key and message, a hash is what it is of. Message texts, backoff lengths, headers and
URLs are left out. In `Submission` the gateway's answers are those of README "Transaction
results" plus HTTP failures; a 5xx or a broken connection may come at any moment, after
the broadcast too. A release is the number of leading fields its build knows, because
fields are only appended.

What is not in the repository is modelled from how the code here uses it and marked
external: the gateway and the chain in `Submission`, the engine's rejections in
`GatewayVerdict`, the engine that decodes and verifies in `SignedTx` (with this crate's
`decode_tx` and `verify_signature`), and the chain's side of governance, from the comments of
`types.ts`, `governance.rs` and `CHANGELOG.md`. What the chain does with a decisive
rejection is left open: it may end the proposal or not.

## 3. Runs

| Run | Expect | Bounds | What it shows |
| --- | --- | --- | --- |
| `PyNonce` (`MCPyNonceRestart`) | pass | 3 threads, 3 grants per process, clock 1..3 in either direction, 1 restart | types and lead bound, refinement of `NonceService` between restarts, what a restart may repeat |
| `RestartDocstring` | violation | 2 threads, clock 1..4 forward, 2 restarts | `nonce.py:30-34` is too strong |
| `Signing` | pass | 3 calls, 2 keys and a rejected one, cap 1, clock 1..3 | nonce order of POSTs, owner/signer agreement |
| `Ready` | pass | 2 callers, 4 attempts at each half, 2 networks, both options | single flight and instantiation, one binding, failures forgotten, every call ends |
| `GatewayVerdict` | pass | codes 0, 1, 50 for arbitrary replies, every `ExecError` and `StateError` for rejections, 2 nodes; 10 statuses; every combination of the fields read | agreement where documented, no phantom rejection, no wrong name |
| `Submission` | pass | 2 calls, 2 waiters, 2 polls each | truth of verdicts, hand-over, termination |
| `TransportComment` | violation | 1 call | `client.ts:732` and a late 5xx |
| `AccountStream` | pass | 3 events, 3 faults | reconnect logic, refinement of `EventFeed` |
| `NoWebSocket` | violation | same, `WebSocketDefined = FALSE` | `client.ts:1803-1804` where `WebSocket` is missing |
| `PyEventStream` | pass | 3 events, 3 connections, 1 reconnect attempt | races of `close()`, refinement of `EventFeed` |
| `SignedTx` (`MCSignedTx`) | pass | all 46 structs in every length tests or comments name and in today's (1 to 4 of each), 6 dicts, 2 keys, 3 chain ids, 2 deployments and a gateway | what runs is what was asked for; compatibility of those lengths |
| `AdminGovernance` (`MCAdminGovernance`) | pass | 3 addresses, 2 rosters of threshold 2, 4 actions, 2 proposals, 2 votes, time 0..2 | informed votes, old builds |

Why the bounds are enough. Lock order needs two threads, and a third to be between
them; a burst needs two grants in a millisecond, and one more to see its end. The cap
is reached by the second call of a burst (cap 1) and exceeded by the third. Single
flight needs an attempt that fails, one that starts while its callers still run their
catch blocks, and one more for a faulty clearing to duplicate. Two submissions let a
verifier start while a waiter waits for another; two waiters compete for the buffer. Three
faults in a stream are a failed handshake, a lost connection and a failed `buildUrl` in
any order; the third event shows that resumption goes on after a resumption. In
`SignedTx` the lengths are a table of numbers (`MCSignedTx!Frozen`), taken from the tests of
`codec.rs` and `codec.test.ts`, from what `types.rs` says of older clients and records, and from
version 3.0.0; it does not follow the layouts, so a field appended to any struct without
`#[serde(default)]` shows. The lengths today's structs refuse are exactly the two of `Refused`. One deployment is bound to
a chain and one is not. Governance needs a member whose build knows no batches, one whose build
knows them and not every item (`CreateImpactMarket` stands for the item it lacks), and a rotation
that lets the second in. Every safety property of a passing
run but one is also proved, for any value of the bounds (section 5).

Runs with `CHECK_DEADLOCK FALSE` are those whose system really stops: every call has
returned, or the bounded clock, attempts or grants are used up, or an iterating thread
has ended.

### Divergences the violation runs show

* `nonce.py:30-34`: after a restart the first nonce is said to be "always ahead of any
  pre-crash nonce" but for a restart in the same millisecond. A burst of k calls in a
  millisecond leaves `_last` k - 1 ahead of the clock, and the new allocator starts at
  the clock. `RepeatsNeedABurst` is what does hold.
* `client.ts:732`: "A `transport` failure never reached the chain at all". A 5xx after
  the broadcast is a transport verdict and the transaction may execute; a caller who
  resubmits under a new nonce executes it twice.
* `client.ts:1803-1804`: "The stream keeps reconnecting". `new WebSocket` at
  `client.ts:1758` is outside the `try`; on Node 20, which `package.json` admits, it
  throws: `onError` is not called and nothing is scheduled. (By default Node also ends the
  process on the unhandled rejection.)

Met on the way, without a run of their own:

* README.md:355 and `conformance/README.md:92-96` give the nonce formula without the
  TypeScript cap (`client.ts:465-468`), which `PostedInNonceOrder` has to except; the
  builders' "`owner` from the loaded signer key" (`client.ts:950-951`) is the key loaded
  before the `await`, not the one that signs, which `MismatchNeedsASwap` makes precise.
* `client.py:472-473`: "the two must agree". They do on the README's table
  (`BindingsAgreeWhereDocumented`); on objects with `tx_hash` alone, with `message` in
  place of `error`, or with none of the fields, they do not (`client.ts:709-722`,
  `client.py:487-505`). For naming code 50, Python prefers `message` and TypeScript knows
  only `log` and `error`; a reply of text only is `AmbiguousCode50` in both.
* `types.rs:1430-1432`: `oracle_source` is said to be at the end of `CreateImpactMarket`, so
  that 12-element arrays decode; it is followed by two fields and preceded by 13 mandatory
  ones, so the shortest array that decodes has 13. The `SignedTx` run has the 12-element
  array in its table and names it as refused (`MCSignedTx!Refused`); `ReleasedShapesStayReadable`
  fails if it decodes, as it fails if any length not named there does not.
* `client.ts:1620-1623` and `README.md:313`: "no events are dropped across a disconnect", "no
  gaps". Before the first event there is no id to send as `after_id` (`client.ts:1648`), so
  what happens between a connection lost then and the next one is not handed over, unless the
  gateway, which is external, sends it unasked. `EventFeed` lets the first event be any; from
  the first event on, `ImplementsFeed` holds.
* `types.rs:261-262`: `MarkSourceMode` is said to be encoded as a positional tag; the derive encodes
  a unit variant by its name.
* `types.rs:2259`: "Each variant maps to a unique non-zero ABCI result code"; the four
  nonce rejections share 21 (`KindOf`). `types.rs:2604` and `3007` give Buy as 0 and Sell as 1,
  the enum has 1 and 2. The table test (`types.rs:3208`, "Codes 1..=51" at 3352) leaves out 52 and 53.
* `governance.rs:122`: the reverse of an emergency action "require[s] multisig actions"; no
  arm of `AdminAction` is one.

## 4. Fairness

* `Ready` (with `ChainBinding` and `WasmLoader`): weak fairness of every started fetch or instantiation
  (the platform's fetch ends in an answer or an error) and of every settled promise's
  continuation. Nobody is obliged to call.
* `Submission`: every POST is answered or breaks; timers and promises continue. It is
  not assumed that a transaction is ever decided or found: the pollers' deadlines, which
  `MaxPolls` stands for, are what ends them.
* `AccountStream`: timers fire, `buildUrl` settles, the gateway opens accepted sockets
  and sends what it has, a `close()` ends in a close event. Connections need not be lost
  and `unsubscribe()` need not be called.
* `PyEventStream`: weak fairness of the iterating thread as a whole and of `close()` once
  called. The gateway may refuse every connection.
* `PyNonce`, `Signing`, `GatewayVerdict`, `SignedTx`, `AdminGovernance`: safety only, no
  fairness.

## 5. Proofs

All theorems hold for every value of the constants under the named assumptions of the
modules: bounds are natural numbers, `NoThread`, `None`, `BadKey`, `NoKey` and the marks
of an attempt differ from real values, `Absent` is neither a number nor a text
(`AbsentAssumption`). Bounds such as `MaxCalls` are in the specifications'
guards, so a theorem holds for every bound. Every invariant, action property and
refinement of a passing run but `ReleasedShapesStayReadable` is the statement of a theorem; the table of them, with the
property each one states, is in `PROJECT.json`. Each proof gives an inductive invariant; what
follows says what it adds to the properties, and why that is needed.

* `PyNonceProof`. `IInv` adds to the run's invariants that only the lock's holder is
  between `Acquire` and `Store` (`HolderInside`), that its candidate is still the step
  from the current `_last` (`CandidateIsFresh`), and that `_last` is the newest grant
  (`LastIsNewest`). Without `CandidateIsFresh` a thread could store a candidate computed
  from an older `_last`, which is exactly what the lock prevents. Results: types, strictly
  increasing nonces, the lead bound, and `AllocatorImplementsService`. A restart keeps
  `IInv`, because a new process starts from `Init`'s state; for what comes back after it,
  one more fact is kept of every grant of every process, that its nonce is not behind the clock
  reading it was made from (`NoncesNotBehind`). A nonce that a later process repeats was then ahead of
  the clock (`OnlyBurstsRepeat`).
* `SigningProof`. Of the allocator: the last nonce leads the clock reading of
  some grant by no more than the burst since, unless the cap was hit; so repetition
  needs the cap, and `Cap + 1` calls under a forward clock are distinct. A step of the
  client is a step of the allocator or changes nothing of
  it, so the allocator's invariant carries over; on top, every envelope carries the nonce
  of its own grant and grants are in posting order (`PostedAsGranted`), a usable key is
  the one the address was derived from (`KeyIsAddress`), and an awaiting call's owner is
  the address unless the key changed (`AwaitingOwner`).
* `ReadyProof`. Chain id: the only attempt still fetching is the one the promise stands for,
  and nothing is cached while it is (`FlightIsPromise`); from this single flight, one
  binding and its permanence follow. Core: the same shape, a running instantiation is the
  promise (`RunningIsPromise`), and the identity test in the catch block is what keeps it.
  Both: a step of the composition is a step or a stutter of each half, so both
  invariants carry over; `CalledTogether` links them: a caller has an answer of one half
  only if it has called the other. Together they give that a resolved `ready()` leaves a
  loaded core and the caller's own chain id as the client's. `FailedInitsAreCaught` and
  `FailuresAreForgotten` are the safety behind `FailureIsForgotten`: a failed init that is still
  the promise has a caller whose catch block is to run (`CatcherWaits`), a failed fetch
  is gone at once.
* `GatewayProof`, about `Submission`. A final verdict stays true because a reply is true of
  the transaction's fate when it is sent (`RepliesAreTrue`, case by case over `AnswersTo` and the
  branches of `submitViaGateway`), and a fate that a reply may call final is one that
  `Decide` moves no further. `VerifiersAreTracked` says that `pendingVerifies` holds
  exactly the calls whose verifier runs, that those have returned, and that a found
  transaction is in a block. Both are needed for `HandedOverOnce`: without the first a
  verifier could report twice, without the second what it reports would not be settled.
* `GatewayProof`, about the classification. Agreement, no phantom rejection and no unfounded success are
  properties of the two functions, so they are proved of every reply, with any set of engine
  codes. For the names, `VerdictInv` says that a rejection has the code and the log that its
  node gives its cause (`RejectionIsRaised`) and that the reply tells of it as an object
  with its code or as the compatibility text (`AnswerTells`); `CodesAreNames` is the lemma about the
  tables, that a code other than 50 is listed under the name of what it was raised for.
* `AccountStreamProof`. At most one attempt is busy (`AtMostOneBusy`), a socket that
  `unsubscribe()` is closing counted: its close event could otherwise start a second one.
  `ws` and `timer` hold what `unsubscribe()` has to reach (`HoldersAreRight`). From there
  being one attempt it follows that `afterId` does not move between the URL, the signature and the
  replay, so each connection resumes after the last event handed over
  (`ResumesAfterLast`), and a step of the stream is a step or a stutter of `EventFeed`.
  `StreamStaysAlive` has `WebSocketDefined` as its hypothesis; `NoWebSocket` shows what
  happens without it.
* `PyEventStreamProof`. A thread past the check of `_closed` holds one event and a thread in
  `_connect()` makes one connection: `LateIsOver` and `FlagIsUp` say that there is no other
  way for an event or a connection after `close()`. Without the race `_ws` is the
  only connection that may be open (`OnlyWsIsOpen`), and while nobody closes the loop iterates
  over it (`LoopsOverWs`); `lastId` runs ahead of the events yielded by the one being
  yielded (`LastIdIsLast`), which is what the refinement of `EventFeed` has to know of the moment between
  the two.
* `SignedTxProof`, for any set of layouts with distinct field names, any releases, dicts, keys and
  deployments. The invariant says that every array in flight is the list of the
  fields' meanings, as long as the build that encoded it last (`EnvelopeIsWritten`), that
  the signature covers the caller's own array (`SignatureIsOverWritten`), and that what was
  read was read as meant. `DecodeOfEncode` is the lemma it rests on: m fields of a struct
  decode, where n >= m are known, to the struct, if the rest has its default.
* `AdminGovernanceProof`, for any registry, server, number of proposals and votes. The
  hash is injective in the context (`CommitmentsBind`), so a vote checked against the
  stored commitment is over the stored context (`CountedAreInformed`). What the engine does once a
  vote counts (quorum, execution, rotation) is modelled so that votes and registries can change, and
  no property is about it.

Assumed, and named in the modules: SHA-256 and Ed25519 are what they promise (a hash is
the tuple it is of, a signature fits one key and one message).

Only model-checked, because fairness and ENABLED are out of the prover's reach: the liveness properties
`ReadyReturns` and `FailureIsForgotten`, `CallsReturn`, `WaitersReturn`, `CatchesUp` and
`CloseEndsTheLoop`. `ReleasedShapesStayReadable` is about the layouts of this repository and the table of
released lengths, and is model-checked only: for other layouts there is nothing to prove that is not
assumed. For one of the liveness properties, `FailureIsForgotten`, the safety facts it rests on are proved
(`ReadyProof`).

## 6. Not modelled, and why

* Trigger policies and trigger history: both clients validate records of one answer and
  keep nothing between two; what moves the policy's versions and joins the pages is the
  engine and the service, which are not in the repository. `SetTriggerMarketConfig` itself
  is an admin action and a layout here.
* The single-field checks of `governance-query.ts` (integers, hex, array lengths), the
  renaming of `codec-adapter.ts`, `peek_*`, key loading and the derive macro: pure conversions,
  pinned by vectors in `conformance/`. JavaScript numbers beyond 2^53 are among them.
* Ed25519, Keccak and SHA-256; ABCI event names; the test tooling.
* Read queries and the Python client's configuration keep no state but the last reply's
  rate-limit numbers.
* `submitViaCometBFT` (the internal direct-node path) answers as a gateway that only
  acknowledges CheckTx. `orderbookSnapshot` and the two order book streams share the
  loops that are modelled. Requests that never end (`fetch` has no timeout) are excluded by the
  fairness of section 4.
* An event handler that throws loses its event: `afterId` is advanced before
  (`client.ts:1673`). A verifier that expires leaves no entry (`client.ts:814`). A Python stream
  that is closed normally reconnects at once, without backoff (`streams.py:82`). All three
  are in the models and contradict no promise, so no property is about them.
* `EmergencyAction` is a layout: what it does is the engine's. So is the nonce window
  of the engine.
* `setPositionTriggers` and `cancelPositionTriggers` with an explicit owner are outside
  `Signing`; two threads iterating over one Python stream are the caller's affair.

## 7. What is left

1. The engine's recent-nonce window composed with both allocators.
2. Trigger policies over heights, and trigger history pages, as views of a modelled service.
3. `orderbookSnapshot`, and governance's field checks.
4. Proofs: that a submission which has not returned, or a closing stream, always has a step
   of its own to take, which is the safety half of their liveness.
