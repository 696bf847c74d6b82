# TLA+ models of the aetherium agents

This directory holds TLA+ models of parts of the relayer, the validator and the
chain adapters, checked with TLC, and the configurations that check them.
`PROJECT.json` records:
- the components and which module models each;
- the runs and the properties each checks;
- one mutant per property of every passing run;
- which source lines each definition models;
- the findings;
- the hazards the models aim at.

Run a check with `tlc -workers 2 -config <run>.cfg <module>`, where the module
is the one `PROJECT.json` names for the run.

## 1. The system and its parts

The relayer delivers a message to a destination chain. To do so it must supply
metadata that the destination's Interchain Security Module (ISM) accepts. The
validator signs checkpoints of the origin chain, announces where it stores
them, and serves an EigenLayer node API.

| Part | Source | Model |
|---|---|---|
| Recursive metadata builder | `agents/relayer/src/msg/metadata/message_builder.rs` | `IsmMetadataBuilder`, `MC_IsmMetadataBuilder`, `MC_BuilderTests` |
| Strategies: routing, aggregation, multisig, CCIP-read, null | not in `src/` (spec §4.4) | `IsmMetadataBuilder` (spec-modelled actions) |
| What a build promises | spec §4.2–4.4, §7 | `IsmResolution` (abstract) |
| ISM classification (`module_type`) | `chains/aetherium-ethereum/src/ism/interchain_security_module.rs`, `chains/aetherium-cosmos/src/types.rs` | `IsmClassification`, `MC_IsmClassification` |
| ISM and announce query adapters | `chains/aetherium-sealevel/src/multisig_ism.rs`; `chains/aetherium-cosmos/src/{routing_ism,aggregation_ism,multisig_ism,interchain_security_module,validator_announce}.rs`; `chains/aetherium-ethereum/src/ism/{routing_ism,interchain_security_module,ccip_read_ism}.rs` | `ChainIsmAdapters` |
| Ethereum provider lookups with retry | `chains/aetherium-ethereum/src/rpc_clients/provider.rs` | `ProviderLookup`, `MC_ProviderLookup` |
| Provider calls and adapter calls together | the above | `MC_ChainCalls` |
| Message codec | `aetherium-core/src/types/message.rs` | `MessageCodec`, `MC_MessageCodec` |
| Domains and reorg periods | `aetherium-core/src/chain.rs` | `DomainConfig`, `MC_DomainConfig` |
| Validator settings | `agents/validator/src/settings.rs` | `ValidatorSettings` |
| Validator EigenLayer node API | `agents/validator/src/server/eigen_node.rs` | `EigenNodeApi` |
| Validator side together | the three above | `MC_Validator` |

How the parts interact:
- The builder classifies each ISM through a chain adapter (`module_type`) and queries it through the adapters (`route`, `modules_and_threshold`, `validators_and_threshold`).
- It dispatches to a strategy. Routing and aggregation call the builder again for each child ISM.
- Aggregation children are futures polled together by `join_all`, so their steps interleave at every `.await`. They share one `Arc<Mutex<u32>>` count budget.
- The adapters and the provider lookups share the chain's RPC clients and run concurrently with each other.
- The validator loads its settings, and with them its origin domain and reorg period, before its tasks start. Those tasks set the checkpoint gauges that the node API reads.

## 2. Modules

### `IsmMetadataBuilder` and `MC_IsmMetadataBuilder`

This module models one whole build, for a destination whose ISM graph is fixed by CONSTANTS: `ModuleTypeOf`, `Route`, `Modules` and `Threshold`.

**Frames.** Each call of `build_message_metadata` is a *frame*, named by its path in the call tree:
- the root is `<<>>`;
- the k-th module of an aggregation frame `p` is `p \o <<k>>`;
- the delegate of a routing frame `p` is `p \o <<1>>`.

`frames[p]` holds the ISM, its by-value `ism_depth`, a program counter, the result, and whether the count was taken. `ismCount` is the shared `*ism_count`. `fault` chooses once, at Init, which collaborator calls fail for the ISMs in `FaultyIsms`.

**Actions**, one per segment between awaits:

| Action | Code | What it does |
|---|---|---|
| `Classify` | lines 95–118 | the collaborators answer (or `FailedToBuild`); the depth check `ism_depth >= max_ism_depth` |
| `CountCheck` | lines 119–148 | the locked check-then-increment; then dispatch: Null is `Ok`, Unused/LegacyMultisig is `UnsupportedModuleType`, the others enter their strategy |
| `RouteQuery` / `RouteReturn` | spec-modelled | the routing strategy (query, then await the delegate) |
| `ModulesQuery` / `AggregationReturn` | spec-modelled | the aggregation strategy; `AggregationReturn` waits for all children, as `join_all` does |
| `Fetch` | spec-modelled | the multisig and CCIP-read strategies |

`Resolvable(i, d)` is a RECURSIVE reference definition. It says whether ISM `i` at nesting level `d` is verifiable, given the chain's answers and an unlimited count budget.

`MC_IsmMetadataBuilder` defines four trees, and `MC_BuilderTests` defines the fifth:

| Tree | What it contains |
|---|---|
| Mixed | every module type, two faulty multisigs and a nested aggregation |
| Edge | aggregation thresholds of 0 and above the module count, and a faulty multisig |
| Cyclic | an aggregation listing itself, and a routing ISM routing to itself |
| Test (`MC_BuilderTests`) | the tree of `insert_ism_test_data` from the builder's unit tests |
| Spec | the scenario of spec §8 |

### `MC_BuilderTests`: the builder's unit tests under every schedule

The tests `max_depth_reached` (`max_ism_depth = 2`) and `max_ism_count_reached` (`max_ism_count = 5`) each build their own mocks and `params`, so they share no state. `MC_BuilderTests` instantiates `IsmMetadataBuilder` twice over the test tree, with renamed variables, and lets the count test's build start once the depth test's build has returned. The budget a test leaves at its default is one the 16-ISM, four-level tree never reaches: 100 ISMs, or depth 5. The default constants live in `pending_message.rs`, which is not in `src/`.

### `IsmResolution`: the abstract build, and the refinement

`IsmResolution` says what a build promises, with the recursion and the concurrency hidden:
- while the build runs it takes the count budget one ISM at a time, never beyond `max_ism_count`;
- it returns once;
- it returns `Ok` only for a verifiable root;
- it fails for a verifiable root only when the whole budget is spent.

`IsmMetadataBuilder` instantiates it as `Resolution` with a refinement mapping:
- `outcome` is the root frame's result;
- `spent` is `ismCount`;
- `verifiable` is `Resolvable(RootIsm, 0)`.

`ImplementsResolution` is `Resolution!Spec`, checked as a PROPERTY.

### `IsmClassification` and `MC_IsmClassification`

- `EthereumModuleType(byte)` is `ModuleType::from_u8`, with `Unused` for an unknown byte.
- `CosmosModuleType` is the variant-by-variant `IsmType` mapping.
- `MC_IsmClassification` feeds the decoded types of a small aggregation (known, legacy, unknown and out-of-range answers) to the builder as its `ModuleTypeOf`.

### `MessageCodec` and `MC_MessageCodec`

- `Encode` (with `ToBE`) is the wire layout: version, then nonce, origin, sender, destination, recipient and body, with big-endian integers.
- `FromRaw` models `From<&RawAetheriumMessage>`, which indexes the vector without a length check.
- `ReadFrom` models `Decode::read_from`, which reads through `read_exact`.
- `WriteTo` encodes a message, or `Truncated(n)` hands a decoder a cut of an encoding at length n; `DecodeFromRaw` and `DecodeReadFrom` run the two decoders on the raw vector.
- Bytes are integers, and the `u32` fields keep their width.

### `ProviderLookup` and `MC_ProviderLookup`

The six provider methods run as concurrent `Calls`. `Get`, `Sleep`, `CheckBlock`, `Receipt`, `Latest` and `Query` are the segments between awaits. `Index` is the node indexing the call's object at any moment, including while the relayer sleeps. `get_with_retry_on_none`:
- makes at most `MaxTries = 3` tries (`for _ in 0..3`);
- retries `None`;
- returns an error at once, through `?`.

### `ChainIsmAdapters`

This module models one adapter call per element of `Calls`:
- Sealevel `validators_and_threshold`: the payer check, `get_account_metas`, then `simulate_instruction` with its `ok_or_else` on missing return data;
- Cosmos `route`: `wasm_query`, then the JSON and bech32 parses;
- Cosmos `modules_and_threshold` and `validators_and_threshold`: one `wasm_query`, then the JSON parse and the address parses;
- Cosmos `module_type`: `wasm_query`, then the JSON parse;
- Cosmos `dry_run_verify`: `wasm_query` of `verify`; a `false` answer is `Ok(None)`;
- Ethereum `route` and `module_type`: one `eth_call` each;
- Ethereum `dry_run_verify`: `try_join` of the verify call and the gas estimate, so an error of either fails the call, and a `false` verify is `Ok(None)`;
- Ethereum `get_offchain_verify_info`;
- Cosmos `get_announced_storage_locations`;
- Cosmos `announce`, through `tx_response_to_outcome`.

Each remote call is answered from a per-call-site set of replies (an error, a well-formed reply, or a reply broken the way the adapter parses it). `rpcs` records the calls made, in order.

### `MC_ChainCalls`

`MC_ChainCalls` runs two provider lookups (`MC_ProviderLookup`) and one adapter call (`ChainIsmAdapters`, through `INSTANCE … WITH` renamed variables) side by side. Each step is a step of one of them, with the other's variables unchanged.

### `DomainConfig`, `ValidatorSettings`, `EigenNodeApi` and `MC_Validator`

- `DomainConfig` models `AetheriumDomain::from_config`: a known id, an unknown one, and the name checks. It also models `ReorgPeriod`: `from_blocks`, `as_blocks`, its serde `Deserialize` visitor and `Serialize`. `Blocks(k)` is only built by `from_blocks`, so `k > 0` as `NonZeroU32` requires. The visitor rejects a negative number and `null`, because it implements neither `visit_i64` nor `visit_unit`. A configured name is abstracted to its lowercase letters and whether any was upper case, which is all the case-insensitive parsing looks at.
- `ValidatorSettings` models `from_config_filtered` and `parse_checkpoint_syncer`, with the error collection of the parser. Its `Load` step reads the origin chain's domain and reorg period through `DomainConfig`.
- `EigenNodeApi` models the four handlers of the `/eigen` router and the gauges `validator_observed` and `validator_processed`. The validator's tasks move the gauges (`Observe`, `Sign`), and a `Restart` registers fresh gauges at 0. `response` keeps the last response of each route, and for the health route the gauges it read and the process run that served it.
- `MC_Validator` composes the three. Its `part` variable picks which one a behaviour exercises, and the idle parts stay at their initial values. The parts share no state in the code: the settings are read once at start-up, and the API reads only the gauges.

## 3. Runs

| Run | Module | Bounds | Checks | Shows |
|---|---|---|---|---|
| `mixed_tight` | MC_IsmMetadataBuilder | Mixed, depth 3, count 4 | `TypeOK`, `CountBound`, `DepthBound`, `ResultSound` | the counter is exact and bounded under every interleaving; no strategy runs at a level ≥ max depth; no `Ok` for an unverifiable ISM while the budget binds |
| `edge_thresholds` | MC_IsmMetadataBuilder | Edge, depth 3, count 10 | `ResultSound`, `ResultComplete` | with a budget that cannot bind, a build is `Ok` exactly when the ISM is verifiable, the degenerate thresholds included |
| `cyclic` | MC_IsmMetadataBuilder | Cyclic, depth 4, count 5 | `DepthBound`, `CountBound`, `QueriesWithinBudget`, `Termination` | a self-referential configuration is stopped by the bounds; the `build_ism`/`module_type` queries, which run before the count check, stay within 1 + count × widest fan-out; every build returns |
| `builder_tests` | MC_BuilderTests | Test, depth 2 then count 5 | `TestMaxDepthOutcome`, `TestMaxCountOutcome`, `ImplementsResolution` | the unit tests `max_depth_reached` and `max_ism_count_reached` hold under every schedule: the error, the depth or count log and the counter bound they assert; both builds refine `IsmResolution` |
| `spec_scenario_count` | MC_IsmMetadataBuilder | Spec, count 5 | `SpecScenarioSucceeds` (violation) | finding 1 |
| `codec_roundtrip` | MC_MessageCodec | 3 versions, 3 nonces, 2 domains, 2 addresses, 3 bodies, 5 cut lengths | `TypeOK`, `RoundTrip`, `DecodersAgree` | `read_from` inverts the encoding, and the two decoders agree on every whole encoding |
| `codec_short_input` | MC_MessageCodec | same | `ShortInputIsError` (violation) | finding 2 |
| `chain_calls` | MC_ChainCalls | 2 lookups, 1 adapter call, 4 block answers | `NotFoundOnlyAfterThreeMisses`, `ErrorsSurfaced`, `BlockMatchesHeight`, `ErrorsNotMasked`, `NoRpcWithoutPayer`, `Termination` | see below |
| `adapters_panic` | MC_ChainCalls | same | `NoPanicOnReply` (violation) | finding 4 |
| `classify` | MC_IsmClassification | Ethereum bytes 0, 2, 3, 6, 8, 255 | `UnsupportedTypesFail`, `ImplementsResolution` | exactly the legacy and unknown types fail, and classification keeps the refinement |
| `classify_cosmos` | MC_IsmClassification | the Cosmos `IsmType`s | `UnsupportedTypesFail` (violation) | finding 3 |
| `validator` | MC_Validator | 6 ids × 6 names × case × protocol × stack; every raw settings record over 2 chains; 1 restart, gauges to 12 | `FromConfigSound`, `FromConfigComplete`, `SettingsFromTheirKeys`, `ReorgPeriodUsable`, `ReorgRoundTrip`, `HealthImprovesOnlyBySigning` | see below |

What the `chain_calls` run shows:
- not-found is reported only after three `None` answers;
- a node error ends the call at once;
- a returned block is the one at the height asked for, and has a hash;
- an adapter returns `Ok` only after well-formed replies; announce's `executed` and a dry run's verdict match the chain's answer, and a failed gas estimate fails the dry run;
- a Sealevel adapter without a payer makes no RPC and fails with `SignerUnavailable`;
- every lookup returns.

What the `validator` run shows:
- `from_config` accepts exactly the consistent configurations, and names the configured chain;
- loaded settings come from their keys, with a default only for an absent key;
- the loaded reorg period is usable as a block count exactly when it was configured as one, and it survives `Serialize` followed by `Deserialize`;
- within one process, the health route reports a better status only after the signed-checkpoint gauge advanced.

**Why the bounds are enough.**
- Mixed: budget 4 is below the 8–10 ISMs that can be dispatched, so `MaxIsmCountReached` occurs both before and after sibling branches. Depth 3 cuts a routing chain at its third level while a Null under an aggregation resolves at level 2, so both outcomes of the depth check occur in one tree.
- Cyclic: this is the smallest configuration that recurses without end. With depth 4 and count 5 both bounds bind on some branch, and the count binds before the depth does on the widest branch, so a build that ignored the count would query more ISMs than the budget allows.
- Test: with depth 2 the routing ISMs at the third level are cut, so every aggregation below the root misses its threshold. With count 5 the budget runs out inside the second level, at a different branch under each schedule.
- Codec: the nonces set the low and the high byte of a `u32`, and the cuts sit at 0, 1 and on both sides of the 77-byte header.
- Provider: the four block answers cover each early return of `get_block_by_height`. Two concurrent calls over all six kinds let the node index at any point in the retry loop.
- Adapters: every reply of every call site is enumerated, and so is the payer choice.
- Validator: the names include bsc's two spellings, mixed case and an unknown name. The reorg inputs include 0, a `u32` number and string, a value above `u32`, and a tag. Gauges up to 12 put the delta on both sides of 1 and of 10.

**Mutants.** Each property of each passing run is also checked against a plausible slip in the code it is about, listed under `mutants` in `PROJECT.json`. Examples:
- an off-by-one in the depth, count or retry bound, or the count check dropped;
- a quorum comparison off in either direction;
- an error retried like `None`;
- the block-height comparison left out;
- missing simulation data defaulted;
- the payer check dropped;
- big- and little-endian swapped;
- `None` serialized as JSON `null` instead of the number 0;
- the checkpoint delta subtracted the other way round.

TLC finds each of these violating its property.

## 4. Fairness

- **Builder.** `IsmMetadataBuilder` assumes weak fairness of `Next`. Every collaborator call returns, with an answer or an error. `join_all` polls every pending child. The count lock's critical section holds no await.
- **Provider lookups.** `ProviderLookup` assumes weak fairness of each call's `Lookup`, because each awaited RPC returns and `sleep` always wakes. The node's `Index` gets no fairness, so `Termination` holds even when the node never indexes.
- **Unit tests.** `MC_BuilderTests` assumes weak fairness of its `Next`, for the builder's reasons. The count test's build waits only for the depth test's build, which returns.
- **Composition.** `MC_ChainCalls` keeps the per-lookup fairness. The adapter calls, the validator parts and the node API need none: no liveness property is claimed of them.

The runs use `CHECK_DEADLOCK FALSE`, because a finished build, lookup, parse or adapter call is a state with no successor.

## 5. Findings

1. **Count (spec §8, max_count = 5).** The spec assumes the mocks' depth-first order. The code shares the count between concurrent branches (message_builder.rs lines 121–133). When C's first hop takes the fifth slot before B's Null, B fails, and so does the build.
2. **Short input (spec §4.1).** `From<&RawAetheriumMessage>` slices `m[0..77]` without a length check (message.rs:89), so a short vector panics. `read_from` returns the length error the spec describes.
3. **Cosmos legacy multisig (spec §4.4).** The Cosmos `IsmType` mapping turns `LegacyMultisig` into `MessageIdMultisig` (types.rs:19), so the builder resolves a legacy ISM that fails on Ethereum.
4. **Announce outcome (spec §6).** `tx_response_to_outcome` hands the hex-decoded txhash to `H256::from_slice` (types.rs:36), which panics unless the hash has exactly 32 bytes. A node's malformed hash crashes the announce task, while a non-hex hash is returned as an error.

Two further observations are not separate runs:
- With max_depth = 2, the code rejects the Null of spec §8 at level 2 (line 107's `>=`), as the unit test `max_depth_reached` expects. The spec claims the build succeeds.
- The doc comment of `node_health_handler` writes the delta as signed minus observed, and names 203. The code and its test use observed minus processed, and 206. The mutant of `HealthImprovesOnlyBySigning` is exactly the comment's subtraction.

## 6. What is not modelled

- The metadata bytes, signatures and hashes (abstracted to "fetch succeeds or fails"), and the Keccak message id.
- Logging, metrics and the JSON bodies of the info routes.
- The submitter, the scraper stores and the application-context classifier: stubs or database code with no control to check.
- The Fuel adapters, which are `todo!()`.
- The base agent settings of `aetherium_base`, which are outside this repository. They are valid or not, and list the chains.
- The test mocks. They never suspend, and `MockBaseMetadataBuilder`, which hands them out, is not in `src/`. `MC_BuilderTests` instead reproduces the unit tests' tree and checks the tests' assertions under every schedule. The fixture pushes its routing ISMs onto one shared `build_routing_ism` queue. Under a concurrent schedule a routing ISM may therefore take another one's route. Every leaf of the tree is a Null, so this changes no test's outcome.
- The error types of `error.rs` and the chain-specific error modules, and the adapters' constructors and ABI tables. They wrap or convert errors and hold no control.
