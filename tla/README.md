# Verification of the ISMP get-request scripts

This directory holds TLA+ models of the TypeScript scripts under `src/scripts/`.
The scripts drive an ISMP "get" query: Pop asks Asset Hub (AH) for a storage
value at a height, and the script carries AH's read proof back to Pop.  It also
holds the TLC configurations that model-check these models and the TLAPS proofs
about them.

## The system

`src/scripts/ismp-get/ismp-get.ts`, `run()` (the Orchestrator):

1. setup:
   - `transferRelayAssetToPara` submits a reserve transfer of the relay asset to Pop on the relay chain and awaits its finality there. The XCM that credits Alice on Pop ("Needed for fee payment") executes later.
   - `ismpAddParachain` is a sudo call on Pop, signed by Alice and awaited;
2. `latest_height` := `ismp.latestStateMachineHeight` of AH on Pop;
3. submit `ismpDemo.getRequest{paraId: AH, height, keys}` through `submitExtrinsic`. This captures the InBlock events into `events`;
4. `findEvent(events, "ismp", "Request")` gives the request's commitment (EventExtractor);
5. `queryRequest` calls the `ismp.queryRequests` RPC and takes the first result. The result's `source`/`dest` decode as opaque Strings (`types.ts`, `Get`), so it overwrites them with `convertToStateMachine("POLKADOT-4001")` and `("POLKADOT-1000")` (RequestResolver, StateMachineIdentity);
6. `makeIsmpResponse`:
   - gets AH's `system.blockHash(height)`, then `state.getReadProof([keys[0]], hashAt)` (ProofFetcher);
   - builds the `handleUnsigned` response datagram (ResponseBuilder);
   - sends it with an inline copy of the status callback.

`src/scripts/ismp-get/common.ts`, `submitExtrinsic` (TransactionLifecycle): it wraps
`signAndSend` in a Promise.
- The status callback stores the InBlock events.
- On Finalized it calls `unsub.then()` and resolves.
- On an error status it calls `unsub.then()` and rejects.
- `src/scripts/e2e_tests/common.ts` has a copy that captures no events.

`src/scripts/e2e_tests/xc-transfer/region-transfer.ts` repeats the flow, with three differences:
- it uses the e2e copy of `submitExtrinsic`;
- it takes the commitment from `ismpDemo.requests(0)` instead of from the events;
- its `makeIsmpResponse` is guarded by `isGetRequest`, which returns `true` for every request. Its else branch creates an Error without throwing it.

## Modules

| module | models | state | actions |
|---|---|---|---|
| `SubmitExtrinsic` | one `submitExtrinsic` call and the node's transaction watcher | watcher state `node`, best-chain block `incl`, blocks `used`, events per block `evOf`, undelivered statuses `out`, `promise`, `events` (tx_events), subscription `sub` | code: `Submit(ok)`, `Callback`; node: `Include(b,e)`, `Retract`, `Finalize`, `Error(k)`, `Supersede` |
| `TxOutcome` | what a submission promises (§3 TransactionOutcome): Idle → Submitted → Finalized (with the final block's events) or Errored | the node's watcher (as in `SubmitExtrinsic`), `outcome`, `result` | `Submit`, `Include`, `Retract`, `Finalize`, `Fail`, `Resolve`, `Reject` |
| `IsmpGet` | `run()` of both scripts (`IsmpGetRun`, `RegionTransferRun`), with two `SubmitExtrinsic` instances (`ReqLeg`, `RespLeg`) and Pop, AH and the fee XCM as the environment | `pc`, `height`, `comm`, `req`, `hashAt`, `proof`, `dgram`; AH head `ahHead`; AH heights Pop knows, `known`; Alice's fee funds on Pop, `fee`; the requests Pop stored before the run, `prior`; the two legs' variables | one action per await of `run()`: `Fund`, `AddPara`, `ReadHeight`, `SubmitGet`, `AwaitGet`, `FindCommitment` or `ReadFirstRequest`, `QueryRequest`, `BlockHash` or `RtMakeResponse`, `ReadProof`, `Respond`, `AwaitResp`, `Crash`; environment: `AhProduce`, `PopLearn`, `XcmArrive`, `ReqChain`, `RespChain` |
| `OrchestratorFlow` | what the orchestrator promises (§4.7): Idle → RequestSubmitted → CommitmentKnown → RequestResolved → ProofFetched → ResponseSubmitted, or Failed from any non-terminal phase | `phase`, `commitment`, `request`, `proof`, `response` | `SubmitRequest`, `ExtractCommitment`, `ResolveRequest`, `FetchProof`, `SubmitResponse`, `Fail` |
| `StateMachineIdentity` | `convertToStateMachine` as a parse of strings | `input`, `result` | `Convert`: one call |
| `SubmitExtrinsic_proofs`, `IsmpGet_proofs`, `IsmpGetRefinement`, `StateMachineIdentity_proofs` | TLAPS proofs | | |
| `MC_SubmitExtrinsic`, `MC_IsmpGet`, `MC_StateMachineIdentity` | model values and small sets for TLC | | |

Correspondence with the code:
- `Callback` is the whole status callback of `common.ts` lines 17–31. A status is handled in order from the head of `out`.
  - InBlock overwrites `events` with what the client delivered (`Fetched`).
  - Finalized resolves, and an error status rejects. Both go through `Settle`, because resolve and reject on a settled Promise do nothing.
  - `sub` is left live, because `unsub.then()` calls nothing.
- `Submit(FALSE)` is a submission the RPC refuses. `signAndSend`'s own promise rejects and the callback never runs.
- In `IsmpGet`, each orchestrator action is the continuation after one `await`. Each thrown exception is its branch to `"failed"`:
  - `toHuman()` of undefined;
  - `"get" in undefined`;
  - `request.get` of a Post;
  - `getReadProof` at the zero hash or at pruned state.
- `Crash` is Node.js ending the process on the unhandled rejection of `unsub`.
- The data are abstracted to what the properties distinguish:
  - a commitment is a model value;
  - a request is a record of kind, source, dest, height and keys;
  - a proof is the block it was read at and the set of keys it covers;
  - Pop's handler accepts a datagram (`Accepts`) only if it answers a stored, unanswered request, at a height Pop has a commitment for, with a proof at that height covering the keys.
- `AhBlockHash` is `system.blockHash`:
  - read at AH's head block N, it holds the hashes of N − `BlockHashCount` .. N − 1: frame_system stores the parent's hash when a block starts and prunes the oldest entry when it ends. Any other height, N itself included, reads as the zero hash;
  - the genesis hash is kept.
- State older than `StateWindow` blocks is pruned.
- `CommitmentSource` selects the script: `"event"` is ismp-get.ts and `"index0"` is region-transfer.ts.
  - In region-transfer.ts the request leg captures no events (the e2e `submitExtrinsic`).
  - `ReadFirstRequest` reads index 0 of `ismpDemo.requests` (`DemoRequests`: the prior requests, then ours).
  - `RtMakeResponse` is the `isGetRequest` guard. A Post stored at index 0 passes it and throws when its `.get.height` is read (`BlockHashAt`).
- `prior` is chosen in the initial state from `PriorStores`: an empty store, or one earlier Get or Post request.
- The setup:
  - `Fund` is `transferRelayAssetToPara` awaited to relay-chain finality, and `XcmArrive` is the later credit on Pop.
  - Pop refuses Alice's signed calls (`AddPara`, `SubmitGet`) until then (`PopSubmitOk`).
  - A rejected relay submission rejects `run()`.
- In `StateMachineIdentity`:
  - a string is a sequence of characters, and a network name is one character (`Word`), since the code compares it as a whole;
  - `FirstPart`/`SecondPart` are `split("-")` destructured into `[network, value]`, cut at `DashAt`, the first dash;
  - `ParseInt` is `parseInt(value, 10)`: the longest digit prefix (up to `NonDigitAt`), or NaN (also for `undefined`). Its value `DecimalValue` is a recursive function over the prefix, not a `RECURSIVE` operator, so the module can be reasoned about in TLAPS;
  - `ToUpperCase` upper-cases each word;
  - the reference (`Malformed`, `Format`) is written from §3/§4.3/§8 with its own tokenisation. Spec §4.3 does not say whether the family token is case-sensitive, so no property compares the code's `toUpperCase` switch with a reference: any such reference would restate the switch.
- `SubmitExtrinsic` implements `TxOutcome` under the refinement mapping:
  - `OutcomeOf` maps `promise` none/pending/resolved/rejected to Idle/Submitted/Finalized/Errored;
  - `ResultOf` is `events` once resolved.
- `IsmpGet` implements `OrchestratorFlow` (`Flow`) under a mapping of `run()`'s state:
  - `PhaseOf` maps the awaits of `run()` to phases. Everything up to and including awaiting the get-request's finality is Idle. `"find"` is RequestSubmitted and `"query"` is CommitmentKnown. `"blockhash"` and `"proof"` are RequestResolved; `"respond"` and `"awaitResp"` are ProofFetched. `"done"` is ResponseSubmitted and `"failed"` is Failed;
  - `comm` and `req` are the commitment and the request. `ProofOf` keeps the proof's height, and `ResponseOf` is the submitted datagram once `run()` is done;
  - the legs, the chains and the setup are internal: their steps are stutters of the flow.

## Runs

| run | cfg | result | shows |
|---|---|---|---|
| submit_reliable | `SubmitExtrinsic.cfg` | pass (19 130 states) | with every InBlock result delivered, a resolved promise holds the events of the finalized block after any reorganisations (`EventsOfFinalBlock`); a pending promise always settles (`SubmitSettles`); `submitExtrinsic` implements `TxOutcome` with its fairness (`ImplementsTxOutcome`); `TypeOK` |
| submit_lossy | `SubmitExtrinsic_Lossy.cfg` | pass (32 739 states) | with lost InBlock results and refused submissions, the promise resolves only on finality of a block that includes the transaction (`ResolvedOnlyWhenFinal`); once it has resolved, no later step changes `tx_events` or the promise, although the subscription stays live (`EventsFrozen`, an action property) |
| submit_lost_events | `SubmitExtrinsic_LostEvents.cfg` | violation | a dropped or empty InBlock result leaves `tx_events` without the final block's events |
| submit_unsub | `SubmitExtrinsic_Unsub.cfg` | violation | the subscription stays live after the promise settles |
| submit_refused | `SubmitExtrinsic_Refused.cfg` | violation | a refused submission never settles |
| ismp_get | `IsmpGet.cfg` | pass (182 000 states) | the response answers this run's own request (`ResponseAnswersOwnRequest`), with the proof at the request height for AH (`ProofAtRequestHeight`); `done` implies the request is answered on Pop (`DoneMeansAnswered`); run() always ends (`Termination`); run() implements the §4.7 flow (`ImplementsOrchestratorFlow`) |
| ismp_get_index0 | `IsmpGet_Index0.cfg` | violation | region-transfer.ts answers an earlier request stored at index 0 |
| ismp_get_multikey | `IsmpGet_MultiKey.cfg` | violation | a two-key request gets a proof of `keys[0]` only |
| ismp_get_rt | `IsmpGet_RegionTransfer.cfg` | pass (168 432 states) | region-transfer.ts, with an empty store, an earlier Get or an earlier Post at index 0, lost events and refusals: `done` implies Pop has recorded a response to the request `run()` resolved (`DoneMeansResolvedAnswered`), and `run()` ends (`Termination`). A Post at index 0 throws instead of completing silently through the dead else branch. That the resolved request may not be this run's own is the `ismp_get_index0` violation |
| ismp_get_fees | `IsmpGet_Fees.cfg` | violation | `addParachain` is signed before the fee transfer's XCM has credited Alice on Pop (`FeesBeforePopCalls`) |
| smi_parse | `StateMachineIdentity.cfg` | pass (9 362 states) | over all 4 681 strings of at most four characters, `convertToStateMachine` gives back every formatted identity (`FormatRoundTrip`, §8), |
| smi_malformed | `StateMachineIdentity_Malformed.cfg` | violation | `"POLKADOT"` gives `{Polkadot: NaN}` and `"POLKADOT-1x"` gives `{Polkadot: 1}`, where §4.3 fails with MalformedValue (`MalformedValueRejected`) |

Findings (details in `PROJECT.json`):
- `unsub.then()` never unsubscribes;
- a refused submission hangs the promise;
- lost InBlock events are not recovered;
- region-transfer reads `requests(0)`;
- only `keys[0]` is proved;
- the setup does not wait for the fee XCM;
- `parseInt` accepts malformed values.

Every property of a passing run has a mutant in `PROJECT.json`. Each mutant is a plausible bug of the mapped definition, and TLC finds it:
- events pushed instead of assigned;
- only the first InBlock captured;
- errors ignored;
- resolve on InBlock;
- the previous block's hash;
- source and dest swapped;
- the proof read at the best block;
- a swallowed rejection;
- no crash on the unhandled rejection;
- `isGetRequest` testing the kind;
- the last digit lost;
- the Error of an unknown network created but not thrown.

### Bounds

SubmitExtrinsic uses three blocks and four event lists. That allows two reorganisations, each re-including the transaction with different events. It also allows a lost InBlock followed by Finalized.

IsmpGet uses:
- two Pop blocks and two own commitments, for one reorganisation that changes the commitment;
- an empty store or one prior request stored before the run: a Get in `ismp_get`, a Get or a Post in `ismp_get_rt`, for the index-0 case;
- AH heights 0..3 with `BlockHashCount = StateWindow = 2`, so that both kinds of pruning happen between reading the height and reading the proof;
- Pop learning heights in any order relative to the run.

StateMachineIdentity uses every string of at most four characters over `POLKADOT`, `polkadot`, `KUSAMA`, `x`, `0`, `1`, `7` and `-`. These include:
- formatted one- and two-digit identities;
- a missing suffix, an empty suffix, a trailing letter and a second dash;
- lower-case networks.

The status stream of one transaction is finite (Include needs a fresh block), so the state spaces are finite.

### Fairness

- The event loop runs every pending callback, and every `await` continues once its result is in: `WF` on `Callback` and on the orchestrator.
- The node is assumed to end the status stream of an accepted transaction, with Finalized or an error status: `WF` on `Finalize \/ Error`.
- The code itself has no timeout. A node that never ends the stream makes `run()` hang, and `Termination` is only as strong as this assumption (see the liveness hazard).

## Proofs

`SubmitExtrinsic_proofs.tla` proves the following for all values of the constants (`ConstAssumption`: `NoBlock` is not a block, `<<>>` is an event list, the flags are Booleans):
- `IInvHolds`: `Spec => []IInv`;
- `TypeCorrect`: `Spec => []TypeOK`;
- `ResolvedFinal`: `Spec => []ResolvedOnlyWhenFinal`, with lossy delivery and refusals allowed;
- `FinalBlockEvents`: under `CaptureEvents /\ ReliableEvents`, `Spec => []EventsOfFinalBlock`;
- `FrozenAfterResolve`: `Spec => EventsFrozen`, the action property `[][promise = "resolved" => UNCHANGED <<promise, events>>]_vars`. The caller reads `tx_events` after the `await`, and the callback stays subscribed. By `ResolvedInv` (part of `IInv`) a resolved promise means a final node and an empty status queue. Lemma `ResolvedStepFrozen` shows that from such a state every step of `Next` leaves `promise` and `events` unchanged.

`EventsOfFinalBlock` is not inductive. A resolved promise depends on what is still queued in `out`. The strengthening `IInv` records:
- the queue's shape (`QueueInv`): an InBlock names a used block; a Finalized is last in the queue and names `incl` while the node is final;
- that the callback has either still to see the last InBlock of `incl` (`LastInBlockIs`), or has no InBlock left to see and already holds `evOf[incl]` (`CaptureInv`);
- the idle/none correspondence and `incl \in used` (`IdleInv`, `InclInv`, `ResolvedInv`).

TLC checked `IInv` as an invariant first. TLAPS then proves `InitIInv` and `NextIInv`, with one step per action and one sub-step per conjunct the action can disturb, on lemmas about `Tail` and `Append` of the queue. The temporal theorems follow by `PTL`.

`SubmitExtrinsic_proofs.tla` also proves:
- `InvariantsHold`: `Spec => [](IInv /\ ErrorInv)`. `ErrorInv` says a queued error status means the node has failed.
- `Refinement`: under `CaptureEvents /\ ReliableEvents`, `Spec => Outcome!SafeSpec`. Lemma `StepRefines` shows that every step, from states satisfying `IInv` and `ErrorInv`, maps to a `TxOutcome` step or a stutter:
  - a Finalized status resolves only when the node is final, and with the final block's events;
  - an error status rejects only when the node has failed;
  - the node steps map to themselves.

`IsmpGet_proofs.tla` instantiates `SubmitExtrinsic_proofs` once per leg (`RL`, `SL`) and reuses its `StepIInv`. That theorem is `NextIInv` for a submission with any answer `ok` from the node, because IsmpGet decides that answer itself: Pop's fee check for the get-request, `Accepts` for the response. `LegsKeep` shows that every IsmpGet step moves one leg by a step of its submission and leaves the other alone. The proofs rest on `IsmpGetAssumption`, which besides bounds and Booleans says two things, both justified by the code:
- `NoBlock` is no block of either chain;
- a request in Pop's store before the run has a commitment our get-request cannot get, because the commitment hashes the request with Alice's nonce, and it decodes as a `Request` (`RequestShape`: a Get or a Post with a `u64` height, as `API_TYPES` declares).

The theorems:
- `ProofHeightHolds`: `Spec => []ProofAtRequestHeight`, in both scripts and for all constants. Its inductive invariant `PInv` adds that at `"proof"` a non-zero `hashAt` is the request's height (`AhBlockHash` returns its argument or the zero hash), and that at `"respond"` the proof was read at that height.
- `TypeCorrect`: `Spec => []TypeOK`, in both scripts. `TypeOK` is not inductive, and `TInv` adds three things:
  - the legs' `IInv`;
  - `KnownInv`: `LatestKnown`, a `CHOOSE` of the largest known height, names one whenever Pop knows a height. `PopLearn` adds only heights above it;
  - `ReqInv`: the request `queryRequest` returned has a numeric height when it is a Get, so `blockHash` is asked for a block number.
- `ResponseOwnRequest`: with `CommitmentSource = "event"` (ismp-get.ts), `Spec => []ResponseAnswersOwnRequest`.
- `DoneAnswered`: with `CommitmentSource = "event"`, `Spec => []DoneMeansAnswered`.

The last two share the invariant `TInv /\ GInv`. `GInv` follows `run()` across its awaits:
- past `await submitExtrinsic`, the get-request's promise is resolved. By `RL!ResolvedInv` its node is final, so its block and events, and hence `OwnComm`, no longer change (`ReqResolvedKept`, `OwnKept`);
- at `"query"` the commitment is one our request may get (`FindOwnCommitment`). With lost events it may belong to a retracted block;
- after a successful `queryRequest` the commitment is `OwnComm` (`StoredOwn`: earlier requests have other commitments), and the request is `OwnRequest` (`OwnRoundTrip`: decoding and the source/dest overwrite give it back);
- a submitted datagram carries that request. At `"done"` the response's promise is resolved, so by `SL!ResolvedInv` the response is in a block of Pop.

A stale commitment therefore makes `run()` fail at `queryRequest`; it never leads to a response to someone else's request. TLC checked `TInv` (both modes) and `GInv` (event mode, with and without reliable events and refusals) as invariants before the proofs.

`IsmpGetRefinement.tla` proves `FlowRefinement`: with `CommitmentSource = "event"`, `Spec => ImplementsOrchestratorFlow`, that is, ismp-get.ts implements the §4.7 flow. The invariant is `RInv == TInv /\ GInv /\ PInv /\ FInv`. The new conjunct `FInv` says that from `"respond"` on, the proof was read at the request's height. `PInv` gives this only at `"respond"`, and the flow's `SubmitResponse` needs it at `"awaitResp"`. TLC checked `FInv` first. Lemma `StepRefines` shows, one case per action, that every step between `RInv` states is a flow step or a stutter:
- `FindCommitment` is `ExtractCommitment`, with a commitment our request may get (`GInv`);
- `QueryRequest` is `ResolveRequest`, with the request `OwnRequest` (a Get from Pop to AH);
- `ReadProof` is `FetchProof`, at the request's height (`PInv`);
- `AwaitResp` is `SubmitResponse`: the datagram carries the request (`GInv`), names AH and the request height (`ProofAtRequestHeight`), and carries a proof at that height (`FInv`);
- every branch to `"failed"` and `Crash` is `Fail` (`FailStep`);
- the other steps stay within one phase (`WithinPhase`) or leave `run()` alone (`OrchKept`).

Region-transfer.ts does not implement the flow. `ReadFirstRequest` takes the commitment of `requests(0)`, which may be an earlier request's (finding index0). TLC finds this, so the refinement is stated and proved for ismp-get.ts only.

`StateMachineIdentity_proofs.tla` proves `FormatRoundTrip` of `smi_parse` for every alphabet, bound on the input length and `toUpperCase` table. The assumption `StateMachineIdentityAssumption` adds two things to the types:
- `toUpperCase` leaves the words `POLKADOT` and `KUSAMA` as they are;
- `undefined` is not a string.

The theorem:
- `ConvertRoundTrip`: `Spec => []FormatRoundTrip`. `FormatSplit` shows that `split("-")` of `"FAMILY-NUMBER"` gives the family and the number's digits, using the `SubSeq`/`\o` lemmas of `SequenceTheorems`. `DigitsOfNumber` shows that the recursive `DecimalValue` of the one or two digits `format` writes is the number; the recursive function is unfolded by exhibiting its value on `0..Len(p)`. `RoundTrip` combines the two with `UpperFamily`.

It rests on `CInv`: the input is a string of input characters that never changes, and the result, once there, is `ConvertToStateMachine(input)`.

Only model-checked:
- all liveness (`SubmitSettles`, `Termination`) and the fairness part of `ImplementsTxOutcome` (`OrchestratorFlow` states no fairness), because TLAPS does not handle fairness or `ENABLED` here;
- `ProofCoversKeys`, `FeesBeforePopCalls`, and the two properties above in region-transfer.ts. These are violated, so there is nothing to prove;
- `DoneMeansResolvedAnswered` in region-transfer.ts. Its proof would need an invariant for index-0 mode, like `GInv` for event mode, that ties the resolved request to Pop's store through the e2e submission, which captures no events. That invariant is not written yet;
- `TypeOK` of `StateMachineIdentity`: that `parseInt` gives a natural number for a digit string of any length is a fact about `DecimalValue` for every length. That needs induction over the length, and the library's induction theorems take an operator parameter that the installed provers cannot instantiate. The proofs above need it only for the one- and two-digit strings `format` writes, which they unfold explicitly.

## Not modelled

- The relay-chain submission of the fee transfer is modelled only by its outcome: finalized, or rejected or refused.
- Helpers not on the get path are not modelled: `setupRelayAsset`, `openHrmpChannel`, `configureBroker`, `startSales`, `getFreeBalance`, `getAddressFromModuleId`, `sleep`.
- Type registries and constants (`types.ts`, `consts.ts`) are pure data.
- `IsmpGet` uses only the two results of `convertToStateMachine` on its constant strings. The parse itself is checked in `StateMachineIdentity`.
- Concurrent orchestrators are not modelled: each script drives one `run()` to its end, and §5 prescribes one instance per request.
- Proof cryptography and the pallet logic are modelled only as the acceptance conditions of `Accepts`.
