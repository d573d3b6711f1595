# TLA+ models of base-arb-bot

The bot watches Base Flashblocks, looks for profitable rings of swaps, and has
them executed by a contract that borrows from Aave and either ends richer or
reverts.  This directory holds TLA+ modules of the parts that decide and
execute, configurations that check them with TLC, and proofs checked by TLAPS.

## 1. The system

Four processes and a contract, connected by HTTP, a Unix socket and the node:

```
Base node --ws--> rust-executor (ws_loop) --/route-trigger--> python API
                                                               |  plans a packed batch
Base node <--rpc-- rust-executor (submit_plan) <--/submit-plan-+
                        |  /sign
                        v
                   signer-gateway --Unix socket--> Clef (an operator and keys)
BaseArbExecutor.sol <-- transaction; it calls the Aave pool and two adapters
```

| component | state it keeps | operations | what makes it correct |
|---|---|---|---|
| Executor contract (`contracts/src/BaseArbExecutor.sol`) | owner, allow-lists, pause, used commitments, the slots of the active operation, the lock | `start`, `startPacked`, `executeOperation`, `attemptPackedCandidate`, management, `sweep` | a transaction is one atomic arbitrage or nothing; a commitment executes once; nothing held before is spent; candidates are isolated; nothing changes under a running operation |
| Ingest (`rust-executor/src/main.rs`, `ws_loop`) | connection flags, deduplication window, counters, permits | connect, subscribe, read, reconnect, forward | no log forwarded twice within the window, every log accounted for, permits come back, a silent feed is replaced |
| Submission (`submit_plan`, and `route_trigger`'s post) | locals of a request; the node's pool | check, simulate, sign, broadcast, record | only reviewed calls, only when armed; stale plans stop; no transaction waits behind an unused nonce; a request ends everywhere; what was sent is recorded |
| Signer gateway (`signer-gateway`) | none between requests | `/sign`, `/sign-deployment` | what comes back from Clef is what the policy allowed |
| Deployment (`scripts_prepare_deployment.py`, `scripts_deploy_via_signer.py`) | the plan; locals of a run | estimate, sign, send, wait, resume | only reviewed transactions; nothing trusted that was not deployed; success means complete |
| Pool registry (`event_graph.py`, enumeration in `route_engine.py`) | pools, token index | register, affected pools, cycles | the index agrees with the registry; each ring once |
| Sizing (`route_engine.py`, `multicall.py`, quotes of `adapters/`) | one task per cycle, the permits of a semaphore | balance, grid, quote hop by hop, refine, quote again, give up | a quote is what the pools answered, a size is what the first pool could lend, permits come back, an evaluation ends |
| Planning (`execution.py`, `batch_execution.py`) | one task per cycle; the menu | target, simulate, price, group, trim | one loan and one block per menu, best first, the kept menu pays |
| Codec (`packed_batch.py`, `packed.rs`, the contract's reader) | none | encode, validate, decode | three implementations agree on the bytes; one plan, one encoding |
| Discovery, scoring, database, metrics, settings | - | - | not modelled, see section 8 |

The hard parts: re-entrancy and revert boundaries in the contract; several
requests in flight that share a nonce; three processes that give up at
different times (15 s in Python, 300 s for Clef, never for the node); logs that
are repeated, late or missing; pending states that change between two quotes of
one path and blocks that pass between two awaits of one plan; permits held by
coroutines that a time limit cancels; a deployment that stops half way.
`PROJECT.json` lists every hazard at its line, with the properties that watch
it.

## 2. Modules

| module | models | state variables and their counterparts |
|---|---|---|
| `AtomicArbitrage` | what the contract promises: an order is executed whole or not at all | configuration, balances, used commitments, log, block |
| `BaseArbExecutor` | the contract, call by call | `store` = storage, `ledger` = balances and allowances, `frames` = revert boundaries, `pc`/`call` = the calls in progress |
| `BaseArbExecutorProofs` | theorems about it, and that it implements `AtomicArbitrage` | |
| `FlashblocksIngest`, `FlashblocksIngestProofs` | `ws_loop`, `SeenLogs`, `post_route_trigger` | `phase` = where the loop is, `seen`, `posts` = tasks holding a permit, `state` = `ChainState` |
| `SignerPolicy` | `policy.py`, as predicates that hold when a function does not raise | none |
| `Submission`, `SubmissionProofs` | `submit_plan`, the post of `route_trigger`, `/sign`, Clef and the node | `client`, `handler`, `desk` = one request in each process; `pool`, `mined` = the node |
| `Deployment`, `DeploymentProofs` | plan and script, `/sign-deployment`, chain | `script`, `desk`, `pool`, `mined`, `code`, `executor` |
| `LivePoolGraph`, `LivePoolGraphProofs` | the registry, cycle enumeration and deduplication | `pools`, `token_to_pools`, `trigger` = locals of `route_trigger` |
| `RouteSizing`, `RouteSizingProofs` | `evaluate_affected` up to the chosen size: `_optimize_size`, batched and coroutine quotes, the semaphore, the time limit | `chain` = the pending states so far, `task` = locals of each evaluation, `trigger`, `free` = permits, `batched` |
| `PackedBatchPlan`, `PackedBatchPlanProofs` | tasks of `evaluate_affected`, `finalize`, grouping and trimming | `task`, `plan`, `latest` |
| `PackedCodec` | `encode_packed_batch`, Rust's `encode_batch` and validation, the contract's reader, over bytes and digits of a few values | none |
| `PackedWire`, `PackedWireProofs` | the codec behind the planner: what the contract reads of a planned menu | those of `PackedBatchPlan` |
| `MC*` | small instances for TLC | |

`Submission` and `Deployment` extend `SignerPolicy`, as both endpoints use one
policy module.  `PackedWire` extends the planner and the codec.
`BaseArbExecutor` is a refinement of `AtomicArbitrage`
(`AllOrNothing`): a state inside a transaction maps to the state in which the
transaction began, so a whole operation is one step and a revert a stutter.
Names follow the source; `PROJECT.json` gives the lines of each definition.
Operators under "Seeded faults" are used by no action: each is a definition
with a plausible bug, to be put in its place to see a property fail.

How the code became actions:

- One action per stretch of code that no other process can observe in the
  middle: between two awaits in Rust and Python, between two external calls
  in Solidity, one method of the registry under its lock.
- A failed `require` and a failed call both restore the innermost revert
  boundary, so `CandidateReverts` and `TransactionReverts` are always possible
  inside an operation, and guards describe the path that goes on.
- An account may re-enter while foreign code runs.  A re-entrant call that the
  contract refuses has no effect; one it accepts would be a step.
- The handler of a request is dropped at whichever await it has reached when
  the caller closes the connection; the gateway is not.
- A batched round of quotes is one step per hop for all sizes; a coroutine is
  one step per hop, and it holds its permit from the first to the last.  The
  time limit is possible at each of them, for the models have no clock.
- Estimates of one run of the deployment script are read in one step: only the
  absence of the code they are estimated against matters.  The reads of
  `verify_deployed_prefix` are one step as well, and so are those after the last
  receipt: code, owner and entries that are there stay there under the plan, and
  if another run goes on meanwhile the nonce checks of the loop stop this one.

## 3. Runs and bounds

| run | question | instance |
|---|---|---|
| `executor` | is an order (a route, or a menu of two candidates) executed once or not at all, repaid, isolated and cleaned up, with management calls and re-entry in between, and is the invariant of the proofs right? | 2 accounts, 2 tokens, 1 adapter, routes of 2 legs and menus of 2 candidates, premium 1, outputs 0, 1, 3, blocks 0 and 1 (deadline before target) |
| `executor_revisit` (violation) | does a route through its own asset leave earlier balances alone? | one route of 4 legs that comes back to the asset half way |
| `ingest` | deduplication, accounting, flags, permits, silence | 4 logs with 3 keys in a window of 2, 2 permits, 4 accepted logs |
| `submission` | are two concurrent requests reviewed, fresh, without a gap in their nonces, lost only to an overlap, and at an end everywhere, in 5 configurations with one switch off each? | 2 plans, 3 fee levels (one over the cap), 2 keys, destination and nonce changed in Clef, blocks 0 to 2 |
| `submission_record` (violation) | is every broadcast recorded? | the same |
| `deployment` | two runs of the script, one use of the account elsewhere | 1 allowed token, gas of the deployment of 2026-08-16, 3 fee levels (one over the cap), 3 fields changed in Clef |
| `deployment_gas` (violation) | do reviewed transactions have the gas they need? | the same |
| `planner` | is the index exact and every ring evaluated once? | 4 pools on 3 tokens, 1 trigger between registrations, up to 3 hops; tokens symmetric |
| `batch` | grouping, ranking, trimming, and the bytes of the menu in three languages | 3 cycles, the third of the first two's asset (so that the cap on the menu applies) or of another, 2 amounts, 3 profits, 2 fee levels, menu of 2, blocks 0 and 1; bytes of 5 values, fields of 1 or 2 bytes, so that a length or a number may not fit; legs with equal and different data, 2 and 3 per candidate |
| `batch_fallback` (violation) | does every candidate of an accepted menu pay if it is the one that executes? | the same |
| `sizing` | are quotes, sizes and permits right while the state moves, calls fail and time runs out? | 2 cycles of 2 hops, each batched or not, 1 trigger at a time, runs of 2 out of 3 pending states (a best size between two grid sizes, a tie, failing hops, an empty pool), 3 grid sizes, 2 refinements, 2 permits |
| `sizing_inflight` (violation) | does the semaphore bound all quotes? | the same with 1 permit and a state that stands still |

Why these are enough: two concurrent actors are the fewest that can race, and
none of the protocols counts further; two candidates are the fewest with a
fallback, three keys in a window of two the fewest that evict; four pools on
three tokens contain a triangle with a doubled side, hence rings of two and
three hops that share swaps and directions; outputs 0, 1 and 3 are a loss, an
exact return, and a profit after the premium; two pending states are the
fewest in which a path can be quoted partly in an older one.  `MaxBlock`, `MaxBalance`,
`MaxAccepted`, `MaxDuplicates`, `MaxStates`, `MaxRuns` and `MaxElsewhere` only stop
environment actions; no guard of the code depends on them.

Deadlock is checked except in `submission*` and `deployment*`, where requests
and runs are finite and the system rightly stops.

## 4. Fairness

Only what the runtime does by itself is fair:

- `BaseArbExecutor`: a transaction that has begun is executed to its end
  (`OperationsEnd`); no user is obliged to send one.
- `FlashblocksIngest`: tokio runs ready tasks and timers fire.  Nothing is
  assumed of the node or of Python, so `StalledFeedIsReplaced` and
  `PermitsReturn` rest on the timeouts alone.
- `Submission`: httpx and the gateway's limits fire and a closed connection
  drops its handler.  The handler itself has no fairness: its RPC calls have
  no timeout.  `RequestsEnd` shows that the caller's limit is sufficient.
- `Deployment`: the script's calls and receipts have limits.
- `RouteSizing`: asyncio runs ready tasks, `wait_for` fires, and the provider
  limits the one request outside it, which reads the balances.  No quote has
  to be answered.
- `PackedBatchPlan`: asyncio runs ready tasks; RPC calls end.

## 5. What is proved

For every value of the constants that satisfies the named assumptions:

- `BaseArbExecutorProofs`.  `Inv` is inductive: locks agree with the control
  point, the running order is the committed one and the outermost boundary
  holds a state at rest with the same configuration, every candidate's
  boundary saves the balances of the transaction's start plus the loan, and an
  allowance exists only for the callee in progress.  None of the safety
  properties is inductive alone: that a failed candidate leaves nothing behind
  needs to know what its boundary saved, and that repayment is covered needs
  `activePreLoanBalance` to be the balance of the outermost boundary.  From
  it follow `TypeCorrectness`, `CleanBetweenTransactions`, `AtMostOnce`,
  `CandidatesAreIsolated`, `SelectedCandidateStands`, `LoanIsCovered` and
  `ConfigurationIsFrozen`.
- The same module, second half.  `Promise`, relative to `Inv`, adds what the
  validation established before the loan: a chain of allowed legs through
  tokens without balance.  It yields `PriorBalancesUnspent` and
  `Implementation`: the contract implements `AtomicArbitrage`, step by step.
- `LivePoolGraphProofs`.  `IndexIsExact` needs only that both maps are typed;
  `AffectedArePools` follows from it at every arrival of a trigger.
  `RingsAreEvaluatedOnce` is about the step that enumerates cycles.  By the
  exact index a search finds the pools of a token, so each cycle is a ring; in
  the other direction a ring of two or three hops is entered at a swap of an
  affected pool and is then in the form the nested loops produce.  Rings with
  the same swaps are one ring entered elsewhere, because no two swaps of a ring
  leave the same token, and deduplication keeps the entry with the least pool.
- `FlashblocksIngestProofs`.  `NoRepeats`, `LogsConserved` and `FlagsAreTrue`.
  The invariant says what the window is: the keys accepted last, as many as
  fit.  A key that is not in it was therefore not among the last `capacity`
  ones, and the key an insertion evicts cannot occur again in what remains,
  because two equal ones would be less than a window apart; each of the two
  facts needs the other.  The flags need that a socket being talked to is
  reported.
- `RouteSizingProofs`.  `RealQuotes`, `AffordableSizes`, `ConservedPermits`
  and `FreshAnswers`, for any markets.  The invariant describes each
  evaluation by its stage: the limit is a balance the first pool had in some
  pending state since the trigger, every size comes from a grid below it, and
  one non-decreasing order of those states explains all answers of a round so
  far - which the next hop extends by the present state.  Permits are counted
  over the tasks that hold some.  That a refined size stays below its limit is
  arithmetic about grids; that there is a best size is a lemma about finite
  sets of naturals.  `BestIfQuiet` needs an invariant about the past of an
  evaluation, `Still`: while nothing was lost and the state has stood still, every
  size of the grid is waiting, in flight, quoted or fails on the curves of
  now, and the quoted ones are walks along those curves.  It is relative to
  the state, so appending a state makes it vacuous and the other steps keep
  it.  That the recursive `TruePath` of the property is such a walk is shown
  by induction over the hops; the library's induction theorems take an
  operator, so the module proves its own over a set of naturals (`Induct`).
- `SubmissionProofs`.  `ReviewedBroadcast`, `StalePlansAreStopped`,
  `NoncesWithoutGap` and `LostToOverlapOnly`.  The invariant says of each
  request what the stages it has passed have checked, in three processes: past
  the simulation every switch is on and the order was fresh when it was posted,
  because what was executed stays executed and blocks only follow; what the
  gateway sends to Clef and passes on is within its limits.  Nonces need the
  invariant as a whole: every nonce the node was sent is mined or in its pool,
  so the pending nonce a request reads belongs to none that was sent before,
  and it carries that number unchanged through the payload, Clef and the
  verification.  Every nonce before it is mined or pooled when it is read; this
  stays true however long the request holds it, for a transaction leaves the
  pool only to be mined, so what is sent in the end leaves no gap.  That there is a pending nonce is a counting argument about the
  finite pool.
- `DeploymentProofs`.  `OnlyReviewedIsSent`, `OnlyDeployedAreAllowed` and
  `SuccessIsComplete`.  Everything planned before a run's next nonce has had
  its effect, and what has had its effect keeps it; whatever is signed, pooled
  or mined is the reviewed transaction of its nonce and comes after the
  creations it depends on.  The first part alone is not inductive: that a
  mined call of the executor takes effect needs the executor to exist, be
  paused and belong to the deployer, which only the second part gives.
- `PackedBatchPlanProofs`.  A menu is a prefix of the ordered group of the best
  eligible result, and no task moves after the gathering; hence `SharedLoan`,
  `SharedBlock`, `MostProfitableFirst` and `MenuPays`.
- `PackedWireProofs`.  `ReadsWhatWasEncoded`, `OneEncoding`,
  `RustWritesTheSame` and `RustAcceptsTheSame` are about the codec alone;
  `PlansAreReadBack`, `PlansAreCanonical` and `PlansAreAgreed` about the batches
  of plans.  Bytes and numbers are inverse to each other by induction over the
  bytes; a reader placed before a field that fits stands behind it afterwards,
  and so past a leg, a candidate and a batch.  The converse is an invariant of
  the reader over its reads, whatever the bytes: as long as no check failed,
  what was read is what the encoder writes for the fields so far, so bytes read
  to the end are the encoding of their fields.  The Rust validator, which keeps
  no values, is followed read by read: it stands at the reader's offset as long
  as the reader has failed no check, and is refused when it has.  The Rust
  encoder differs in its amounts: after each digit the bytes are the shortest
  that stand for the digits so far (the carries are what multiplying by the
  radix pushes beyond each byte), so a number that needs one byte too many
  anywhere on the way is one that does not fit, and padding gives Python's
  bytes.  The converse half, that a request Python accepts is accepted by Rust,
  reads the limits off the fields.  That plans are batches the
  encoder accepts follows from the invariant of the planner - the menu is an
  ordered piece of one group, so it repeats no cycle and shares a first token -
  and from `PackedWireAssumption`.

Assumptions: accounts, adapters and the pool have different addresses;
`Hash` is injective (keccak256 collisions are excluded); amounts are naturals;
the Aave pool itself is honest (it calls back once, with what was asked, and
collects the debt) and a callback with a foreign initiator is refused; tokens
move exactly what is transferred; pools have two different tokens; the limits a
gateway is configured with are naturals; in a deployment the model values for
"no address" and "no code" are neither the first nonce nor the name of a
contract; there are finitely many tokens, and "no token" is none of them; what
is planned fits the types of the contract, and cycles have legs as it takes
them (the encoder raises `ValueError` for anything else, and no plan is made);
an error is neither a number nor a sequence of bytes or fields.  The requests
of `RustWritesTheSame` have addresses, ids and block numbers of their width,
which the types of `packed.rs` and the length check of its hex strings ensure;
amounts, counts, the tokens of a leg and the length of its data are arbitrary.

Model-checked only: all liveness (`OperationsEnd`, `StalledFeedIsReplaced`,
`PermitsReturn`, `RequestsEnd`, `RunsEnd`, `TriggersEnd`, `EvaluationsEnd`),
which this prover cannot treat.  Every invariant and every action property of a
passing run is a theorem.

## 6. Where code and documents disagree

Five runs end in a counterexample on purpose; `PROJECT.json` quotes the lines.

1. `executor_revisit`: "zero pre-existing balance" is not asked of the route's
   own asset, and a later leg spends the whole balance.  The profit check still
   bounds the loss to nothing overall.
2. `sizing_inflight`: the semaphore that the README says bounds quotes is
   taken by the coroutine path only; batched cycles quote without it.
3. `submission_record`: a broadcast after Python gave up is not recorded.
4. `deployment_gas`: calls are estimated before the contract exists and run out
   of gas; the script then refuses to resume.
5. `batch_fallback`: "every candidate in the menu" is compared with the gas of
   the candidate that happened to succeed in the simulation.

Two smaller ones have no run.  The idle timeout of the ingest service does not
cover the handshake (`connect_async`), which may wait for ever.  And
`_refine_amounts` promises sizes "strictly between" the neighbours of the
best one, but integer division returns the lower neighbour itself when they
are closer than there are points; `_optimize_size` then quotes it again, which
is harmless.

## 7. Plan

Done, in this order: the contract and its abstract specification, its
invariant and refinement proofs, ingest, policy and submission, deployment,
registry, planning; then the sizing of loans, the codec composed with the
planner, and the proofs of sizing, ingest, deployment and submission; then
the proofs that rings are evaluated once, that the best size is chosen, that
plans survive the codec, and that its three implementations agree.

Next:

1. A composition of `FlashblocksIngest` with the planner: the ingest service
   frees a permit after 15 seconds while Python still works, so its limit does
   not bound concurrent evaluations.
2. The compatibility path of `route_trigger` (several posts per trigger) and a
   deployment for another owner, whose `transferOwnership` the policy refuses.

## 8. Not modelled

- `decode_packed_batch` and `select_batch_candidates`, which only tests call.
- Requests to `/pack-batch` whose strings are malformed, in hex where Python
  writes decimals, or padded with zeros.
- The calldata of quoters and routers in `adapters/`, `multicall.py` and the
  Solidity adapters, and the choice between versions of a quoter: what a venue
  quotes or delivers is arbitrary in the models.
- The pricing of `finalize` (gas, the fee for L1 data, conversion to native
  units): any cost.
- `discovery.py`: reads factories; its effect is `Register` at any moment.
- `/score`, `/submit`, `/execute` and their modules: stateless formulas kept
  from an earlier version.
- `db/`, `metrics.py`, the observation, benchmark and verification scripts:
  output.  Only the submission record is modelled, for a document promises it.
- The cleanup of a Clef connection (`wait_closed` in `clef_rpc`), which has no
  limit of its own: after Clef's reply, or a failure, the gateway's answer is
  taken to follow.
- `docker-compose.yml`, CI, tests: not part of the running system.
