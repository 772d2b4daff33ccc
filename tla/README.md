# LpMaker: specifications of the trading core

LpMaker keeps a liquidity position (Uniswap V3 on an EVM chain, or Meteora DLMM on
Solana) and hedges its base inventory with a short on Hyperliquid. One process runs the loop; what it must
not forget is in a state directory of JSON files, each replaced atomically. The
modules here specify the parts in which a crash, a late answer or an unlucky
interleaving costs money: who may hold an order or a nonce, what is known after
a restart, and what is never repeated. Paths are relative to the repository
(`src/...` is its crate, `docs/...` its documentation).

## 1. Components of the program

| Component | State | Operations | Hard parts | What makes it correct | Here |
|---|---|---|---|---|---|
| Hedge executor (`hyperliquid/{hedge,journal,order_recovery,mod}.rs`) | `pending.json`, `orders.json`, `order_archive/`, `hedge_order.json`; the exchange's orders | `sync_orders`, `hedge`, `cancel_if_open`, `reconcile`, `exchange_inner` | crash between any two writes; requests late or lost; `orderStatus` and `openOrders` lag differently; fills race cancels | never two live orders; never past the target; never resent; no false verdict | `HedgeOrders`, `SingleOrder` |
| EVM sender (`uniswap_v3/{tx,approval_recovery}.rs`, `evm/nonce.rs`) | `pending.json`, `evm_nonce.json`, `nfts.json`; chain and mempool | `send`, `wait_receipt`, `record_receipt`, `verify_inventory`, `NonceManager::{refresh,prepared,confirmed}`, the background nonce worker, `retry_approval` | two files for one fact; worker beside sender; lagging node; reorganisation; replacement against original | one operation per nonce; no unsettled transaction forgotten; `nfts.json` equals the wallet | `EvmTransactions` |
| State store (`store.rs`) | the files, process lock, event log, order archive | `read`, `write`, `update`, `begin`, `finish`, `archive_order`, `rotate_events`, `next_nonce` | atomic replacement of one file, none across files; capacity limits | nothing dropped before it is archived; monotonic nonce | in part, as files of both models |
| Supervision (`runtime.rs`, `main.rs`, systemd unit) | `runtime_health.json` | `retry_reads`, `observe`, `shutdown` | every error restarts `run_strategy` | a restart resumes from the files alone | as `Crash`/`Reset`/`Start` |
| Risk phases (`strategy/{mod,progress,indicators}.rs`) | phase, peak, `pause_since`, healthy hours, streaks | `evaluate`, `recheck_progress`, `freeze`, `observe_lp` | long histories of pauses, gaps, restarts | a halt is final; hours are consecutive and observed; an exit needs no waiting | `RiskPhases`, `LiveEngine` |
| Checkpoint (`recovery.rs`) | `checkpoint.json`, `lp_history.json`, `workflow.json` | `save`, `load`, `pause_incomplete_inventory`, `finish_workflow_recovery` | crash between evaluate, save and apply | no blind redeployment; no phase lost | `RiskPhases`, `LiveEngine` |
| Re-arm permit (`engine/entry_rearm.rs`) | `entry_rearm.json` | `request`, `arm`, `evaluate`, `consume` | one use across crashes | the waiver is used at most once | `LiveEngine` |
| Live engine (`engine/{mod,live}.rs`) | `workflow.json`, the LP layers | start-up order, `apply`, `scale_positions`, `preflight_entry`, `defer_entry` | several transactions per decision; failure in the middle | never unhedged for good; a half-done entry is unwound | `LiveEngine`, for the ETH profiles `EthRunner` |
| Reset and migration (`engine/{reset,migration}.rs`) | `manual_reset.json`, `strategy_migration.json`, the proof, the backups, the configuration file | `reset-flat`: exit, verify, archive, clear; `switch-*`: the same under the old parameters, then install the new ones | interruption at every step, repetition, the two commands mixed; orders that trade meanwhile | never cleared with inventory; nothing deleted that is not backed up; no strategy in between; resumable | `ManualReset` |
| RPC client and limiter (`evm/rpc.rs`, `evm/rpc/limit.rs`) | one permit, the next slot, cooldown and failures | `request`, `acquire`, `limited`, `succeeded` | callers that wait during a rate limit, or are dropped while they wait, send or nap | spacing kept; silence while limited; no lost permit; a broadcast sent once | `RpcGate` |
| Observation cache (`uniswap_v3/observations.rs`) | snapshots by block | read, refresh, `invalidate` | stale value after a send | no decision on a value from before a confirmed change | not modelled |
| Stream (`stream.rs`) | pending trigger | coalescing of events | lost wake-up | a change leads to a cycle | a cycle may begin at any time |
| ETH strategies (`strategy/eth/{mod,band}.rs`, with `engine/*`) | `eth_persistent` in `checkpoint.json`: basis, peak, episode, holding clock, re-entry deadline | `decide`, `managed_equity`, `defer_entry`, `BandEntryRisk` | observation gaps, restarts, entries withdrawn half-way, pauses the band did not begin | entries earned; minimum holding; losses never forgotten | `EthBand`, `EthRunner` |
| Paper engine (`engine/paper.rs`) | paper account | simulated fills | accounting | balances conserved | not modelled |
| Solana runner (`solana/*`, `adapters/solana`) | `solana_pending.json`, `solana_positions.json`, `solana_workflow.json`, `solana_checkpoint.json`; the adapter's plan | `journal::execute`, `reconcile`, `regime::evaluate`, `apply`, start-up | two processes; signatures whose fate is unknown; removals and mints of several transactions | one unresolved signature; records name the chain's positions; exposure is on record | `SolanaJournal`, `SolanaRegime`, `SolanaRunner` |
| Pool mathematics, fees, account parsing, signing, monitor, configuration, scripts | – | pure functions or I/O | wide integers, floats | – | not modelled (section 7) |

Interaction: `engine::run_strategy` starts every life the same way. A pending
record is reconciled first, the nonce is refreshed and must be available,
`nfts.json` must equal the wallet, the hedge book is swept, and only then the
loop decides; each decision becomes LP transactions (EVM sender) and one hedge
(hedge executor), bracketed by `sync_orders`. `pending.json` is shared by both
executors and admits one mutation at a time. The nonce worker is the only
concurrent task that writes the state directory.

## 2. Modules

| Module | Contents |
|---|---|
| `HedgeOrders` | the hedge executor, its four files, and the exchange as an external part |
| `SingleOrder` | what the executor promises: one settled order after the other |
| `HedgeInvariant` | the inductive invariant `IInv` of `HedgeOrders` |
| `HedgeOrdersProofs` | the proofs about the executor |
| `HedgeRefinement` | the proof that it implements `SingleOrder` |
| `MCHedgeOrders` | TLC instances: `Hedge`, `HedgeLeftover` |
| `EvmTransactions` | the EVM sender, nonce worker and operator's retry, with chain and node as external parts |
| `EvmInvariant` | the inductive invariant `IInv` of `EvmTransactions` |
| `EvmTransactionsProofs` | the proofs about the EVM sender |
| `MCEvmTransactions` | TLC instances: `EvmSafety`, `EvmLiveness` |
| `RiskPhases` | the strategy's decision as a function of its persisted state and one observation, and the corrections of `recovery.rs` |
| `LiveEngine` | start-up, cycle and LP workflow around `RiskPhases`, with the files that survive a restart |
| `EngineInvariant` | the inductive invariant `IInv` of `LiveEngine` |
| `EngineProofs` | the proofs about the live engine and its risk phases |
| `MCLiveEngine` | TLC instances: `Engine`, `EngineStaged` |
| `ManualReset` | the operator's exit (`reset-flat`) and the strategy switch, with the account and the strategy as they meet them |
| `ResetInvariant` | the inductive invariant `IInv` of `ManualReset` |
| `ResetProofs` | the proofs about reset and switch |
| `MCManualReset` | TLC instance: `ResetSwitch` |
| `SolanaRegime` | the trend strategy of the Solana runner, one more decision over the state of `RiskPhases` |
| `SolanaJournal` | signed transactions of the Solana runner and what the chain does with them |
| `SolanaRunner` | start-up, observation and LP workflow over `SolanaJournal`, with either decision function |
| `SolanaInvariant` | the inductive invariant `IInv` of `SolanaRunner` |
| `SolanaProofs` | the proofs about the Solana runner |
| `MCSolanaRunner` | TLC instances: `SolanaSafety`, `SolanaRecovery`, `SolanaWaiver` |
| `EthBand` | the two ETH strategies as functions of their persisted state and one observation |
| `EthRunner` | the live engine as the ETH profiles use it |
| `EthInvariant` | the inductive invariant `IInv` of `EthRunner` |
| `EthProofs` | the proofs about the ETH strategies |
| `MCEthRunner` | TLC instance: `EthBand` |
| `RpcGate` | the gate all clients of one EVM endpoint share, and the request that passes it |
| `RpcGateProofs` | the proofs about the gate |
| `MCRpcGate` | TLC instance: `RpcGate` |

Operators commented "Variant:" are plausible mistakes in the definition that
follows them; substituting one for the definition must break the property it is
listed with in `PROJECT.json`, which shows that the property depends on that code.

### HedgeOrders

* **Files.** `pending` is `pending.json` (kind, client ID, and `dispatch`, which
  separates "prepared" from "submitting"); `ledger` and `oid` are `orders.json`;
  `archived` is `order_archive/`; `pointer` is `hedge_order.json`. Each action
  writes at most one file, so that `Crash` may fall between any two writes. The
  exception is `Compact`, where archive files come before the ledger:
  `ArchiveInterrupted` is a crash in the middle, or an archive at its capacity, and
  leaves entries in both places; `archive_order` accepts the same content again.
* **Process.** `pc` names the next write or request. `Reset` is an error that
  leaves `run_strategy` or the death of the process; `Start` begins again with the
  files. `reconcile` is `ReconcileNothing .. ReconcileFails`, `sync_orders` is
  `SyncOrders .. Compact`, `cancel_if_open` is `CheckOpen .. CancelFails`,
  `exchange_inner` is `BeginOrder .. Finish`, and `hedge` is `HedgePlan .. Settle`.
  The five query rounds of `resolve` are one action: it answers (`Resolved`) with
  what the indexes show, or ends as `ReadUnavailable` (`NoAnswer`).
* **Exchange (external).** An order request arrives once, late, or never; `xstat`
  is the order's true state, `index` what `orderStatus` shows of it and `listed`
  what `openOrders` shows. Both views lag, separately, and only move forward. The
  account read is current: the code sizes its second order from it without any
  further check, so this is an assumption of the code.
* **Bounds.** `MaxShort` bounds targets and the initial position, `MaxFaults`
  crashes, losses and refusals; fills and lags are not bounded.
* **Abstracted.** Sizes are lots; price, notional minimum (kept as the choice
  `DustDeferred`), deadband and margin budget do not enter the properties. The
  exchange's twenty-eight terminal statuses are three. One account, one coin, no
  manual orders. Requests other than order and cancel are not modelled.

### EvmTransactions

* **Files.** `pending` holds the hash, nonce and kind of the unresolved operation
  and every hash signed for it (`replacements`); `reserved` is the floor and the
  reservation of `evm_nonce.json`; `nft` is `nfts.json` for one layer.
* **Process.** `send_inner` is `Send .. Broadcast`, `wait_receipt` is
  `Round .. Finish` (one action per RPC answer: receipt, depth, canonical block),
  `NonceManager::refresh` is `RefreshBegins` (the node's counts), `RefreshLoads`
  (the files) and `WorkerWrites`/`SenderWrites`. `job` is the refresh that holds
  `NonceManager::lock`; `Unlocked` is that mutex. `begin` and `prepared` are two
  actions (`BeginTx`, `Reserve`), as are the two writes of `confirmed`
  (`Confirm`, `Finish`). `Retry .. Replace` is the operator's `retry-approval`,
  which needs the state directory's lock and so runs only while the strategy is
  down. `Validated` is `validated_pending_hashes`: every signed transaction kept for the
  operation must decode to the nonce of `pending.json` and the call of the original,
  before any receipt is asked for.
* **Chain (external).** A sequence of blocks with at most one transaction of the
  wallet each, succeeding or reverting; `Reorg` replaces the last blocks, never as
  many as `Confirmations`; the mempool may drop a transaction, and another program
  of the wallet may send one. Transaction counts may lag by any amount.

### RiskPhases and LiveEngine

* **Strategy.** A record with the fields of `Strategy` that a later decision reads.
  `EvaluateInner` is `evaluate_inner`, in its order: entry history, validity, drawdown,
  candle history, market risk, revalidation, the new hour, the phase. It has two entry
  points. `EvaluateWithContinuity` is what the EVM engine calls: missing data freezes the
  phase, and only a healthy observation resumes or steps up. `Evaluate` is what the Solana
  runner calls: stale or invalid prices begin a pause anew and forget the hours counted,
  resumption and step rest on those hours alone, and nothing is revalidated. The market's numbers are one choice of *unsafe*, *uneasy* (a resume blocker)
  or *healthy*; outside streaks are the choice of the layers that broke out. Fractions
  are counted in steps of `recovery_fraction`; healthy hours stop at the number
  needed.
* **Files.** `checkpoint`, `lpHistory`, `workflow` and `permit` are `checkpoint.json`,
  `lp_history.json`, `workflow.json` and `entry_rearm.json`. Between two writes a
  `Crash` or a `ReadFails` may fall. `nfts.json` is the set of layers with a position,
  as `EvmTransactions!InventoryMatchesChain` allows.
* **Process.** `Load .. Ready` is the start-up of `run_strategy`, `Fetch .. Close` its
  cycle, `BeginApply .. ClearWorkflow` is `apply`. A transaction whose sender died is
  `flying` until `Reconcile` settles it either way, which is what the start-up of
  `EvmTransactions` guarantees. Hedges are part of the step they protect; a hedge or
  guard that fails ends the process, as any error in `apply` does.
* **Time** is counted in ticks, `HourTicks` to the hour; it may pass before every step that
  reads the clock. `Closed` is the last candle shown: in the first tick of an hour of
  `Late` it may be the one before, which `indicators.rs:57` tolerates for a minute. An
  hour once shown stays shown, which is an assumption about the exchange.
* **History variables** `opened`, `credit`, `run`, `seen` and `pausedAt` record what
  the properties speak of and influence nothing.
* **Abstracted.** Amounts of base and short are `flat` or not. A short too small for an
  order may stay after an exit, and be there at the start, so that an entry may be
  deferred with inventory left. The ETH band branch of `apply` is in `EthRunner`; the paper account is not modelled.

### ManualReset

* **Files.** `dir` maps the names of the files that are present to their contents;
  `reset` is `manual_reset.json` (binding and stage), `migration` is
  `strategy_migration.json`, `proof` the snapshot that was verified, `exitOrders` the
  orders the exit has cancelled. `pending` is `pending.json`. `archived` is a history
  variable: the files whose present content is in a complete backup; a write takes the
  file out of it. Backups are whole or nothing, as `copy_tree` into a temporary
  directory and a rename make them.
* **Programs.** `process.lock` admits one program at a time: `pc` and `cmd` are that
  program. `ResetFlat .. RemoveMarker` is the exit, with the stage written before each
  step (`Mark`): reconcile, cancel every order, remove every position, sell the base,
  close the hedge, verify with repeated observations, archive, delete one file after
  the other, the marker last. `Switch .. Unblock` plans the switch, runs the same exit
  (`SwitchExits`) and installs the new strategy by rename. `Stop` may fall before
  every step, any number of times, and stands for a kill as well as for an error.
* **Account (external).** Orders trade or not; of the strategy's own orders `openOrders`
  and `orderStatus` lag. The owner may place orders by hand at any time but during the
  verification: the code cannot prevent those, and its proof is a snapshot. An order
  placed by hand is assumed to be in `openOrders` at once: it is in no ledger, so the list
  is all by which the code can know of it, and one not listed yet could trade after the
  verification.
* **Strategy.** `Run .. StrategySyncs` is only what the commands meet: somebody who
  trades with the parameters of `config.json` and may die with a pending operation.
* **Abstracted.** Account, chain and pool are constant, so the binding is the strategy
  parameters; there is one hedge coin; base is none, dust or more than dust; an EVM
  operation that was sent settles either way at the next `Reconcile`.

### SolanaRegime, SolanaJournal and SolanaRunner

* **Files.** `pending` is `solana_pending.json`, `tracked` the layers named in
  `solana_positions.json`, `workflow` and `checkpoint` the files of that name,
  `hedgePending` the hedge's `pending.json`. Each action writes at most one of them.
* **Journal.** `BeginPlan .. Acknowledge` is `journal::execute`: the adapter plans, a
  draft is signed, the signature is written and only then sent; a poll settles it,
  `ApplyConfirmed` edits the records, `Acknowledge` releases the file and moves the
  adapter's plan on. Creating and closing a position take two transactions, everything
  else one. The chain (external) executes a transaction on the wire, fails it, or lets
  its blockhash expire; `answer` is what `status` says of the signature, and says
  nothing for an expired one, which the code refuses to take for a failure.
* **Runner.** `Start .. Ready` is `inner` up to the loop, `Observe` one observation,
  decision and checkpoint, `BeginApply .. ClearWorkflow` is `apply`. There is no retry:
  `Stop` is a kill and every failed read or `ensure!`. `trend` says whether the
  configuration has a `[regime]`: `SolanaRegime` decides then, otherwise `Evaluate` of
  `RiskPhases`, without continuity (`runner.rs:498`, `strategy/mod.rs:78`).
* **Abstracted.** Amounts are "liquidity n", "base worth selling" and "base nobody
  hedged"; rent, fees and simulation are reasons to stop. Hedges settle or fail as
  `HedgeOrders` allows.

### EthBand and EthRunner

* **Strategy.** The fields of `Strategy` and of `eth_persistent` that a later decision
  reads. `band` selects `band.rs` or `mod.rs`; equity is a number of the account, of
  which the environment chooses; drawdowns are in quarters of a percent so that the
  code's thresholds stay comparisons of integers. The last candle is the one of the
  current hour: that `latest_feature` (`eth/mod.rs:169`) bears one that is an hour and a
  minute old, so that a decision in the first minute may rest on the hour before, is not
  modelled here as it is in `LiveEngine`.
* **Engine.** As `LiveEngine`, with one position: `Load .. FinishRecovery` the start-up,
  `Assess`, `Save`, `Close` the cycle with `defer_entry`, `BeginApply .. ClearWorkflow`
  the workflow. `WithdrawEntry` is `BandEntryRisk`: the market is looked at again between
  the transactions of an entry, and a danger turns the workflow into an exit.
* **History.** `leftAt` is the exit the next entry has to wait for: the decision of the
  last exit, or the moment an Active strategy lost its position without one (a roll that
  did not come to its mint, an entry that was withdrawn). A later unwinding moves the
  strategy's own deadline only on, never `leftAt`. `best` and `high` are the equities
  the code acted upon, whatever it remembers of them.

### RpcGate

* **Gate.** `permit` and `queue` are tokio's fair semaphore; `interval` (its `spacing`),
  `wait` (until its `next`), `cooldown`, `failures` and `healthy` are the `State` of
  `limit.rs`. `Join` is another client of the endpoint, whose interval raises the common
  one (`Gate::shared`), also while callers wait. Instants are timers that run down,
  so that the behaviour needs no end; only the counter of failures is bounded.
* **Calls.** A caller begins, queues, waits for its slot, is in flight, naps, and returns;
  each of `acquire`'s three looks at the cooldown is a step of its own. `Cancel` may fall
  wherever it waits and stands for a dropped future. An attempt has one budget, queueing
  included; a broadcast has one attempt.
* **History variables** `sent`, `quiet`, `owed`, `sinceSent` and `proven` record the
  requests sent, the provider's wait, the interval in force at the last dispatch, the time
  since, and the time since the first answer no rate limit followed.

## 3. Properties and runs

| Run | Configuration | Question |
|---|---|---|
| `hedge` | 2 client IDs, 1 lot, 1 terminal order kept, 1 fault, fairness | the hedge executor: safety, `IInv`, `ImplementsSingleOrder` and `RecoversOrBlocks`, from an empty and from a legacy state directory |
| `hedge_leftover` | 1 client ID, 1 lot, 1 fault, fairness | `LeftoverOrderCancelled`, a sentence of the documentation, fails (section 5) |
| `evm_safety` | 3 hashes, 4 blocks, 1 confirmation, 2 hashes before a retry stops, 2 faults | the safety properties of the EVM sender |
| `evm_liveness` | 2 hashes, 3 blocks, 1 fault, fairness | `ConfirmedIsReleased` |
| `engine` | 2 layers, 3 hours of 1 tick, the last candle late, 2 healthy hours and 2 ticks of cooldown, 1 crash, 1 read failure, fairness | the engine: safety and `WorkflowEnds` |
| `engine_staged` | 1 layer | a sentence of the documentation that the code does not keep (section 5) |
| `reset_switch` | 1 position, 1 order, 2 lots, the old parameters and one profile; stops, edits and repetitions unbounded | the safety properties of reset and switch |
| `solana_safety` | 2 layers, 5 hours, 2 calm hours and 2 hours of cooldown, 1 fault | the safety properties of the Solana runner |
| `solana_recovery` | 2 layers, 2 hours, 1 fault, fairness | `InterruptedExits` |
| `solana_waiver` | 2 layers, 1 calm hour, 1 fault | a sentence of the documentation that the code does not keep (section 5) |
| `eth_band` | both ETH profiles, 3 values of equity, 4 ticks, 2 faults | the ETH strategies and their runner |
| `rpc_gate` | 2 callers, intervals 1 and 2, budget 3, backoff 2 to 4, a provider that asks for 0 or 5, fairness | the gate |

Every module has an invariant that is a conjunction (`IInv`, `FilesAgree`, `Consistent`):
its type invariant and those parts that say files, memory and the outside agree. The
parts keep their names and comments in the module.

Hedge executor:

* `AtMostOneLiveOrder`: no two orders that can trade, counting requests still on
  the wire.
* `VerdictIsTrue`: a terminal or archived entry is over at the exchange,
  `not_submitted` was never sent.
* `NeverPastTarget`: the live order, filled to the end, reaches its target and no
  further, also when an earlier fill came late.
* `IInv` implies two more, by the theorems of section 6: `OwnOrdersRecognised`, the
  list check never takes an own order for a stranger's, and
  `NothingOutstandingWhenIdle`, while the strategy decides nothing is pending or live.
* `NeverResubmitted`, `PendingReleasedWhenKnown`: action properties of the wire and
  of `pending.json`.
* `RecoversOrBlocks`: a restart leads to the strategy loop, or the pending request
  is one that reads cannot decide (an order that never arrived, a cancel without
  effect): there the code stops on purpose.
* `ImplementsSingleOrder`: with `fate` computed from the files and the exchange,
  every behaviour is one of `SingleOrder`.

EVM sender:

* `OneOperationPerNonce`, `UnsettledIsRecorded`; `FilesAgree`, which holds
  `InventoryMatchesChain` and `ReservationHasOperation`; the action property
  `ReleasedWhenConfirmed`, and under fairness `ConfirmedIsReleased`.

Live engine:

* `HaltIsFinal`, `HaltedNeverEnters` (in `Consistent`): a saved halt survives every restart and
  unwinding, and nothing is bought under it.
* `PauseServed` (`ResumeEarned` and `CooldownKept`): a pause ends in Recovering only when each of the
  last hours was looked at and found healthy and the cooldown has passed since the
  pause began, through restarts, freezes, revalidations, gaps, late candles and deferred
  entries. A deferral that leaves inventory sets no new beginning of the pause
  (`engine/mod.rs:411`); nothing but a first entry can be refused there outside a pause,
  and of an account that never entered no cooldown is asked.
* `WaiverUsedOnce` (in `Consistent`): one grant, at most one entry that skips the waiting.
* `EntryHistoryTrue`: the first-entry rule never applies to an account that has
  entered, also when the mint was settled by a later life.
* `ActiveMeansDeployed`, and `DecidesSettled` in `Consistent`: no interrupted workflow is taken for a
  finished one; the strategy decides only after it has been unwound.
* `WorkflowEnds` (liveness).

Reset and switch:

* `VerifiedMeansFlat`: a marker that says `verified_flat` is right about positions,
  base, hedge and orders, though orders appear and trade during the whole exit. It rests
  on hand-placed orders being listed at once (section 2).
* `ClearedIsArchived`: a file is deleted only when its last content is in a complete
  backup, however often the exit is begun again.
* `NoHalfClearedStart`, `NoStartWhileSwitching` (both in `Consistent`): no strategy runs in a directory that
  is being cleared, or between the recording of a switch and its installation.
* `OwnParameters` (`StrategyOwnsInventory` and `ExitUsesOwnParameters`): inventory is managed and unwound
  with the parameters it was bought with, through edits of the configuration file,
  switches, resets and resumptions after `config.json` is gone.
* `AlwaysResumable`: no interruption leaves a directory that every command refuses. With
  both markers present it is `reset-flat` that is asked for.

Solana runner:

* `OneUnresolvedSignature`: what may still execute is the transaction whose signature is
  on disk; nothing is signed beside it.
* `RecordsMatchChain`, `ActiveMeansComplete` (in `Consistent`): with nothing unresolved
  the records name the positions of the chain, and a strategy that decides as active
  has all its layers.
* `RiskIsRecorded`: base nobody hedged and an incomplete set of positions never exist
  without `solana_workflow.json`.
* `EntryRestsOnCalmHours`: the hours an entry counts were consecutive, observed and good,
  with no danger, stale price or restart among them, for every entry with a `[regime]` and
  for every entry but the first without.
* `EstablishedWaits`: a strategy that knows of an earlier entry waits for the cooldown
  after its last exit or recovery; without a `[regime]` after the last stale price, too.
* `SignsWithinRisk`: liquidity is added only under a full hedge, and a halt only exits.
* `InterruptedExits` (liveness): what an interrupted workflow left is sold, unless the
  signature on disk can no longer be settled. The runner ends with its first error, and
  nothing in the repository starts it again (`docs/solana.md:95` uses `nohup`), so this is
  claimed of executions in which it is started whenever it has ended (`StartedAgain`).

ETH strategies:

* `EntryEarned`: cooldown and healthy hours before every entry but the first, through
  restarts, deferred and withdrawn entries and failed rolls.
* `EpisodeLossBounded`, `LossAnchored`, `HaltIsFinal`: neither gap nor restart nor
  re-entry forgets the peak of the episode or of the account.
* `ActiveMeansDeployed`, `HeldLongEnough` (in `Consistent`): the phase is true, and a roll
  respects the minimum holding.

RPC gate:

* `EndpointSpared` (`SilentWhileLimited` and `Spaced`): nothing is sent before the
  provider's wait and the backoff are over, nor closer to the last request than the
  interval that was in force when it was sent, by anyone.
* `PermitInUse`, `BroadcastOnce` (in `Consistent`): no permit is lost to a caller that was
  dropped, no broadcast is repeated.
* `BackoffSettles`: the backoff starts anew only when a request was answered a whole
  minute ago and none has met a limit since; the first probe after a long backoff is not
  enough.
* `CallEnds` (liveness): every call returns.

Why the bounds suffice. Two client IDs are an order and its successor, the pair
every order property speaks of; with `KeepTerminal = 1` the second terminal entry
forces a compaction, and the two-stage hedge (post-only, then IOC) uses both. One lot
is filled or not, before or after the cancel; the theorems of section 6 cover partial
fills, for they hold for every `MaxShort` and every number of faults. One fault is one
crash, loss or refusal at any point; for the EVM sender two allow a crash in the
recovery of the first. Three hashes are an
operation, its replacement and the next operation, or three operations in a row;
four blocks with one confirmation leave room for the foreign transaction, both
operations and the confirmation. Client IDs and hashes are only compared for equality;
symmetry is used in safety runs only.
For the engine, three ticks of one hour hold a position that the market closes, the
pause, two healthy hours, the resumption and its first step towards the whole budget (a
fourth tick would reach it), with the crash and the failed read anywhere inside, also in
the recovery from the other; the time starts at one hour, so a position, a pause of an
earlier release and an hour nobody observed fit before the resumption. A grace of one
tick separates "soon enough" from "an hour was missed"; a delay that is too late within
the hour is not told from either. Two layers make half-done workflows; the operator may
arm the waiver again and again. The last hour's candle may be late, so that it is decided
on the hour before when the others have been counted.
For the reset, stops, edits and repetitions are not bounded, so one position and one
order meet every interruption of their own exit, also after they were seen to be gone;
two lots leave a partial IOC fill; two parameter sets are enough for the file, the
records and the switch to disagree.
For the Solana runner two layers make incomplete sets, six ticks of one hour hold an
entry after two calm hours, an exit, the cooldown and the next entry; the fault may be
a stop, a failed transaction or an expired one anywhere in between. For the ETH
strategies the three equities are no loss, a loss beyond the episode's limit and one at
the account's; four ticks hold an entry, the minimum holding and a move of the
range, and an exit with its pause and the next entry; the second fault meets an
unwinding that the first one caused.
For the gate, two callers are one that meets the limit and one that waits behind it;
the provider's wait of 5 is longer than the longest backoff, as the code allows; of two
intervals, the second is that of a client that joins while the others wait.

## 4. Fairness

`HedgeOrders!Fairness` is weak fairness of three things, each enabled without a break
until it happens: the process is restarted and scheduled (`Restart=on-failure`
in the service, `retry_reads` inside); a request that is not lost arrives; the
query indexes catch up. Nothing obliges an order to trade, the operator to act or
faults to occur. `EvmTransactions!FairSpec`: strong fairness of the process, since
tokio's mutex is first come, first served and the worker's ticks cannot starve the
sender, and weak fairness of a refresh that has begun. Neither the chain nor the
mempool is fair. `LiveEngine!FairSpec`: the process is restarted and scheduled;
crashes and read failures are bounded, the market owes nothing. `SolanaRunner!FairSpec`:
a runner that is up goes on, and the chain decides about every transaction on the wire, by
its blockhash at the latest; stops are bounded. `Start` has no fairness: no service of the
repository runs this program, and `InterruptedExits` names the operator's part as its
premise. `RpcGate!FairSpec`: time
passes, and each caller is scheduled; neither the provider nor the callers owe anything.
Deadlock is checked in every run.

## 5. Findings

`docs/recovery.md:36` says that start-up cancels leftover orders that are provably
the strategy's. `hedge_leftover` shows an execution in which it does not: the
process dies after `exchange_inner` marked a *cancel* as "submitting" and before the
POST (or the POST is lost). On every restart `reconcile` requires an empty
`openOrders` before it clears the pending cancel (`hedge.rs:292`), which fails while
the order rests; `sync_orders`, which would cancel it, is never reached. The order
stays until it trades or an operator acts. `reset-flat` reconciles first as well
(`reset.rs:355`), so repeating it does not get past such a cancel either, although
`reset.rs:2` says that it goes on from the real balances.

`README.md:79` says that recovery restores 25% of the LP and adds 25% per healthy
period. `engine_staged`: `Recenter` is also decided in the Recovering phase, and
`apply` re-mints a recentered layer with fraction 1.0 (`live.rs:358`).

`docs/solana.md:52` says that only the first entry of the Solana strategy is free of the
cooldown. `solana_waiver`: the mark of the first entry is set in memory at start-up
(`solana/runner.rs:403`) and saved only after a leftover workflow has been unwound
(`:435`). A life that ends after the first mint, and a second that ends after it removed
the positions, leave nothing by which the third could know of that entry. The EVM engine
keeps `lp_history.json` for this case (`recovery.rs:62`); the Solana runner has no such
file.

Observations met while modelling, of less weight and without a run:

* A paused, flat strategy repeats its exit in every cycle, and `apply` writes
  `workflow.json` before it reads (`live.rs:278`): a read that fails there is answered
  like an interrupted trade, and cooldown and healthy hours start again, although
  `docs/recovery.md:60` says that unavailable data alone does not reset `pause_since`.
* Candles are fetched with one `now` and judged with a later one (`engine/mod.rs:247`,
  `:278`): when the hour ends in between, the running candle counts as completed, with
  provisional prices. `README.md:79` counts newly completed hours.
* `defer_entry` restores the previous `eth_persistent` as a whole (`engine/mod.rs:403`),
  with the basis of equity (`band.rs:110`: the first observed basis is kept) and the time
  of the last observation: a strategy that waits for collateral takes its basis from the
  last deferred observation, and looks like one with a gap once it has waited longer than
  the permitted age of data, which forfeits its healthy hours.
* `BandEntryRisk` at the very first entry leaves the history at Initial: the normal
  cooldown `live.rs:33` speaks of is skipped.
* An ETH pause that was saved, but whose exit never began because a read failed before
  `workflow.json`, is dropped when the danger has passed.
* Solana: an exit with nothing left returns before it clears `solana_workflow.json`
  (`runner.rs:162`), so every later start counts as a recovery and restarts the pause.
  Candles are cached for an hour of the loop's clock (`:450`): a fetch that came too early
  to hold the last closed hour is taken for missing data, which is an exit.

## 6. Proofs

The proofs hold for every value of the constants, so for any number of orders, hashes,
blocks, layers, callers, crashes and lost requests. Each safety proof has one shape: an
inductive invariant `IInv`, in a module of its own next to the specification and checked
by TLC on the instance of the component's run; a lemma per action and conjunct; and the
properties as its consequences.

| Module | Theorem | Property |
|---|---|---|
| `HedgeOrdersProofs` | `InductiveInvariant` | `IInv` |
| | `TypeCorrect` | `TypeOK` |
| | `OneOrderAtATime` | `AtMostOneLiveOrder` |
| | `VerdictsAreTrue` | `VerdictIsTrue` |
| | `NoDoubleHedge` | `NeverPastTarget` |
| | `OwnOrdersAreRecognised` | `OwnOrdersRecognised` |
| | `IdleIsQuiet` | `NothingOutstandingWhenIdle` |
| | `NoReplay` | `NeverResubmitted` |
| | `ReleasedOnlyWhenKnown` | `PendingReleasedWhenKnown` |
| `HedgeRefinement` | `ExecutorImplementsSingleOrder` | `ImplementsSingleOrder` |
| `EvmTransactionsProofs` | `EvmInductiveInvariant` | `IInv` |
| | `FilesAlwaysAgree` | `FilesAgree` |
| | `NoncesNeverShared` | `OneOperationPerNonce` |
| | `UnsettledAlwaysRecorded` | `UnsettledIsRecorded` |
| | `ReleaseNeedsConfirmation` | `ReleasedWhenConfirmed` |
| `ResetProofs` | `ResetInductiveInvariant` | `IInv` |
| | `StartsAlwaysClean` | `Consistent` |
| | `VerifiedTellsTruth` | `VerifiedMeansFlat` |
| | `InventoryKeepsItsParameters` | `OwnParameters` |
| | `InterruptionIsResumable` | `AlwaysResumable` |
| | `NothingClearedUnarchived` | `ClearedIsArchived` |
| `SolanaProofs` | `SolanaInductiveInvariant` | `IInv` |
| | `RecordsAlwaysMatch` | `Consistent` |
| | `SignatureOnDisk` | `OneUnresolvedSignature` |
| | `RiskAlwaysRecorded` | `RiskIsRecorded` |
| | `NothingSignedBeyondRisk` | `SignsWithinRisk` |
| `EngineProofs` | `EngineInductiveInvariant` | `IInv` |
| | `EngineConsistent` | `Consistent` |
| | `EntryHistoryIsTrue` | `EntryHistoryTrue` |
| | `ActiveStrategyIsDeployed` | `ActiveMeansDeployed` |
| | `SavedHaltIsFinal` | `HaltIsFinal` |
| | `EveryPauseIsServed` | `PauseServed` |
| `EthProofs` | `EthInductiveInvariant` | `IInv` |
| | `EthConsistent` | `Consistent` |
| | `EveryEntryIsEarned` | `EntryEarned` |
| | `EpisodeLossIsBounded` | `EpisodeLossBounded` |
| | `LossIsAnchored` | `LossAnchored` |
| | `EthHaltIsFinal` | `HaltIsFinal` |
| `RpcGateProofs` | `GateInvariant`, `CallInvariant` | `GateInv`, `CallInv` |
| | `PermitNeverLost` | `PermitInUse` |
| | `GateConsistent` | `Consistent` |
| | `EndpointIsSpared` | `EndpointSpared` |
| | `BackoffAlwaysSettles` | `BackoffSettles` |

Assumed are the named assumptions of the modules, which TLC evaluates on every run:

* the client IDs and hashes are finitely many, bounds are numbers, thresholds are positive
  where the policy file requires it;
* `Null`, which stands for an absent file or value, is none of the values that can be
  there (each `NullAssumption`, and `RecordsAssumption` of `ManualReset`);
* the profiles of a switch are strategies (`ProfilesAssumption`); the thresholds of
  `PhaseAssumption` and `BandAssumption` (among them a drawdown limit of at most 100%,
  `config.rs:344`) and the times of `GateAssumption` are what the configuration checks
  require, as is that there is a layer (`LayersAssumption`, `config.rs:390`);
* an account whose equity is nothing is not observed (`EquitiesAssumption`).

**Hedge executor.** None of its properties is inductive: whether an order can trade is
the exchange's secret, and the executor acts on what its files say. The link is the
notion of a *suspect* client ID (`HedgeInvariant`): its ledger entry is unresolved,
or `pending.json` holds its order and the entry is not written yet, or it is the
hedge order of an earlier release that `sync_orders` has not imported. `IInv` says
that at most one ID is suspect (`OneSuspect`), that everything that can trade is
(`LiveInv`), and that a suspect order leads exactly to its target (`SizeInv`). Two
lemmas carry the step: `NoNewSuspects` (only `begin` makes an ID suspect, and it is
reached with none) and `LiveStaysSuspect` (an order that can trade is never taken
off the list). The other conjuncts are what those two need: what the files prove
about the wire (`LedgerInv`, `PendingInv`), that the indexes show only the past
(`IndexInv`), and what each step of the process may rely on (`StepInv`,
`MemoryInv`, `SendInv`, `ReconcileInv`). `ShownInv` is what the refinement adds.

**The executor implements `SingleOrder`.** The refinement mapping computes the fate of an
order from the exchange and, while the exchange shows nothing, from the files. `FateKept`
says when it cannot have changed. Five kinds of steps change it, and each is a step of
`SingleOrder`: `begin` issues, an arrival places, a trade fills, a cancel ends, and the
verdict "not submitted" drops. All others, crashes, half-done compactions and the
repetition of a query among them, are stutters; the obligation for a restart is that it
changes no fate although the memory is gone.

**EVM sender.** Two files state one fact, and the node's counts may be old. `FloorInv`
says that a nonce at or above the floor of `evm_nonce.json` was never used and that every
nonce below it belongs to the past or to `pending.json`; `JobInv` that the refresh that
holds the lock has loaded no less than the files say now, which is why a write from an
older count cannot take the floor back; `StepInv` what each step knows of the two files,
between their writes in particular. `ReceiptInv` carries a receipt through the three
queries of `wait_receipt`: it is of the block it names, unless that block was replaced
since, which `ChainInv` allows only near the head. `InventoryInv` orders the writes of
`nfts.json` and of the release, and is what `FilesAgree` rests on.

**Reset and switch.** A run may end between any two steps, so `IInv` speaks of the
directory rather than of the program: `MarkerInv` says which markers exist at which step,
and that without the reset marker nothing but the other marker is covered by a backup, so
that a directory without it is whole or empty. `BindingInv` says that all records that
name parameters agree, and that inventory on the account implies `config.json` with the
parameters of the last trade; that is why an exit that finds it missing is flat already.
`OrderInv` says that an order that may trade is in the list the exchange shows, in the
ledger, or in `pending.json`: the three things the verification looks at. `ObservedInv`
says what each half of the two observations has established: after the first, the orders
it found absent stay absent, so that what the second reads of the position is final.

**Solana runner.** `SignatureInv` says that nothing but the signature on disk is on the
wire, and what `status` may have said of it; `RecordInv` that `solana_positions.json`
lags the chain by the one confirmation that is not applied yet; `PlanInv` at which of
its two transactions a plan is; `ProgressInv` what `apply` has still to do for each
layer and that an exposed account is on record until it has done it. The decision enters
through one lemma, `JudgeSound`, which covers both decision functions, the regime's and
the evaluation without continuity: a strategy that is in the market holds every layer or
is about to mint the rest, and a halted one stays halted and neither deploys nor
recenters.

**Live engine.** What was true when a life ended must be true when the next one decides,
with only the files and the chain in between. `LayersInv` says that the layers are all
there or all gone unless `workflow.json` is not null, and that memory in the market has
them all: `SaveReconciled` and the unwinding establish it, `ActiveMeansDeployed` is its
reading at a decision. `DecisionInv` follows one decision through `apply`: what each step
has still to remove or to mint, and that only a decision that buys reaches the steps that
buy. `HistoryInv` names where the fact that a position was opened survives: in
`lp_history.json`, in the checkpoint, or on the chain, where the next start finds it;
each step that removes the last position has it in a file before. `PauseInv` ties the
count of healthy hours to the hours that were found healthy (`Counted`): the last
`healthy` hours up to `hour` are among them, which a gap, an alarm, a restart or a
revalidation can only shorten. `FirstInv` is about deferred entries: a pause that has no
beginning of its own belongs to an account that never entered (`NeverEntered`), and of it
no cooldown is asked. The decision enters through lemmas about `RiskPhases`
alone: `EvaluateSound` (what may be decided in which phase, and what ends a pause),
`EvaluateHours` (which hour is counted, and how far), and `AssessSound`, which adds the
permit and the deferred entry.

**ETH strategies.** Basis, peak and episode are numbers of the strategy; the properties
speak of the equities it acted upon. `EquityInv` joins the two: once there is a basis, the
peak is no lower than the highest equity saved, measured from that basis, and the
episode's peak no lower than the highest since the decision to open the position. It also
says that the episode's peak never exceeds the account's: the code takes the episode's
loss as a share of the former, the property as a share of the latter. `DeadlineInv` says what a pause still waits for (`WaitsUntil`:
the deadline the strategy adopted, or the cooldown from a pause of `recovery.rs` it has
yet to adopt) and that this is never before the exit's own wait is over. It holds for a
decided exit before it is saved, too, for a death in between must leave the older, still
sufficient deadline. `CountedInv` is `Counted` of the live engine, for hours that
were found healthy; `HoldingInv` says that the holding clock starts no earlier than the
position, `HistoryInv` where it is known that there was one, and `PositionInv` what
`apply` has still to do. The decision is proved
about in the order in which `evaluate` works: what the measuring steps (pause adopted,
gap noticed, hour counted, episode marked) keep and add, then each way it can end (wait,
enter, hold, roll, leave, blind), for both profiles.

**RPC gate.** The properties are about dispatches; the guard of a dispatch looks only at
the code's own `cooldown` and `wait`. `GateInv` ties these to the provider: a hint that
still runs is covered by the cooldown; nobody is in flight while one runs, so a success
that clears the cooldown forgets none; nobody waits for its slot while a cooldown runs,
since only a holder of the permit meets a limit and there is one permit. The last also
says that the third look at the cooldown in `acquire`, after the wait for the slot, never
refuses. `SlotInv` is the spacing: what is left of the wait and what has passed since the
last dispatch make up at least the interval it owed, whoever joins. `CallInv` adds who stands in the semaphore's queue (`QueueInv`), that a broadcast
has one attempt and has sent nothing before it (`AttemptInv`), and that the success the
settled minute is counted from is no older than the first answer no limit followed
(`SettleInv`).

TLC found no violation of these invariants on the instances of the runs: 697,784 states
for `HedgeOrders`, 1,283,125 for `LiveEngine`, 1,358,984 for `SolanaRunner`, 3,436,408 for `ManualReset`, 119,147 for
`RpcGate`, and for `EthRunner` 1,004,680 with two faults and 204,132 with a decision bar
longer than the cooldown.

Only model-checked are:

* liveness (`RecoversOrBlocks`, `ConfirmedIsReleased`, `WorkflowEnds`,
  `InterruptedExits`, `CallEnds`): fairness and `ENABLED` are out of this prover's reach;
* `EntryRestsOnCalmHours` and `EstablishedWaits` of the Solana runner, which speak of the
  hours that were observed and so of the whole decision function.

## 7. Not modelled

Pool mathematics, slippage, dust, fees and performance are arithmetic on 256-bit
integers or floats; their control is nil. Signing, authentication, JSON parsing and
the web-socket are I/O. The monitor only reads. The Solana adapter is JavaScript
around the chain's SDK: its plan and index are in `SolanaJournal`, its amounts are not.
The research tools are offline. The observation cache is keyed by block, and the models
read the chain of the moment. `stream.rs` only decides when a cycle begins, which is free
in the models. The paper engine is arithmetic. Of `store.rs`, the rotation of the event
log spares writes no decision reads. Of the live
engine, amounts, slippage and gas are left out, of the ETH strategies the schedule of the
target short, of the Solana runner `bind`, `monitor` and paper mode. Configuration checks
appear as constants and their assumptions.

## 8. Plan

What would add most from here:

1. The amounts of `apply` (base in wallet and layers, short), composed with `SingleOrder`
   for the hedge and an abstract EVM operation for the transactions.
2. The observation cache with single-flight refresh and invalidation after a send.
3. The store's capacity limits and nonce file.
4. Proofs: `EntryRestsOnCalmHours` and `EstablishedWaits` of `SolanaRunner`, along `Counted` of
   `EngineInvariant`.
