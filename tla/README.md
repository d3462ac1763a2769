# A TLA+ model of alethia-reth

alethia-reth is the Taiko L2 execution client built on Reth. This directory
holds TLA+ modules for its parts, TLC configurations that check them on small
instances, and TLAPS proofs of what matters most for every instance. Paths below
are relative to `src/crates/`.

## 1. The system

| part | state | operations | module |
|---|---|---|---|
| zk gas meter (`evm/src/zk_gas/meter.rs`) | committed, in-flight and remaining zk gas | charge, commit, reset | `ZkGasMeter` |
| EVM handler and instrumentation (`evm/src/`) | journal, anchor context, step snapshot | deduct, run, refund, reward; charge per opcode and precompile | `TaikoEvm` |
| block executor (`block/src/executor.rs`) | gas used, receipts, exhaustion flag, published difficulty | execute, commit, decline, reserve, clear, finish | `TaikoBlockExecutor` |
| block drivers (`payload/src/builder/`, `block/src/derived_block.rs`, `rpc/src/debug.rs`, import) | position in a list, sealed block | skip, call, stop, seal, validate | `BlockPipeline` |
| transaction selection (`block/src/tx_selection/`) | lists, overflow memory, DA ratio | try, pack, open a list, remember an overflow | `TxSelection` |
| proof-history sidecar (`node/src/proof_history/`) | receiver, readiness flag, write lock, store, marker | start, reconcile, handle, sync, prune, recover, copy, wipe, backfill | `ProofHistorySidecar`, `ProofStore` |
| proof readers (`rpc/src/proof_state.rs`) | none | cover, fall back, refuse | `ProofReader` |
| requests on the blocking pool (`rpc/src/trace.rs`, `debug.rs`, `eth/proofs.rs`) | permits, deadline, cancellation | admit, replay, recheck, answer | `TraceRequest` |
| block tracer (`rpc/src/debank.rs`, `geth_error.rs`) | trace arena, error sidecar, events | frame, opcode, log; format | `CallTrace` |
| engine API, L1-origin tables, taikoAuth (`rpc/src/engine/api.rs`, `rpc/src/eth/auth/`, `db/src/model.rs`) | origin rows, head pointer, batch map | fork-choice update, setters, lookup | `L1Origin` |
| header: sealing, engine types, validator, consensus (`block/src/assembler.rs`, `config.rs`, `rpc/src/engine/validator.rs`, `consensus/src/`) | none | seal, send, rebuild, validate, base fee | `BlockHeader` |
| state root and storage diff (`rpc/src/engine/state_root.rs`, `rpc/src/debank.rs`) | persisted hashed state, a consumer's copy | choose a root, encode, decode, apply | `StateCommitment` |
| import of a growing chain | head, sealed block | build, send, check, trace, persist | `BlockImport` |
| chain spec tables, CLI, node wiring | constants | | not modelled |

What makes these hard: four drivers with four sets of skip and stop rules must
agree on one block; a commit that cannot fail rests on checks made several steps
before; the sidecar has three writers, a lossy notification channel, a chain that
moves under every read, and a store that survives crashes between any two
commits; requests outlive their clients; two overlapping engine calls share
tables; a header crosses an API that has no field for half of it. `PROJECT.json`
lists each such hazard at its line.

## 2. Modules

| module | EXTENDS |
|---|---|
| `ZkGasMeter` | |
| `TaikoBlockExecutor`, `TaikoEvm` | `ZkGasMeter` |
| `BlockPipeline`, `TxSelection` | `TaikoBlockExecutor` |
| `BlockTree` | |
| `ProofWindow` (abstract), `ProofStore` | `BlockTree` |
| `ProofHistorySidecar` | `ProofStore` |
| `ProofReader` | `ProofHistorySidecar`, and an instance of `ProofWindow` |
| `L1Origin`, `TraceRequest`, `CallTrace`, `StateCommitment`, `BlockHeader` | |
| `BlockImport` | `StateCommitment`, `BlockHeader` |
| `BlockPipeline_proofs` | `BlockPipeline`, `TaikoBlockExecutor_proofs` |
| `TxSelection_proofs` | `TxSelection`, `TaikoBlockExecutor_proofs` |
| `TxLists_proofs` | `TxSelection_proofs` |
| `RpcHandlers_proofs` | `L1Origin`, `TraceRequest` |
| `ProofReader_proofs` | `ProofReader`, `ProofHistorySidecar_proofs` |
| other `*_proofs` | the module they name |
| `MC*` | the instance TLC runs |

### ZkGasMeter, TaikoBlockExecutor

`meter`, `exhausted`, `gasUsed`, `receipts` and `published` are the fields of
`ZkGasMeter`, `TaikoBlockExecutor` and the shared `finalized_block_zk_gas` cell.
The EVM is the constant `Run`: for a transaction on a state it gives validity,
the metered work items in order, the gas used and the next state. A call is
`StartTransact` (or a refusal), then `TransactCharge` per work item, then
`TransactDone`, `TransactInvalid` or `TransactFatal`, then `Commit` or `Discard`.
An overflow leads to `Overflow` from any of them. `phase = "panicked"` stands
for the `unreachable!` in `commit_transaction`. Metering is that of the Unzen
fork; before it there is no meter.

### TaikoEvm

What the executor module takes as `Run`, opened up: the handler's fee rules
(deduction, refund, reward, the anchor exemption), the anchor system call and
its charge, and the two homes of the meter. One pass builds a block with the
production loop of a plain EVM; a second pass repeats the same interpreter steps
on another kind of EVM (an inspected one under the executor, a raw one that
derives its anchor context, one shared by a bundle), and is compared with the
first step by step. revm is external: it is the choice of steps in the first
pass. Left out: the unmetered EVM before Unzen; calls with the balance check
disabled; value transfers; an inner inspector that rewrites a precompile's
outcome; cold and warm journal entries of the system call; a fresh EVM per
replayed transaction (`alloy.rs:129-136` documents that gap). The percentage of
the base fee is assumed to be at most 100; `extra_data.rs:8` does not clamp it.
A pass ends with a failed anchor; what the loops around the executor do after an
error (the legacy builder goes on behind a failed anchor) and the block gas check
are in `BlockPipeline` and `TaikoBlockExecutor`.

### BlockPipeline

A list, or a foreign block, goes through the drivers. `SkipsSilently` and the
`*Return` actions hold the differences between them: the builder ignores a
failing anchor that the witness and the prover treat as fatal, and the prover
does not filter transaction types. `ReferenceBody` says what a block made of a
list should contain, without executor or meter: `Taken` takes one transaction or
passes over it, and `TakenOf` goes through a list. The pipeline is compared with
it. The loop of the import is the default `execute_block` of alloy-evm, external to
this repository. A received block is executed only once the signers of its whole body are
recovered, so foreign bodies hold no transaction whose signer is not.

### TxSelection

`select_and_execute_pool_transactions` on the executor module, under its two
callers: the builder's pool mode (anchor first, one list) and
`taikoAuth_txPoolContent` (a reservation, several lists). Each turn of the loop
is one action per exit of the loop body, and the executor call in it is made of
the executor's own steps (`Transact`), between which other calls may change the
shared memory. A digest of the selection state is the EVM state it stands for.
`ForeignRecord` and `ForeignForget` are other calls at work on the shared `ZkOverflowMemory`.
`MemoryIsTransparent` compares a payload with one pass over the pool that knows
no memory (`GreedyPacking`). It leaves out calls that measured a compressed size:
a remembered candidate is skipped before `exceeds_list_limits` and so gives the
adaptive ratio no sample, and the lists may differ by that.

### ProofHistorySidecar, ProofReader, ProofWindow

`head` and `disk` are the in-memory and the persisted tip. `MoveHead` is a
commit, reorg or revert with its notification, `Persist` and `PipelineSync` move
the disk. `pc` is the program counter of the sidecar task; each label is a point
where the code awaits, takes the lock, or commits to disk, so that chain moves,
the sync loop, the pruner and crashes interleave there. `startup_action` reads
the chain in two steps (`StartupRead`, `Decide`). The store records, apart from
its labels, which blocks its data really comes from (`data`), so that a tip with
a right label on wrong data can be told apart (`Consistent`). Backfill commits
one block at a time; the code's chunks are a coarser case of the same. The copy
of the current state is one interruptible step. `windowOnly`, chosen at the
start, is the configuration flag. The first start finds no store or one of the
legacy schema (`LegacyStore`), which it wipes. `request_rebuild` may fail to
write its marker; the task is then down with the store as it was.

`ProofReader` adds what a read would answer in every state (`ProvenBlock`):
coverage, readiness, the bounded fallback to the canonical state, the refusal. A
read is one step. A snapshot that stays open while the store changes, and a hash
resolved to a number before a reorg, are limits `proof_state.rs:18-26` documents.

`ProofWindow` is what the readers are promised: a window of consecutive blocks
of one branch and a flag. While it is served, the window follows the chain above
its first block or loses its oldest blocks; filling, clearing and deepening
happen only while it is not. `ImplementsWindow` is the refinement, with `window`
mapped to the data of an initialized store and `serving` to the readiness flag.

### TraceRequest, CallTrace

`TraceRequest` is the life of a `trace_debankBlock`, witness or `eth_getProof`
request: handler, permit and worker are three pieces of state, because a worker
cannot be aborted and outlives a handler that timed out or whose client has
gone. `lookup` says whether the provider can answer a hash lookup at all: when it
cannot, the canonical check fails with "history unavailable", and
`prefer_reorg_error` keeps the original error, so a failure names a reorg only
while the provider can tell.

`CallTrace` is what a trace worker does with a transaction: the EVM opens and
closes frames, the arena and the error sidecar record them, the formatter
turns them into traces, error traces, events and storage contracts. Error texts
are named by what they are about; the JSON layout is left out.
`StorageFlagsExact` states what `observed_storage_contracts` returns, with two
places where that is not what its comment says: a CALLCODE frame that writes lists
the account whose code runs, not the one that executes it (`debank.rs:832`, "every
execution address"; the unit test at `debank.rs:1844` expects the former), and a
DELEGATECALL inside the initcode of a failed create lists the predicted address,
though it "was never installed in canonical state" (`debank.rs:836-838`).

### L1Origin

A block is the sequence of proposal ids of its chain. `forkchoiceUpdatedV2` is
split at its awaits; a write transaction is one step, as MDBX has one writer. A
lookup reads the head, opens a read transaction and then walks the moving chain
block by block. The setters store what they are given, as the code does;
`DriverStored` is the assumption that the driver sets pointers only to heights it
has stored. Another one is about `forkchoiceUpdatedV2`: the row is stored under
the `block_id` the driver sends (`api.rs:182`), which the code compares with
nothing; the model, and every statement about rows, takes it to be the height of
the block the attributes build. The scan's error for extra data too short for a
proposal id (`lookup.rs:165`) is left out, since consensus admits no block that
has the anchorV4 selector and short extra data. The signature of a row is left
out.

### BlockHeader, StateCommitment, BlockImport

`BlockHeader` has the pure functions of a header's way: `AssembleBlock`,
`ToPayload`, `DriverPayloads`, `RebuildHeader`, the validation rules, the base
fee, and the environment and context of a block built, imported and replayed. A
hash is the header itself, so a rebuilt header must agree in every field.
`StateCommitment` follows accounts and slots through a block into the root, the
persisted hashed state and the storage diff; which slots of a destroyed account
each root computation drops is external and follows `state_root.rs`.
`BlockImport` composes both over a growing chain that crosses Shasta and Unzen.
The zk gas of a block is a constant function of what it executes: that all
drivers measure the same is shown in `BlockPipeline`, where also the checks of the
executed body are (receipts, length under the zk limit, anchor).
`build_storage_diff` fails if revm's bundle lacks a bytecode it needs; the bundle
may lack any. The request then fails and the consumer keeps what it has; the next
block follows once a request was answered, so `MirrorFollowsChain` is about
consumers that got every diff. The products of the base-fee formula
(`eip4396.rs:53-54`) are unchecked u64; the gas limit is assumed below 2^64/95, and half of it times the seconds between two blocks below 2^64.
Left out: the debug mode that skips state roots, staged sync, a sparse trie
carried over the Unzen boundary, and the hash of the payload id (which covers
neither the base fee nor the metadata timestamp, although
`primitives/src/payload/builder.rs:92` calls the id unique).

## 3. Runs

| run | checks | bounds |
|---|---|---|
| `executor` | commit never panics; the published difficulty is the committed total and the committed total is the work of the receipts; committed gas stays within the block; overflow is sticky | zk limit 11, u64 30, gas limit 4, six transactions that meet every outcome |
| `pipeline` | import, witness and prover reproduce the build; the body is the reference body; import accepts exactly what a builder could seal | an anchor and up to three of six transactions in every order; foreign bodies up to three with every difficulty |
| `evm` | fees are conserved; both homes of the meter charge alike after every step; a second pass sees the sealed block | an anchor and two of five candidates, four free interpreter steps per block |
| `selection` | remembered overflows are true; lists and block agree and the fatal gas check never fires; lists near the DA limit were measured; wasted work is bounded; the memory is transparent; every call returns | nine requests over nine transactions and the anchor, a list limit one of them nearly fills, two calls, one foreign update |
| `proof_history` | once quiet the window is one true canonical branch; proofs are of canonical blocks; condemned stores are never served; workers start on a whole window; refinement of `ProofWindow`; the store catches up with the disk and stays | eight-block tree with forks at two heights, both modes, no store or a legacy one, 3 head moves, 1 crash, channel of 1 |
| `proof_history_anchor`, `_extend`, `_unwind` | three statements of the code's comments that TLC refutes (section 5) | as above, channel of 2, `DiskReorgs` or `MaxPending` widened |
| `engine` | driver blocks have rows; pointers name rows and are the latest while nothing is reordered; an undisturbed scan equals a declarative reference | two calls, three blocks, two proposals, scan limit 2, threshold 2, one disturbance |
| `trace` | work never exceeds the permits; an Ok trace is of a block canonical in that step, a failure after a reorg says so if the provider answers; every request ends and every permit comes back | two requests of any kinds, one permit per kind, one worker stage, two hashes, two reorgs, a provider that fails and recovers |
| `replay` | sidecar aligned with the arena; events are the receipt logs; traces classified; storage flags exact | two transactions, three frames, three LOG or SSTORE opcodes, two exotic events |
| `import` | hashed state and a diff consumer follow the EVM; a block built from honest attributes is never refused; base-fee steps are bounded; no fork is undone | three blocks, one account, one slot, four operations, Shasta at 1, Unzen at 3 |

The bounds are chosen so that each limit is met: the zk limit is hit in the
middle of a transaction and exactly at its end, products overflow the u64 range,
the channel lags, a prune is due after three blocks, a batch of two ends inside a
branch, the scan limit and the threshold both cut lookups of three blocks, a
list fills by gas, by DA and by compressed size, and chains start before each
fork and end after it. `MaxFaults` in `engine` counts every disturbance, setter
calls included; the theorems of section 4 hold without that bound.

**Restrictions of the passing sidecar run.** It has `DiskReorgs = FALSE` (no
reorg into persisted blocks) and `MaxPending = 1` (at most one unhandled reorg).
Both are real restrictions. With two reorgs pending, a failed
`reorg_by_unwind_and_reprocess` has already committed its unwind, labelled by the
notification's branch; with four head moves the chain can return to that label
and the store is judged ready with another branch's data below it. With disk
reorgs the findings of section 5 apply, and so does a fourth remark, which no run
states: `sidecar.rs:714-715` says that "re-execution never reads unpersisted
blocks", but the bound is a height and the read goes by the canonical chain.
Without disk reorgs that sentence is the bound of the loop itself.
`ProofsAreCanonical` speaks of states with no reorg still to be handled, and
exempts the moment between a lag and the write lock its recovery waits for
(`sidecar.rs:403-407`), in which readiness is still set. `proof_state.rs`
concedes that the flag "cannot cover a divergence that has not been *detected*
yet".

**Deadlock** is not checked where the system may stop: a finished block, a node
that is down, answered requests, or a chain that has spent its moves.

**Fairness.** `FairSpec` of the sidecar has weak fairness of the sidecar task
and of the sync loop, both tokio tasks that are always polled again, and strong
fairness of the steps that take the write lock: it is a tokio `Mutex`, which
serves its waiters in order. Nothing is assumed of the chain, of persistence, of
the pruner or of restarts. `SelFairSpec` has weak fairness of the selection loop,
a plain loop. `TraceRequest` has weak fairness of each request's handler, of its
worker, and of its deadline: tokio polls a ready task, the blocking pool runs
what was queued, and a timer fires. Disconnects, reorgs and
provider outages are never forced.

## 4. Proofs

Each theorem holds for every value of the constants that satisfies the named
assumptions of its module. A theorem in italics is also a property of a run.

| module | theorem | says |
|---|---|---|
| `TaikoBlockExecutor_proofs` | `TypeCorrect` | every counter stays in its u64 range |
| | `BudgetIsExact` | committed, in-flight and remaining zk gas add up to the limit |
| | *`NoPanic`* | the infallible commit never panics |
| | *`PublishedTotal`* | what would be sealed is the committed total, nothing in flight |
| | *`GasNeverUnderflows`* | gas used never exceeds the block gas limit |
| | *`StickyOverflow`* | nothing commits while the exhaustion flag is set |
| | *`CommittedIsReplayed`* | the committed total and state are those of a replay of the receipts |
| `BlockPipeline_proofs` | *`SealedBodyIsReference`* | the sealed body is the reference body of the list |
| | *`ImportAcceptsExactly`* | import accepts exactly the blocks a builder could have sealed |
| | *`OwnBlocksAreImported`* | the node's own block is refused only for a missing anchor, and an accepted import ends in the state, body and zk gas of the build |
| | *`ReplaysAreFaithful`* | behind a committed anchor the witness generator, and on lists without disallowed types the prover, reproduce the build |
| `TxSelection_proofs` | *`MemoryIsSound`* | every remembered overflow is true |
| | *`NearLimitMeasured`* | a list near the DA limit was measured |
| | *`OverflowWorkIsBounded`* | the gas one call wastes is bounded, whatever it remembers |
| `TxLists_proofs` | *`ListsMakeTheBlock`* | the lists are the block, within their limits; the fatal gas check never fires |
| | *`SelectionIsTransparent`* | unless a cap was hit or a size measured, a payload is what one pass without memory selects |
| `BlockImport_proofs` | *`PersistedStateIsExact`* | the persisted hashed state is the state the EVM left |
| | *`MirrorIsExact`* | a consumer of the diffs holds the chain's state |
| | `BaseFeeStep` | the base fee stays in range, moves by at most three eighths or one wei, rises only above the target, and nothing saturates |
| | `PayloadRoundTrip` | every sealed header is rebuilt unchanged from what the engine API carries |
| | *`ForksAreKept`* | time and Unzen only move forward along a chain |
| | *`FeesAreBounded`* | the base fee of a chain moves in bounded steps |
| | *`HonestBlocksImport`* | a block built from the attributes the protocol prescribes is never refused |
| `RpcHandlers_proofs` | *`DriverBlocksAreTracked`* | the driver's blocks have origin rows |
| | `HeadPointerNamesRow` | the head pointer names a row |
| | *`PointersAreRows`* | both pointers name rows, the head pointer the last confirmed one while nothing is reordered |
| | *`CacheNamesLastOfBatch`* | the batch map names the last confirmed block of each proposal while nothing is reordered |
| | *`QuietScansAreExact`* | an undisturbed lookup answers as a declarative reference does |
| | *`WorkIsBounded`* | the work in progress never exceeds the permits |
| | *`AnswersKnowReorgs`* | an Ok trace is of a canonical block, a failure after a reorg says so if the provider answers |
| `ProofHistorySidecar_proofs` | *`CondemnedStoreIsWiped`* | a condemned store is not served and stays condemned until it is gone |
| | *`WholeWindowIsServed`* | in window-only mode workers start only on a whole window |
| | `SidecarTypes` | the sidecar, its store and its notifications stay well formed |
| `ProofReader_proofs` | *`QuietStoreIsCanonical`* | with moderate reorgs, once nothing is pending the window is one canonical branch |
| | *`ServedProofsAreCanonical`* | with moderate reorgs, with no reorg pending, a proof is of the canonical block asked for or is refused |
| | *`SidecarImplementsWindow`* | with moderate reorgs, the sidecar implements `ProofWindow` |

**Executor.** Six follow from one inductive invariant, `IInv` (theorem
`Invariance`); the assumptions are that the EVM is a function and uses no more
gas than the transaction's limit. The properties alone are not inductive.
`GasWithinBlock` needs `AdmittedGasFits`: between admission and commit the
transaction's whole gas limit still fits, which makes the later addition safe.
`StickyOverflow` needs `ExhaustedIsIdle`: the flag is only set with no
transaction in progress. `NoPanic` rests on `BudgetExact`: what was charged in
flight came out of the remaining budget. `CommittedIsReplayed` adds `WorkFrom`:
while a transaction runs, the charges in flight are the zk gas of the work items
done so far, and a saturated charge has already overflowed.

**Drivers.** `PipelineInv` compares each driver with the reference at every step
of its loop: `At` is what the reference has taken of the part of the list that is
done, and between calls the executor `Matches` it (body, state, zk gas, gas used,
and exhausted exactly when the reference stops). Inside a call, `Running` keeps
that, and that a transaction which has charged anything is a valid one; when the
call has returned, `Answered` has the executor where the reference stands after
the transaction. This needs the executor's `IInv` and `WorkFrom` (a charge
overflows exactly when the whole transaction would), and that admission implies
the reference's gas check. The import and the replays are then facts about the
reference alone: taking from a taken body takes all of it (`BodyIsItsOwn`), what
import accepts loses nothing on the way (`LossIsFinal`: a transaction passed over
is never made up for), and decoding a list drops what the reference would pass
over anyway. Import and the prover run transaction types that the list decoders
filter; `Comparable` restricts the comparison to inputs without them, as the
properties themselves do. These inductions go along the positions of a list by
`IntervalInduction`, a lemma about sets of numbers.

**Selection.** A step of a call is a step of its executor, so `IInv` and
`WorkFrom` carry over, from the start state of the call's seed. `CallInv` ties
the digest of the overflow memory to the receipts, and a zk refusal to a
candidate that really overflows there; with it a remembered overflow is a fact
about its digest alone, which no other call can change. `AdmittedInv` keeps what
`exceeds_list_limits` established until the candidate commits, `GasInv` counts
all lists but the last at their limit, and `AllowanceInv` bounds what overflows
may still cost. `WalkInv` follows the memoryless pass beside the call: stopped
where the call has got to, with some set of senders blocked, it holds what the
call holds and still ends where the whole pass ends; a candidate dropped without
execution is one that pass refuses as well.

**State.** `Follows` says of each account and slot that the bundle entry holds
what the block did to it since the persisted state. It needs two facts about the
EVM that the code relies on: an account without code has no storage, and under
Unzen only accounts created in the same transaction are destroyed, so that a
destroyed account had no persisted slots. `MirrorInv` has the copy equal the
state before the block until the block is traced, and the state after it then.

**Headers and import.** The base fee is bounded through `QuotientBound` and
`DeltaBound`, the round trip by comparing the rebuilt record field by field.
`ChainInv` records what a block in progress has been checked for: attributes,
fork flags of block and parent, a header that is the assembled one, and, once
valid, the parent it was compared with. `RootInv` and the state theorems make the
sealed root the root of every later computation. `FeeAssumption` asks for a gas
limit of at least 4, for the integer divisions of the step; room for the anchor
(`ANCHOR_V1_V2_GAS_LIMIT`) alone is far above.

**L1 origins.** `TrackedInv`: an answered request has its row, because it
persisted before it answered; an adopted height has one, because its request was
answered; no step removes a row. `PointerInv` adds that, as long as nothing was
reordered, calls persist in the order of the chain, so the head pointer is the
last row of a confirmed block and the map of a proposal its last one. `QuietInv`
follows a lookup: while nothing has moved since it began, the chain is its
snapshot and every block it has `Passed` is not the answer.

**Requests.** `Tied` says who owns the permit at each place of the handler, so
that work in progress always has its own; `PermitInv` adds that the holders of
permits never outnumber them. Counting is by the cardinality facts of the
library.

**Sidecar.** `SidecarInv` holds whatever the chain does: who runs at each place
of the task and holds the lock, notifications made of consecutive blocks that
join the branch they replace, and a store that has as many blocks as its labels
say. While the marker is on disk the task is down or wiping, before the store is
opened, with nothing served and no worker; `CondemnedStoreIsWiped` follows.
`WholeWindowIsServed` needs that a start reaches the workers only through the check of the window, with the store unchanged since.
`DiskInv`, assuming `~DiskReorgs`, has the persisted tip canonical and a batch of
the sync loop end at or below it.

`BranchInv` says where the store is relative to the chain. `Spans`: its data is
the branch between its labels. There is a block `left` such that the
notifications that are queued, in hand or lost lead from the branch of `left` to
the head (`Leads`): until the reorg among them is handled, commits queued before
it are of the abandoned branch, those after it are canonical, and `left = head`
when there is none. `TipInv` says for each place of the task whether the tip of
the store is on that branch or the canonical one, or only close to it. A settled
state has nothing pending, so its tip is canonical, and with `Spans` the window
is; a proof is read at a height of that window. For the refinement, each step of
the sidecar, the sync loop and the pruner is a step of `ProofWindow` or leaves
window and flag alone; the steps that fill, clear or deepen the window run with
the flag unset.

The three theorems of `ProofReader_proofs` assume `Moderate`: `~DiskReorgs`,
`MaxPending <= 1` (both explained in section 3) and `2 * MaxReorg <= Window`, two
reorgs fit the retention window. The last one is needed by the argument: while
the task waits for the lock to recover from a lag, a lost reorg and a new one can
both lie between the stored tip and the head, and a prune in that moment labels
the new start of the window with the canonical hash of its height; it must be
below both forks. Retention is days of blocks, reorgs are a few. The run has
`Window = MaxReorg = 2` and finds no violation on its small tree; the theorem
covers every tree within the assumption.

Where a definition is recursive over a sequence, a number or the block tree
(replays, lists, scans, branches), its facts are proved by taking a least
counterexample (`WFMin` of the library on the natural numbers)
or by induction along an interval.

Only model-checked: the EVM's fees, metering parity and second
pass, the tracer (its formatting is recursive over frames, and `CallTrace`
declares `RECURSIVE` operators), and all liveness, which needs fairness and
`ENABLED`.

## 5. Findings

Each is a comment that the code does not live up to in some order of events,
shown by a run; none is a claim about how often that order occurs.

1. `sidecar.rs:394`, "Storage bounds are now validated against canonical hashes":
   a fresh store is anchored at the on-disk tip and skips the validation
   (`proof_history_anchor`).
2. `sidecar.rs:395`, "Workers only extend storage consistently from here on": a
   revert above the store is dropped, then sync stores the reverted block from
   disk (`proof_history_extend`).
3. `sidecar.rs:500`, unwinding "so its latest retained block is the canonical
   earliest block": the early return compares numbers only
   (`proof_history_unwind`).

## 6. Not modelled

- Opcode semantics and the journal (revm), trie computation and the byte layout
  of the proof store and of database rows: external or pure data.
- The JSON layout of block files, the wording of errors, serde forms, the
  constant tables of chain specs and zk gas multipliers: no state.
- Command line, node composition and RPC registration: wiring at startup.
- The unmetered path before Unzen, debug modes that skip state roots or balance
  checks, and staged sync: separate configurations of code modelled otherwise.
- Reads of the proof history that overlap a change of the store, and replays with
  a fresh EVM per transaction: documented limits of the code.
- An update of an origin row that overwrites an acknowledged signature: the code
  replaces whole rows by design.
