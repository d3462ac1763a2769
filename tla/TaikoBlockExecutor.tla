------------------------- MODULE TaikoBlockExecutor -------------------------
(***************************************************************************)
(* The block executor (crates/block/src/executor.rs) driving the zk gas     *)
(* meter: one executor, one block.  A transaction is bracketed by reset,    *)
(* intrinsic charge, metered execution and commit; an overflow anywhere     *)
(* leaves a sticky exhaustion flag behind.                                  *)
(***************************************************************************)
EXTENDS ZkGasMeter, Sequences

CONSTANTS
  Txs,            \* transactions a caller may submit
  NoTx,           \* no transaction in progress
  GasLimit,       \* tx.gas_limit(), a function of the transaction
  BlockGasLimit,  \* evm.block().gas_limit()
  Reservations,   \* amounts a simulation may reserve
  States,         \* EVM states
  GenesisState,   \* the parent block's state
  Run             \* what the EVM does with a transaction on a state

(* valid: the EVM's checks accept the transaction; work: the metered items  *)
(* in order; gas: the EVM gas it uses; next: the state its changes lead to. *)
RunResult == [valid : BOOLEAN, work : Seq(WorkItem), gas : Nat, next : States]

(* The EVM is deterministic and uses no more gas than the transaction's     *)
(* limit.                                                                   *)
ASSUME ExecutorAssumption ==
  /\ NoTx \notin Txs
  /\ BlockGasLimit \in Nat
  /\ GasLimit \in [Txs -> Nat]
  /\ Reservations \subseteq U64
  /\ GenesisState \in States
  /\ Run \in [Txs -> [States -> RunResult]]
  /\ \A tx \in Txs, s \in States : Run[tx][s].gas <= GasLimit[tx]

VARIABLES
  meter,      \* the EVM's zk gas meter
  published,  \* ctx.finalized_block_zk_gas, read by the block assembler
  exhausted,  \* zk_gas_exhausted
  gasUsed,    \* gas_used
  state,      \* what is committed to the EVM's database
  receipts,   \* the committed transactions, one per receipt
  reserved,   \* sum of the reservations made
  phase,      \* ready, running (inside transact), executed, finished, panicked
  cur,        \* the transaction between ready and ready again
  pos,        \* how many of its work items are charged
  result      \* what the last call returned

vars == <<meter, published, exhausted, gasUsed, state, receipts, reserved,
          phase, cur, pos, result>>

Phases == {"ready", "running", "executed", "finished", "panicked"}
Results == {"none", "reserved", "committed", "discarded", "cleared",
            "zk_limit", "gas_limit", "invalid_tx", "fatal",
            "finished", "difficulty_mismatch"}

TypeOK ==
  /\ meter \in Meter
  /\ published \in U64
  /\ exhausted \in BOOLEAN
  /\ gasUsed \in Nat
  /\ state \in States
  /\ receipts \in Seq(Txs)
  /\ reserved \in Nat
  /\ phase \in Phases
  /\ cur \in Txs \cup {NoTx}
  /\ phase \in {"running", "executed"} => cur \in Txs
  /\ pos \in Nat
  /\ result \in Results

Init ==
  /\ meter = NewMeter
  /\ published = 0
  /\ exhausted = FALSE
  /\ gasUsed = 0
  /\ state = GenesisState
  /\ receipts = <<>>
  /\ reserved = 0
  /\ phase = "ready"
  /\ cur = NoTx
  /\ pos = 0
  /\ result = "none"

-----------------------------------------------------------------------------
(* Helpers of the executor.                                                 *)

CurRun == Run[cur][state]

(* Mutant of ResetCurrentTransactionZkGas: publishes before it discards. *)
PublishBeforeReset ==
  /\ meter' = ResetTransaction(meter)
  /\ published' = meter.block + meter.tx

(* reset_current_transaction_zk_gas: discard what is in flight and publish. *)
ResetCurrentTransactionZkGas ==
  /\ meter' = ResetTransaction(meter)
  /\ published' = meter.block

(* Return to the caller without a commit. *)
ReturnTo(r) ==
  /\ phase' = "ready"
  /\ cur' = NoTx
  /\ pos' = 0
  /\ result' = r
  /\ UNCHANGED <<gasUsed, state, receipts, reserved>>

(* Every zk gas overflow path: mark, discard, return the dedicated error.   *)
Overflow ==
  /\ exhausted' = TRUE
  /\ ResetCurrentTransactionZkGas
  /\ ReturnTo("zk_limit")

-----------------------------------------------------------------------------
(* execute_transaction_without_commit.                                      *)

RefuseExhausted ==
  /\ phase = "ready"
  /\ exhausted
  /\ ReturnTo("zk_limit")
  /\ UNCHANGED <<meter, published, exhausted>>

RefuseGasLimit(tx) ==
  /\ phase = "ready"
  /\ ~exhausted
  /\ GasLimit[tx] > BlockGasLimit - gasUsed
  /\ ReturnTo("gas_limit")
  /\ UNCHANGED <<meter, published, exhausted>>

(* Mutant of StartTransact: the exhaustion flag is not consulted. *)
StartAlthoughExhausted(tx) ==
  /\ phase = "ready"
  /\ GasLimit[tx] <= BlockGasLimit - gasUsed
  /\ ~ChargeExceeds(ResetTransaction(meter), TxIntrinsic)
  /\ meter' = ChargeAmount(ResetTransaction(meter), TxIntrinsic)
  /\ published' = meter.block
  /\ phase' = "running" /\ cur' = tx /\ pos' = 0 /\ result' = "none"
  /\ UNCHANGED <<exhausted, gasUsed, state, receipts, reserved>>

(* Mutant of StartTransact: each transaction is held against the gas of the *)
(* whole block, not against what is left of it.                             *)
StartWithinWholeBlock(tx) ==
  /\ phase = "ready"
  /\ ~exhausted
  /\ GasLimit[tx] <= BlockGasLimit
  /\ ~ChargeExceeds(ResetTransaction(meter), TxIntrinsic)
  /\ meter' = ChargeAmount(ResetTransaction(meter), TxIntrinsic)
  /\ published' = meter.block
  /\ phase' = "running" /\ cur' = tx /\ pos' = 0 /\ result' = "none"
  /\ UNCHANGED <<exhausted, gasUsed, state, receipts, reserved>>

(* The reset, then the intrinsic charge on the fresh meter. *)
StartTransact(tx) ==
  /\ phase = "ready"
  /\ ~exhausted
  /\ GasLimit[tx] <= BlockGasLimit - gasUsed
  /\ IF ChargeExceeds(ResetTransaction(meter), TxIntrinsic)
     THEN Overflow
     ELSE /\ meter' = ChargeAmount(ResetTransaction(meter), TxIntrinsic)
          /\ published' = meter.block
          /\ phase' = "running"
          /\ cur' = tx
          /\ pos' = 0
          /\ result' = "none"
          /\ UNCHANGED <<exhausted, gasUsed, state, receipts, reserved>>

(* The EVM rejects the transaction before running it. *)
TransactInvalid ==
  /\ phase = "running"
  /\ pos = 0
  /\ ~CurRun.valid
  /\ ResetCurrentTransactionZkGas
  /\ ReturnTo("invalid_tx")
  /\ UNCHANGED exhausted

(* A database or other internal error inside transact. *)
TransactFatal ==
  /\ phase = "running"
  /\ ResetCurrentTransactionZkGas
  /\ ReturnTo("fatal")
  /\ UNCHANGED exhausted

(* One opcode, spawn or precompile charge; an exceeding one halts the EVM.  *)
TransactCharge ==
  /\ phase = "running"
  /\ CurRun.valid
  /\ pos < Len(CurRun.work)
  /\ LET w == CurRun.work[pos + 1]
     IN  IF WorkExceeds(meter, w)
         THEN Overflow
         ELSE /\ meter' = ChargeWork(meter, w)
              /\ pos' = pos + 1
              /\ UNCHANGED <<published, exhausted, gasUsed, state, receipts, reserved,
                             phase, cur, result>>

(* transact returned; the budget is checked while an error can be reported. *)
TransactDone ==
  /\ phase = "running"
  /\ CurRun.valid
  /\ pos = Len(CurRun.work)
  /\ IF CommitWouldExceed(meter)
     THEN Overflow
     ELSE /\ phase' = "executed"
          /\ UNCHANGED <<meter, published, exhausted, gasUsed, state, receipts, reserved,
                         cur, pos, result>>

-----------------------------------------------------------------------------
(* Mutant of Commit: its own limit check is off by one from the pre-check.  *)
CommitOffByOne ==
  /\ phase = "executed"
  /\ meter.block + meter.tx >= BlockLimit
  /\ phase' = "panicked"
  /\ UNCHANGED <<meter, published, exhausted, gasUsed, state, receipts, reserved,
                 cur, pos, result>>

(* commit_transaction: infallible, so an exceeding commit is a panic.       *)
Commit ==
  /\ phase = "executed"
  /\ IF CommitWouldExceed(meter)
     THEN /\ phase' = "panicked"
          /\ UNCHANGED <<meter, published, exhausted, gasUsed, state, receipts, reserved,
                         cur, pos, result>>
     ELSE /\ meter' = CommitTransaction(meter)
          /\ published' = meter'.block
          /\ gasUsed' = gasUsed + CurRun.gas
          /\ state' = CurRun.next
          /\ receipts' = Append(receipts, cur)
          /\ phase' = "ready"
          /\ cur' = NoTx
          /\ pos' = 0
          /\ result' = "committed"
          /\ UNCHANGED <<exhausted, reserved>>

(* execute_transaction_with_commit_condition when the caller declines.      *)
Discard ==
  /\ phase = "executed"
  /\ ResetCurrentTransactionZkGas
  /\ ReturnTo("discarded")
  /\ UNCHANGED exhausted

-----------------------------------------------------------------------------
(* Hooks for simulations and transaction selection.                         *)

(* reserve_block_zk_gas: a refused reservation changes nothing.             *)
Reserve(amount) ==
  /\ phase = "ready"
  /\ IF ReserveExceeds(meter, amount)
     THEN /\ result' = "zk_limit"
          /\ UNCHANGED <<meter, published, reserved>>
     ELSE /\ meter' = ReserveBlockBudget(meter, amount)
          /\ published' = meter'.block
          /\ reserved' = reserved + amount
          /\ result' = "reserved"
  /\ UNCHANGED <<exhausted, gasUsed, state, receipts, phase, cur, pos>>

(* Selection calls it only between transactions, after an overflow error.   *)
ClearZkGasExhaustion ==
  /\ phase = "ready"
  /\ result = "zk_limit"
  /\ exhausted' = FALSE
  /\ ResetCurrentTransactionZkGas
  /\ ReturnTo("cleared")

(* expected_difficulty is None everywhere but on import. *)
NoExpectation == -1

(* finish, with the imported header's difficulty or none.                   *)
Finish(expected) ==
  /\ phase = "ready"
  /\ published' = meter.block
  /\ phase' = "finished"
  /\ result' = IF expected \in {NoExpectation, meter.block} THEN "finished" ELSE "difficulty_mismatch"
  /\ UNCHANGED <<meter, exhausted, gasUsed, state, receipts, reserved, cur, pos>>

Next ==
  \/ RefuseExhausted
  \/ \E tx \in Txs : RefuseGasLimit(tx) \/ StartTransact(tx)
  \/ TransactInvalid \/ TransactFatal \/ TransactCharge \/ TransactDone
  \/ Commit \/ Discard
  \/ \E amount \in Reservations : Reserve(amount)
  \/ ClearZkGasExhaustion
  \/ \E expected \in U64 \cup {NoExpectation} : Finish(expected)

Spec == Init /\ [][Next]_vars

-----------------------------------------------------------------------------
(* Properties.                                                              *)

(* The cached remaining budget never drifts: committed, in-flight and       *)
(* remaining zk gas always add up to the block limit (meter.rs keeps three  *)
(* counters, each updated by a different subset of its methods).            *)
BudgetExact == meter.block + meter.tx + meter.remaining = BlockLimit

(* commit_transaction never reaches its unreachable! branch: the pre-check  *)
(* in execute_transaction_without_commit is still valid at commit.          *)
NeverPanics == phase # "panicked"

(* What the assembler would seal as header.difficulty is the committed      *)
(* total, whatever failed, overflowed or was discarded in between.          *)
PublishedIsCommitted == published = meter.block

(* Between transactions nothing is in flight: no failed, discarded or       *)
(* overflowed transaction leaks zk gas into the next one's budget.          *)
NothingInFlight ==
  phase \in {"ready", "finished"} =>
    meter.tx = 0 /\ meter.remaining = BlockLimit - meter.block

(* The committed transactions never use more gas than the block has, for    *)
(* every order of refusals, failures, discarded and committed runs: the     *)
(* admission check subtracts block_gas_limit - gas_used in unchecked u64,   *)
(* and gas is only added three steps after it was admitted.                 *)
GasWithinBlock == gasUsed <= BlockGasLimit

(* What a list of work items has cost after each of them, the intrinsic     *)
(* charge included, by definition rather than by metering.                  *)
RunningZkGas(work) ==
  LET sum[n \in 0 .. Len(work)] ==
        IF n = 0 THEN TxIntrinsic ELSE sum[n - 1] + WorkAmount(work[n])
  IN  sum

(* The zk gas of a transaction on a state. *)
TxZkGas(tx, s) == RunningZkGas(Run[tx][s].work)[Len(Run[tx][s].work)]

(* The state and zk gas after each of a list of transactions from a state.  *)
ReplayStates(start, txs) ==
  LET after[n \in 0 .. Len(txs)] ==
        IF n = 0 THEN [state |-> start, zkGas |-> 0]
        ELSE [state |-> Run[txs[n]][after[n - 1].state].next,
              zkGas |-> after[n - 1].zkGas + TxZkGas(txs[n], after[n - 1].state)]
  IN  after

ReplayFrom(start, txs) == ReplayStates(start, txs)[Len(txs)]

Replay(txs) == ReplayFrom(GenesisState, txs)

(* The committed total and state are exactly what the receipts'             *)
(* transactions cost and do when replayed from the parent state: no work is *)
(* lost or counted twice across overflows, discards and clears.             *)
CommittedTotalIsWork ==
  /\ meter.block = reserved + Replay(receipts).zkGas
  /\ state = Replay(receipts).state

(* After an overflow no transaction commits until selection clears the flag *)
(* (block import, sealing and proving never clear it).                      *)
OverflowIsSticky == [][exhausted => receipts' = receipts]_vars

(* The inductive strengthening: a running transaction was admitted with its *)
(* whole gas limit still available, so its gas fits when it commits.        *)
AdmittedGasFits ==
  phase \in {"running", "executed"} => gasUsed + GasLimit[cur] <= BlockGasLimit

(* A transaction only runs while the flag is clear. *)
ExhaustedIsIdle == exhausted => phase \in {"ready", "finished"}

IInv ==
  /\ TypeOK
  /\ BudgetExact
  /\ NeverPanics
  /\ PublishedIsCommitted
  /\ NothingInFlight
  /\ GasWithinBlock
  /\ AdmittedGasFits
  /\ ExhaustedIsIdle
=============================================================================
