----------------------------- MODULE ZkGasMeter -----------------------------
(***************************************************************************)
(* The checked zk gas meter of one metered block (crates/evm/src/zk_gas/    *)
(* meter.rs), as operators on a meter record.  The finalized total of the   *)
(* committed transactions is block, the in-flight total of the running      *)
(* transaction is tx, and remaining is the cached budget both leave.        *)
(***************************************************************************)
EXTENDS Integers

CONSTANTS
  BlockLimit,    \* schedule.block_limit
  TxIntrinsic,   \* schedule.tx_intrinsic_zk_gas
  MaxU64         \* largest value of the u64 counters

ASSUME MeterAssumption ==
  /\ MaxU64 \in Nat
  /\ BlockLimit \in 0 .. MaxU64
  /\ TxIntrinsic \in 0 .. MaxU64

U64 == 0 .. MaxU64

Meter == [block : U64, tx : U64, remaining : U64]

(* One unit of metered EVM work: an opcode step, a spawning opcode charged  *)
(* at its fixed estimate, or a precompile call: raw gas times a multiplier. *)
WorkItem == [raw : U64, multiplier : U64]

SaturatingSub(a, b) == IF a < b THEN 0 ELSE a - b

NewMeter == [block |-> 0, tx |-> 0, remaining |-> BlockLimit]

(* Mutant of ResetTransaction: the in-flight total is not cleared. *)
ResetKeepsTx(m) ==
  [block |-> m.block, tx |-> m.tx, remaining |-> SaturatingSub(BlockLimit, m.block)]

ResetTransaction(m) ==
  [block |-> m.block, tx |-> 0, remaining |-> SaturatingSub(BlockLimit, m.block)]

(* checked_add overflows, or the sum passes the block limit. *)
BlockTotalExceeds(m, amount) ==
  \/ m.block + amount > MaxU64
  \/ m.block + amount > BlockLimit

CommitWouldExceed(m) == BlockTotalExceeds(m, m.tx)

CommitTransaction(m) ==
  [block |-> m.block + m.tx, tx |-> 0, remaining |-> m.remaining]

ReserveExceeds(m, amount) == BlockTotalExceeds(m, amount) \/ amount > m.remaining

ReserveBlockBudget(m, amount) ==
  [block |-> m.block + amount, tx |-> m.tx, remaining |-> m.remaining - amount]

(* charge_amount *)
ChargeExceeds(m, amount) == amount > m.remaining \/ m.tx + amount > MaxU64

ChargeAmount(m, amount) ==
  [block |-> m.block, tx |-> m.tx + amount, remaining |-> m.remaining - amount]

(* raw * multiplier is a checked_mul whose overflow counts as exceeding. *)
WorkAmount(w) == w.raw * w.multiplier

WorkExceeds(m, w) == WorkAmount(w) > MaxU64 \/ ChargeExceeds(m, WorkAmount(w))

ChargeWork(m, w) == ChargeAmount(m, WorkAmount(w))
=============================================================================
