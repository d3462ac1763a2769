------------------------------ MODULE BlockHeader ------------------------------
(***************************************************************************)
(* Headers of Taiko blocks: how a block is sealed, how it travels through the   *)
(* engine API and is rebuilt on the other side, and the rules it must obey.    *)
(*                                                                          *)
(*   crates/block/src/assembler.rs, config.rs     sealing                      *)
(*   crates/primitives/src/engine, payload        attributes, payload, sidecar *)
(*   crates/rpc/src/engine/validator.rs, api.rs   the engine API               *)
(*   crates/consensus/src                         header rules, base fee       *)
(*                                                                          *)
(* A hash is the header itself.  The state root is checked in StateCommitment; *)
(* fields that are only copied, and those that are always empty, are left out. *)
(***************************************************************************)
EXTENDS Integers

CONSTANTS ShastaTime, UnzenTime,      \* fork activation timestamps
          GasLimit,                   \* of every block
          InitialBaseFee, MinBaseFee, MaxBaseFee

\* A block has room for its anchor (ANCHOR_V1_V2_GAS_LIMIT), so far more than 4.
ASSUME FeeAssumption ==
    /\ GasLimit \in Nat /\ GasLimit >= 4
    /\ MinBaseFee \in Nat /\ MaxBaseFee \in Nat /\ MinBaseFee <= MaxBaseFee
    /\ InitialBaseFee \in MinBaseFee..MaxBaseFee

Absent == "absent"                    \* None of an optional hash
NoValue == -1                         \* None of an optional number
Zero == "zero"                        \* B256::ZERO
EmptyRoot == "empty"                  \* EMPTY_ROOT_HASH, EMPTY_REQUESTS_HASH

IsShastaActive(timestamp) == timestamp >= ShastaTime
IsUnzenActive(timestamp) == timestamp >= UnzenTime

\* taiko_spec_by_timestamp_and_block_number and into_eth_spec; the forks before
\* Shasta share the rules of Shanghai.
TaikoSpec(timestamp) ==
    CASE IsUnzenActive(timestamp) -> "UNZEN"
      [] IsShastaActive(timestamp) /\ ~IsUnzenActive(timestamp) -> "SHASTA"
      [] OTHER -> "PACAYA"
EthSpec(timestamp) == IF TaikoSpec(timestamp) = "UNZEN" THEN "OSAKA" ELSE "SHANGHAI"

-----------------------------------------------------------------------------
(* The base fee of EIP-4396.                                                 *)

\* The code multiplies in unchecked u64: the gas limit is assumed to stay below
\* 2^64 / 95 and its half, times the seconds between two blocks, below 2^64.
AdjustedGasTarget(blockTime) ==
    LET scaled == ((GasLimit \div 2) * blockTime) \div 2
        cap == (GasLimit * 95) \div 100 IN
    IF scaled <= cap THEN scaled ELSE cap

\* Mutant of Clamp.
Unclamped(fee) == fee

\* clamp_shasta_base_fee.
Clamp(fee) ==
    IF fee < MinBaseFee THEN MinBaseFee ELSE IF fee > MaxBaseFee THEN MaxBaseFee ELSE fee

FeeDelta(fee, gas) == ((fee * gas) \div (GasLimit \div 2)) \div 8

\* calculate_next_block_eip4396_base_fee.
UnclampedBaseFee(parent, blockTime) ==
    LET target == AdjustedGasTarget(blockTime)
        rise == FeeDelta(parent.baseFee, parent.gasUsed - target)
        fall == FeeDelta(parent.baseFee, target - parent.gasUsed) IN
    CASE parent.gasUsed = target -> parent.baseFee
      [] parent.gasUsed > target -> parent.baseFee + (IF rise < 1 THEN 1 ELSE rise)
      [] parent.gasUsed < target -> parent.baseFee - fall

NextBaseFee(parent, blockTime) ==
    IF parent.number = 0 THEN InitialBaseFee ELSE Clamp(UnclampedBaseFee(parent, blockTime))

-----------------------------------------------------------------------------
(* Building.                                                                *)

\* validate_version_specific_fields and validate_payload_attributes_against_header.
AttributesAccepted(attributes, parent) ==
    /\ attributes.beaconRoot \in {Absent, Zero}
    /\ attributes.timestamp >= parent.timestamp

\* try_new and normalize_payload_config: the block takes the timestamp of its
\* metadata, which nothing compares with the timestamp of the attributes.
BuilderAttributes(attributes) ==
    [timestamp |-> attributes.metaTimestamp, baseFee |-> attributes.baseFee,
     extra |-> attributes.extra, beaconRoot |-> attributes.beaconRoot]

\* normalize_parent_beacon_block_root.
NormalizeBeaconRoot(unzenActive, root) ==
    IF ~unzenActive THEN Absent ELSE IF root = Absent THEN Zero ELSE root

\* assemble_block: the header of a block on `parent`.
AssembleBlock(attributes, parent, gasUsed, zkGas) ==
    LET active == IsUnzenActive(attributes.timestamp) IN
    [number           |-> parent.number + 1,
     timestamp        |-> attributes.timestamp,
     baseFee          |-> attributes.baseFee,
     gasUsed          |-> gasUsed,
     extra            |-> attributes.extra,
     difficulty       |-> IF active THEN zkGas ELSE 0,
     withdrawalsRoot  |-> EmptyRoot,
     beaconRoot       |-> NormalizeBeaconRoot(active, attributes.beaconRoot),
     blobGas          |-> IF active THEN Zero ELSE Absent,
     requestsHash     |-> IF active THEN EmptyRoot ELSE Absent]

-----------------------------------------------------------------------------
(* The engine API.                                                          *)

\* ExecutionPayloadV1 carries the fields below, and the hash of the block.
ToPayload(header) ==
    [number |-> header.number, timestamp |-> header.timestamp, baseFee |-> header.baseFee,
     gasUsed |-> header.gasUsed, extra |-> header.extra,
     hash |-> header]

\* block_to_payload: a block that stays inside the node.
BlockToPayload(header) ==
    [payload |-> ToPayload(header),
     sidecar |-> [withdrawalsHash |-> header.withdrawalsRoot, difficulty |-> header.difficulty]]

\* Mutant of BlockValue: the fees of the block, also under Unzen.
BlockValueOfFees(header) == NoValue

\* getPayloadV2: Unzen moves the difficulty into blockValue, which otherwise
\* holds the fees of the block, which nobody reads back.
BlockValue(header) == IF IsUnzenActive(header.timestamp) THEN header.difficulty ELSE NoValue

\* What the driver makes of an envelope: the answer of getPayloadV2 comes back
\* as newPayloadV2, with a zero withdrawals hash or the one of no withdrawals.
DriverPayloads(header) ==
    {[payload |-> ToPayload(header),
      sidecar |-> [withdrawalsHash |-> w,
                   difficulty |-> IF IsUnzenActive(header.timestamp) THEN BlockValue(header) ELSE NoValue]] :
        w \in {Zero, EmptyRoot}}

\* convert_payload_to_block: the header it rebuilds, and when it is refused.
RebuildHeader(data) ==
    LET p == data.payload
        active == IsUnzenActive(p.timestamp) IN
    [number           |-> p.number,
     timestamp        |-> p.timestamp,
     baseFee          |-> p.baseFee,
     gasUsed          |-> p.gasUsed,
     extra            |-> p.extra,
     difficulty       |-> IF data.sidecar.difficulty = NoValue THEN 0 ELSE data.sidecar.difficulty,
     withdrawalsRoot  |-> IF data.sidecar.withdrawalsHash = Zero THEN EmptyRoot
                          ELSE data.sidecar.withdrawalsHash,
     beaconRoot       |-> IF active THEN Zero ELSE Absent,
     blobGas          |-> IF active THEN Zero ELSE Absent,
     requestsHash     |-> IF active THEN EmptyRoot ELSE Absent]

ConvertsToBlock(data) ==
    /\ IsUnzenActive(data.payload.timestamp) => data.sidecar.difficulty # NoValue
    /\ RebuildHeader(data) = data.payload.hash

-----------------------------------------------------------------------------
(* What a block is executed with: the environment and the context of a block  *)
(* being built, of a payload being imported and of a block being replayed.     *)

Environment(number, timestamp, difficulty, baseFee) ==
    [number |-> number, timestamp |-> timestamp, difficulty |-> difficulty, baseFee |-> baseFee,
     spec |-> TaikoSpec(timestamp),
     blobFee |-> IF EthSpec(timestamp) = "OSAKA" THEN 1 ELSE NoValue]

\* TaikoBlockExecutionCtx, without what is only copied; the cell for the finalized
\* zk gas is the zkGas argument of AssembleBlock and DifficultyMatches.
Context(unzenActive, beaconRoot, extra, expected) ==
    [unzen |-> unzenActive, beaconRoot |-> beaconRoot, extra |-> extra,
     expectedDifficulty |-> expected]

\* A block being built.
NextEvmEnv(attributes, parent) ==
    Environment(parent.number + 1, attributes.timestamp, 0, attributes.baseFee)

ContextForNextBlock(attributes) ==
    LET active == IsUnzenActive(attributes.timestamp) IN
    Context(active, NormalizeBeaconRoot(active, attributes.beaconRoot), attributes.extra, NoValue)

NextBlockExecution(attributes, parent) ==
    [env |-> NextEvmEnv(attributes, parent), ctx |-> ContextForNextBlock(attributes)]

\* A payload being imported.
EvmEnvForPayload(data) ==
    Environment(data.payload.number, data.payload.timestamp, 0, data.payload.baseFee)

ContextForPayload(data) ==
    LET active == IsUnzenActive(data.payload.timestamp) IN
    Context(active, NormalizeBeaconRoot(active, Absent), data.payload.extra,
            IF active THEN data.sidecar.difficulty ELSE NoValue)

PayloadExecution(data) == [env |-> EvmEnvForPayload(data), ctx |-> ContextForPayload(data)]

\* A block being replayed.
EvmEnvOf(header) ==
    Environment(header.number, header.timestamp,
                IF IsUnzenActive(header.timestamp) THEN header.difficulty ELSE 0, header.baseFee)

ContextForBlock(header) ==
    LET active == IsUnzenActive(header.timestamp) IN
    Context(active, header.beaconRoot, header.extra, IF active THEN header.difficulty ELSE NoValue)

BlockExecution(header) == [env |-> EvmEnvOf(header), ctx |-> ContextForBlock(header)]

\* What transactions can tell apart: DIFFICULTY reads the mix hash, and the
\* expected difficulty is only compared with the outcome.
Visible(execution) ==
    [env |-> [execution.env EXCEPT !.difficulty = 0],
     ctx |-> [execution.ctx EXCEPT !.expectedDifficulty = NoValue]]

\* finish: the measured zk gas must be the expected difficulty.
DifficultyMatches(execution, zkGas) == execution.ctx.expectedDifficulty \in {NoValue, zkGas}

-----------------------------------------------------------------------------
(* Consensus rules.                                                         *)

\* validate_header.
ValidateHeader(header) ==
    /\ ~IsUnzenActive(header.timestamp) => header.difficulty = 0
    /\ IsShastaActive(header.timestamp) => header.extra = "shasta"
    /\ header.gasUsed <= GasLimit

\* validate_header_against_parent; `grandTime` is the timestamp of the parent's
\* parent, or NoValue if the block reader does not have that block.
ExpectedBaseFee(header, parent, grandTime) ==
    IF parent.number = 0 THEN InitialBaseFee
    ELSE IF grandTime = NoValue THEN header.baseFee
    ELSE NextBaseFee(parent, parent.timestamp - grandTime)

\* Mutant of ValidateAgainstParent: neither the number nor the time is compared.
FeeOnly(header, parent, grandTime) ==
    IsShastaActive(header.timestamp) => header.baseFee = ExpectedBaseFee(header, parent, grandTime)

ValidateAgainstParent(header, parent, grandTime) ==
    /\ header.number = parent.number + 1
    /\ IF IsShastaActive(header.timestamp)
       THEN /\ header.timestamp > parent.timestamp
            /\ header.baseFee = ExpectedBaseFee(header, parent, grandTime)
       ELSE header.timestamp >= parent.timestamp
=============================================================================
