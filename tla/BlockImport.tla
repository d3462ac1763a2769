------------------------------ MODULE BlockImport ------------------------------
(***************************************************************************)
(* A chain grows: the driver asks for a block, the block is executed, sealed,  *)
(* sent through the engine API, checked against the consensus rules and the    *)
(* state it leads to, traced for downstream consumers and persisted.           *)
(*                                                                          *)
(* Composes StateCommitment (what the block does to the state) and             *)
(* BlockHeader (what its header says).                                         *)
(***************************************************************************)
EXTENDS StateCommitment, BlockHeader

CONSTANTS MaxHeight,     \* bound: blocks of the chain
          Gaps,          \* seconds from a block to its child
          PacayaFee,     \* base fee of blocks before Shasta
          ZkGas          \* zk gas a block measures, by what it executes

\* The protocol asks for a timestamp later than the parent's.  What a block
\* executes is told apart by its gas here.  That building, importing and replaying
\* the same body measure the same zk gas is not shown with this constant but in
\* BlockPipeline, on the meter and the executor themselves.
ASSUME ImportAssumption ==
    /\ Gaps \subseteq Nat \ {0}
    /\ ShastaTime \in Nat /\ UnzenTime \in Nat
    /\ PacayaFee \in Nat
    /\ ZkGas \in [0 .. GasLimit -> Nat]

VARIABLES
    head,        \* header of the persisted head
    grandTime,   \* timestamp of its parent
    attributes,  \* builder attributes of the running build
    honest,      \* whether they are what the protocol asks for (history)
    header,      \* header of the block between sealing and import
    feeChecked   \* whether its base fee was compared (history)

chainVars == <<head, grandTime, attributes, honest, header, feeChecked>>
vars == <<stateVars, chainVars>>

Nothing == "nothing"

Genesis ==
    [number |-> 0, timestamp |-> 0, baseFee |-> InitialBaseFee, gasUsed |-> 0, extra |-> "pacaya",
     difficulty |-> 0, withdrawalsRoot |-> EmptyRoot, beaconRoot |-> Absent, blobGas |-> Absent,
     requestsHash |-> Absent]

-----------------------------------------------------------------------------
(* The driver.                                                              *)

\* The base fee the protocol prescribes for a child of the head.
ProtocolBaseFee(timestamp) ==
    IF ~IsShastaActive(timestamp) THEN PacayaFee
    ELSE NextBaseFee(head, head.timestamp - grandTime)

\* Attributes as derived from L1: one timestamp, later than the parent's.
HonestAttributes(gap, root) ==
    LET t == head.timestamp + gap IN
    [timestamp |-> t, metaTimestamp |-> t, baseFee |-> ProtocolBaseFee(t),
     extra |-> IF IsShastaActive(t) THEN "shasta" ELSE "pacaya", beaconRoot |-> root]

\* Attributes with one thing wrong.
FaultyAttributes ==
    LET a == HonestAttributes(1, Absent)
        earlier == IF head.timestamp = 0 THEN 0 ELSE head.timestamp - 1 IN
    {[a EXCEPT !.metaTimestamp = head.timestamp],
     [a EXCEPT !.metaTimestamp = earlier],
     [a EXCEPT !.baseFee = @ + 1],
     [a EXCEPT !.extra = "empty"],
     [a EXCEPT !.beaconRoot = "other"]}

AttributesFromDriver(isHonest) ==
    IF isHonest THEN {HonestAttributes(g, Zero) : g \in Gaps} \cup {HonestAttributes(1, Absent)}
    ELSE FaultyAttributes

\* forkchoiceUpdatedV2 with attributes: a payload job starts on the head.
ForkchoiceUpdated ==
    /\ head.number < MaxHeight
    /\ honest' \in BOOLEAN
    /\ \E a \in AttributesFromDriver(honest') :
        /\ AttributesAccepted(a, head)
        /\ attributes' = BuilderAttributes(a)
        /\ OpenBlock(EthSpec(attributes'.timestamp) = "OSAKA")
    /\ UNCHANGED <<head, grandTime, header, feeChecked>>

\* The EVM runs the transactions.
ExecuteTransactions == ExecuteStep /\ UNCHANGED chainVars

\* getPayloadV2: the block is sealed.
GetPayload ==
    /\ SealBlock
    /\ \E gas \in {0, GasLimit} : header' = AssembleBlock(attributes, head, gas, ZkGas[gas])
    /\ UNCHANGED <<head, grandTime, attributes, honest, feeChecked>>

\* block_timestamp_by_hash: a provider error reads as a missing block.
GrandparentTimes == {grandTime, NoValue}

\* newPayloadV2 and what it runs: conversion, header rules, execution, the
\* expected difficulty and the state root.  The checks of the executed body
\* (receipts, its length under the zk gas limit, the anchor) are in BlockPipeline.
NewPayload ==
    /\ step = "sealed"
    /\ \E data \in {BlockToPayload(header)} \cup DriverPayloads(header), time \in GrandparentTimes :
        LET execution == PayloadExecution(data) IN
        IF /\ ConvertsToBlock(data)
           /\ ValidateHeader(header)
           /\ ValidateAgainstParent(header, head, time)
           /\ Visible(execution) = Visible(NextBlockExecution(attributes, head))
           /\ DifficultyMatches(execution, ZkGas[header.gasUsed])
        THEN /\ ValidateRoot
             /\ feeChecked' = (time # NoValue)
        ELSE /\ step' = "rejected"
             /\ UNCHANGED <<world, fresh, bundle, hashed, mirror, unzen, config, sealed, ops, feeChecked>>
    /\ UNCHANGED <<head, grandTime, attributes, honest, header>>

\* trace_debankBlock replays the block from its header.
Trace ==
    /\ step = "valid"
    /\ LET execution == BlockExecution(header) IN
       IF /\ Visible(execution) = Visible(NextBlockExecution(attributes, head))
          /\ DifficultyMatches(execution, ZkGas[header.gasUsed])
          /\ header.requestsHash = IF execution.ctx.unzen THEN EmptyRoot ELSE Absent
       THEN TraceBlock
       ELSE /\ step' = "rejected"
            /\ UNCHANGED <<world, fresh, bundle, hashed, mirror, unzen, config, sealed, ops>>
    /\ UNCHANGED chainVars

\* The block becomes the head.
Persist ==
    /\ PersistBlock
    /\ head' = header
    /\ grandTime' = head.timestamp
    /\ attributes' = Nothing
    /\ header' = Nothing
    /\ honest' = TRUE
    /\ feeChecked' = TRUE

\* The block is refused.
Abandon ==
    /\ AbandonBlock
    /\ attributes' = Nothing
    /\ header' = Nothing
    /\ honest' = TRUE
    /\ feeChecked' = TRUE
    /\ UNCHANGED <<head, grandTime>>

Init ==
    /\ StateInit
    /\ unzen.block = IsUnzenActive(Genesis.timestamp)
    /\ head = Genesis
    /\ grandTime = 0
    /\ attributes = Nothing
    /\ honest = TRUE
    /\ header = Nothing
    /\ feeChecked = TRUE

Next == ForkchoiceUpdated \/ ExecuteTransactions \/ GetPayload \/ NewPayload \/ Trace \/ Persist \/ Abandon

Spec == Init /\ [][Next]_vars

-----------------------------------------------------------------------------
(* Properties.                                                              *)

\* A block built from what the protocol asks for is never refused afterwards:
\* its header survives both ways through the engine API, obeys the rules of its
\* fork, and is executed and traced with the environment it was built with
\* (block_to_payload, getPayloadV2, convert_payload_to_block, validate_header,
\* evm_env_for_payload, build_storage_diff).  A trace that only fails for want of
\* a bytecode refuses nothing.
HonestBlockImports == honest => step # "rejected"

\* Once two Shasta blocks follow each other and the fee was compared, the base
\* fee stays between its bounds, rises only behind a block above the base target
\* or built fast, never by more than a quarter, and never falls to nothing
\* (calculate_next_block_eip4396_base_fee).
FeeStepsAreBounded ==
    [][head' # head /\ IsShastaActive(head'.timestamp) /\ feeChecked =>
        /\ head'.baseFee \in MinBaseFee..MaxBaseFee
        /\ IsShastaActive(head.timestamp) /\ head.number > 0 /\ head.baseFee \in MinBaseFee..MaxBaseFee =>
            /\ head'.baseFee > head.baseFee => head.gasUsed > AdjustedGasTarget(head.timestamp - grandTime)
            /\ 4 * (head'.baseFee - head.baseFee) <= head.baseFee + 4]_vars

\* Time never runs backwards along the chain, whatever the attributes say, so
\* that no block before Unzen has a parent under Unzen: the premise under which
\* payload_builder_may_share_sparse_trie looks at the parent alone.
ForksNeverRevert ==
    [][head' # head => /\ head'.timestamp >= head.timestamp
                       /\ IsUnzenActive(head.timestamp) => IsUnzenActive(head'.timestamp)]_vars
=============================================================================
