---------------------------- MODULE BlockPipeline ----------------------------
(***************************************************************************)
(* One transaction list through the four drivers of the block executor:     *)
(*   build    execute_provided_transactions (crates/payload), then sealing, *)
(*   import   plain execution of the sealed block and consensus checks,     *)
(*   witness  debug_executionWitnessForTxList's replay of the list,         *)
(*   prove    execute_block_with_committed_transactions on the list.        *)
(* Each driver has a fresh executor and its own filtering rules.  A block   *)
(* of another node enters at import instead.                                *)
(***************************************************************************)
EXTENDS TaikoBlockExecutor

CONSTANTS
  Lists,          \* the raw transaction lists a block may be derived from
  ForeignBlocks,  \* blocks received from other nodes, valid or not
  Anchors,        \* transactions that pass validate_anchor_transaction
  Disallowed,     \* transactions of a type is_allowed_tx_type refuses
  Unrecoverable   \* transactions whose signer cannot be recovered

(* The derivation puts the anchor first in every list.  A received block is *)
(* executed only once the signers of its whole body are recovered.          *)
ASSUME PipelineAssumption ==
  /\ \A b \in ForeignBlocks :
       /\ b.body \in Seq(Txs) /\ b.difficulty \in U64
       /\ \A i \in DOMAIN b.body : b.body[i] \notin Unrecoverable
  /\ Anchors \subseteq Txs /\ Disallowed \subseteq Txs /\ Unrecoverable \subseteq Txs
  /\ Anchors \cap (Disallowed \cup Unrecoverable) = {}
  /\ \A txs \in Lists :
       /\ txs \in Seq(Txs)
       /\ txs # <<>> => txs[1] \in Anchors

VARIABLES
  list,      \* the raw list
  driver,    \* the driver at work, or done
  todo,      \* what it has yet to execute
  atAnchor,  \* the next transaction is the one at index 0
  awaiting,  \* a call of the executor is in progress
  block,     \* the sealed block: body and difficulty
  outcome    \* what each driver ended with

driverVars == <<list, driver, todo, atAnchor, awaiting, block, outcome>>
allVars == <<vars, driverVars>>

Drivers == {"build", "import", "witness", "prove"}

NoBlock == [body |-> <<>>, difficulty |-> -1]
Pending == [verdict |-> "pending", txs |-> <<>>, zkGas |-> 0, state |-> GenesisState]

Verdicts == {"pending", "ok", "failed", "cancelled", "rejected"}

PipelineTypeOK ==
  /\ TypeOK
  /\ list \in Seq(Txs)
  /\ driver \in Drivers \cup {"done"}
  /\ todo \in Seq(Txs)
  /\ atAnchor \in BOOLEAN
  /\ awaiting \in BOOLEAN
  /\ block.body \in Seq(Txs) /\ block.difficulty \in U64 \cup {-1}
  /\ outcome \in [Drivers -> [verdict : Verdicts, txs : Seq(Txs), zkGas : U64, state : States]]

(* decode_recovered_transactions: unrecoverable transactions are dropped.   *)
DecodeRecovered(txs) ==
  LET kept[n \in 0 .. Len(txs)] ==
        IF n = 0 THEN <<>>
        ELSE IF txs[n] \in Unrecoverable THEN kept[n - 1]
        ELSE Append(kept[n - 1], txs[n])
  IN  kept[Len(txs)]

PipelineInit ==
  /\ Init
  /\ \/ /\ list \in Lists
        /\ driver = "build"
        /\ todo = DecodeRecovered(list)
        /\ block = NoBlock
     \/ /\ block \in ForeignBlocks
        /\ list = block.body
        /\ driver = "import"
        /\ todo = block.body
  /\ atAnchor = TRUE
  /\ awaiting = FALSE
  /\ outcome = [d \in Drivers |-> Pending]

-----------------------------------------------------------------------------
(* Starting a driver: a new executor on the parent state.                   *)
NewExecutor ==
  /\ meter' = NewMeter
  /\ published' = 0
  /\ exhausted' = FALSE
  /\ gasUsed' = 0
  /\ state' = GenesisState
  /\ receipts' = <<>>
  /\ reserved' = 0
  /\ phase' = "ready"
  /\ cur' = NoTx
  /\ pos' = 0
  /\ result' = "none"

StartDriver(d, txs) ==
  /\ driver' = d
  /\ todo' = txs
  /\ atAnchor' = TRUE
  /\ awaiting' = FALSE
  /\ NewExecutor
  /\ UNCHANGED list

(* Which driver runs next on what.  A block that was never sealed here has  *)
(* no list to replay or prove.                                              *)
Follow ==
  IF outcome["build"].verdict # "ok" THEN StartDriver("done", <<>>)
  ELSE CASE driver = "import"  -> StartDriver("witness", DecodeRecovered(list))
         [] driver = "witness" -> StartDriver("prove", list)
         [] OTHER              -> StartDriver("done", <<>>)

End(verdict) ==
  /\ outcome' = [outcome EXCEPT ![driver] =
       [verdict |-> verdict, txs |-> receipts, zkGas |-> published, state |-> state]]
  /\ Follow
  /\ UNCHANGED block

-----------------------------------------------------------------------------
(* The loops over the list.                                                 *)

Working == driver \in Drivers /\ ~awaiting /\ phase = "ready" /\ todo # <<>>

(* Mutant of SkipsSilently: the builder does not filter by transaction type. *)
BuildTakesAllTypes(tx) ==
  CASE driver = "witness" -> tx \in Disallowed /\ ~atAnchor
    [] driver = "prove"   -> tx \in Unrecoverable /\ ~atAnchor
    [] OTHER              -> FALSE

(* Transactions a driver passes over without calling the executor.          *)
SkipsSilently(tx) ==
  CASE driver = "build"   -> tx \in Disallowed
    [] driver = "witness" -> tx \in Disallowed /\ ~atAnchor
    [] driver = "prove"   -> tx \in Unrecoverable /\ ~atAnchor
    [] OTHER              -> FALSE

Advance ==
  /\ todo' = Tail(todo)
  /\ atAnchor' = FALSE
  /\ awaiting' = FALSE
  /\ UNCHANGED <<list, driver, block, outcome>>

StopLoop ==
  /\ todo' = <<>>
  /\ atAnchor' = FALSE
  /\ awaiting' = FALSE
  /\ UNCHANGED <<list, driver, block, outcome>>

Skip ==
  /\ Working
  /\ SkipsSilently(Head(todo))
  /\ Advance
  /\ UNCHANGED vars

(* Only the payload job can be cancelled, between transactions.             *)
Cancel ==
  /\ Working
  /\ driver = "build"
  /\ End("cancelled")

(* execute_transaction begins. *)
Call ==
  /\ Working
  /\ ~SkipsSilently(Head(todo))
  /\ RefuseExhausted \/ RefuseGasLimit(Head(todo)) \/ StartTransact(Head(todo))
  /\ awaiting' = TRUE
  /\ UNCHANGED <<list, driver, todo, atAnchor, block, outcome>>

(* execute_transaction goes on; these drivers always commit. *)
Execute ==
  /\ awaiting
  /\ TransactInvalid \/ TransactFatal \/ TransactCharge \/ TransactDone \/ Commit
  /\ UNCHANGED driverVars

(* is_recoverable_non_anchor_tx_error. *)
Recoverable == {"zk_limit", "invalid_tx", "gas_limit"}

(* What the driver does with the answer. *)
Returned == awaiting /\ phase = "ready"

(* Mutant of BuildReturn: a transaction over the block gas ends the block. *)
BuildStopsOnGasLimit ==
  /\ Returned /\ driver = "build"
  /\ \/ result \in {"committed", "invalid_tx"} /\ Advance /\ UNCHANGED vars
     \/ result \in {"zk_limit", "gas_limit"} /\ StopLoop /\ UNCHANGED vars
     \/ result = "fatal" /\ End("failed")

BuildReturn ==
  /\ Returned /\ driver = "build"
  /\ \/ result \in {"committed", "invalid_tx", "gas_limit"} /\ Advance /\ UNCHANGED vars
     \/ result = "zk_limit" /\ StopLoop /\ UNCHANGED vars
     \/ result = "fatal" /\ End("failed")

ImportReturn ==
  /\ Returned /\ driver = "import"
  /\ \/ result = "committed" /\ Advance /\ UNCHANGED vars
     \/ result = "fatal" /\ End("failed")
     \/ result \in Recoverable /\ End("rejected")

WitnessReturn ==
  /\ Returned /\ driver = "witness"
  /\ \/ result = "committed" /\ Advance /\ UNCHANGED vars
     \/ result \in Recoverable \ {"zk_limit"} /\ ~atAnchor /\ Advance /\ UNCHANGED vars
     \/ result = "zk_limit" /\ ~atAnchor /\ StopLoop /\ UNCHANGED vars
     \/ (result = "fatal" \/ (result \in Recoverable /\ atAnchor)) /\ End("failed")

(* Mutant of ProveReturn: any filtered transaction ends the block. *)
ProverStopsOnAnyError ==
  /\ Returned /\ driver = "prove"
  /\ \/ result = "committed" /\ Advance /\ UNCHANGED vars
     \/ result \in Recoverable /\ ~atAnchor /\ StopLoop /\ UNCHANGED vars
     \/ (result = "fatal" \/ (result \in Recoverable /\ atAnchor)) /\ End("failed")

(* The prover looks at the sticky flag rather than at the error. *)
ProveReturn ==
  /\ Returned /\ driver = "prove"
  /\ IF result = "committed" \/ (result \in Recoverable /\ ~atAnchor)
     THEN (IF exhausted THEN StopLoop ELSE Advance) /\ UNCHANGED vars
     ELSE End("failed")

-----------------------------------------------------------------------------
(* Mutant of ExpectedDifficulty: import does not check the difficulty. *)
DifficultyUncheckedOnImport ==
  IF driver = "witness" THEN block.difficulty ELSE NoExpectation

(* After the loop: finish, with the header's difficulty where there is one. *)
ExpectedDifficulty ==
  IF driver \in {"import", "witness"} THEN block.difficulty ELSE NoExpectation

FinishBlock ==
  /\ driver \in Drivers
  /\ ~awaiting
  /\ todo = <<>>
  /\ Finish(ExpectedDifficulty)
  /\ UNCHANGED driverVars

(* assemble_block: the body and the published zk gas as difficulty. *)
Seal ==
  /\ driver = "build" /\ phase = "finished"
  /\ block' = [body |-> receipts, difficulty |-> published]
  /\ outcome' = [outcome EXCEPT !["build"] =
       [verdict |-> "ok", txs |-> receipts, zkGas |-> published, state |-> state]]
  /\ StartDriver("import", receipts)

(* Consensus checks around the execution of the imported block. *)
ConsensusAccepts ==
  /\ \A i \in DOMAIN block.body : block.body[i] \notin Disallowed
  /\ Len(block.body) = Len(receipts)
  /\ block.body = <<>> \/ block.body[1] \in Anchors

Conclude ==
  /\ driver \in {"import", "witness", "prove"} /\ phase = "finished"
  /\ IF result = "difficulty_mismatch" \/ (driver = "import" /\ ~ConsensusAccepts)
     THEN End("rejected")
     ELSE End("ok")

PipelineNext ==
  \/ Skip \/ Cancel \/ Call \/ Execute
  \/ BuildReturn \/ ImportReturn \/ WitnessReturn \/ ProveReturn
  \/ FinishBlock \/ Seal \/ Conclude

(* Every driver is a plain loop: it keeps taking steps.                     *)
PipelineSpec == PipelineInit /\ [][PipelineNext]_allVars /\ WF_allVars(PipelineNext)

-----------------------------------------------------------------------------
(* Properties.                                                              *)

AnchorCommitted == block.body # <<>> /\ block.body[1] \in Anchors

Built == outcome["build"].verdict = "ok"

(* The node never rejects a block it built itself, except for a missing     *)
(* anchor: what building tolerates (skips, truncation, the sealed           *)
(* difficulty) is exactly what importing recomputes.  An accepted import    *)
(* ends in the builder's state and zk gas.                                  *)
ImportReproducesBuild ==
  Built =>
    /\ outcome["import"].verdict = "rejected" => block.body # <<>> /\ ~AnchorCommitted
    /\ outcome["import"].verdict = "ok" => outcome["import"] = outcome["build"]

(* Replaying the list for a witness selects the built transactions, meets   *)
(* the header's difficulty and touches the same state; and on a list        *)
(* without disallowed types the prover's filter, which stops on the sticky  *)
(* flag and skips unrecoverable signers itself, commits what the builder    *)
(* committed.                                                               *)
ReplaysReproduceBuild ==
  Built /\ AnchorCommitted =>
    /\ outcome["witness"].verdict \in {"ok", "rejected"} => outcome["witness"] = outcome["build"]
    /\ /\ \A i \in DOMAIN list : list[i] \notin Disallowed
       /\ outcome["prove"].verdict \in {"ok", "rejected"}
       => outcome["prove"] = outcome["build"]

(* What a block made of a list should contain, without executor or meter:   *)
(* take each acceptable transaction whose gas and zk gas fit, and stop at   *)
(* the first whose zk gas does not.                                         *)
NothingTaken ==
  [body |-> <<>>, state |-> GenesisState, zk |-> 0, gas |-> 0, stop |-> FALSE]

Taken(before, tx) ==
  LET run == Run[tx][before.state]
      zk == before.zk + (IF run.valid THEN TxZkGas(tx, before.state) ELSE TxIntrinsic)
  IN  IF \/ before.stop
         \/ tx \in Disallowed \cup Unrecoverable
         \/ before.gas + GasLimit[tx] > BlockGasLimit
      THEN before
      ELSE IF zk > BlockLimit THEN [before EXCEPT !.stop = TRUE]
      ELSE IF ~run.valid THEN before
      ELSE [body |-> Append(before.body, tx), state |-> run.next, zk |-> zk,
            gas |-> before.gas + run.gas, stop |-> FALSE]

(* What is taken of each prefix of a list. *)
TakenOf(txs) ==
  LET take[n \in 0 .. Len(txs)] ==
        IF n = 0 THEN NothingTaken ELSE Taken(take[n - 1], txs[n])
  IN  take

ReferenceBody(txs) == TakenOf(txs)[Len(txs)].body

(* Building selects exactly the reference body. *)
BodyIsReference ==
  Built => block.body = ReferenceBody(list)

(* Import accepts exactly the blocks a builder could have sealed from their *)
(* own body: every transaction fits and runs, the difficulty is the zk gas  *)
(* of the body, and a non-empty body starts with the anchor.                *)
ImportIsExact ==
  outcome["import"].verdict \in {"ok", "rejected"} =>
    LET b == block.body
    IN  (outcome["import"].verdict = "ok") <=>
          /\ \A i \in DOMAIN b : b[i] \notin Disallowed
          /\ ReferenceBody(b) = b
          /\ block.difficulty = Replay(b).zkGas
          /\ b # <<>> => b[1] \in Anchors
=============================================================================
