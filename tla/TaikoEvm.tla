------------------------------ MODULE TaikoEvm ------------------------------
(***************************************************************************)
(* The Taiko EVM (crates/evm) over the transactions of one metered block:   *)
(* the anchor context and the fee rules of its handler, its two homes for   *)
(* the zk gas meter (the production loop of a plain EVM, the hooks of an    *)
(* inspected one) and the wrapper that joins them.  One pass builds a block *)
(* with the block executor on a plain EVM; a second pass runs the same      *)
(* transactions on another kind of EVM, as the tracing and simulation RPCs  *)
(* do.  revm's interpreter is external: it appears as the steps a           *)
(* transaction takes, chosen in the first pass and repeated in the second.  *)
(***************************************************************************)
EXTENDS ZkGasMeter, Sequences, Functions

CONSTANTS
  BaseFee,             \* base fee per gas of the block
  Shares,              \* percentages of the base fee the extra data may give
  Funds,               \* balances the golden touch account may start with
  UserFunds,           \* balance of the user account
  AnchorTx,            \* the first transaction of the block
  Candidates,          \* the transactions that may follow it
  MaxTxs,              \* bound on the transactions of the block
  MaxEvents,           \* bound on the interpreter steps of the block
  IntrinsicGas,        \* EVM gas a transaction pays before its first frame
  Multiplier,          \* opcode_multipliers, by opcode
  PrecompileMultiplier,\* precompile_multipliers, by listed precompile
  FailsafeMultiplier,  \* FAILSAFE_MULTIPLIER
  SpawnEstimate,       \* spawn_estimates, by spawn opcode
  SystemCharge,        \* zk gas the block hash system calls run up
  RefundQuotient       \* a refund is at most the gas spent over this

Golden == "golden_touch"
User == "user"
Coinbase == "coinbase"
Treasury == "treasury"
Accounts == {Golden, User, Coinbase, Treasury}

(* validate_anchor_transaction refuses an anchor that is not a golden touch *)
(* call of the treasury, or whose tip is not zero; the protocol contracts   *)
(* bound the share.                                                         *)
ASSUME EvmAssumption ==
  /\ Shares \subseteq 0 .. 100
  /\ AnchorTx.caller = Golden
  /\ AnchorTx.to = Treasury
  /\ AnchorTx.tip = 0
  /\ SystemCharge \in 0 .. BlockLimit

VARIABLES
  share,    \* base fee share percentage of the block's extra data
  parent,   \* accounts of the parent state
  pass,     \* which execution is running
  evm,      \* the EVM of this pass
  db,       \* committed accounts of this pass
  journal,  \* accounts as the EVM's journal shows them
  plan,     \* in a second pass, the recorded transactions to run
  run,      \* the transaction being executed, or NoRun
  done,     \* what this pass recorded of each finished transaction
  halted    \* the pass executes no further transaction

vars == <<share, parent, pass, evm, db, journal, plan, run, done, halted>>

NoRun == [tx |-> AnchorTx, frames |-> << >>, events |-> << >>, meters |-> << >>,
          exempt |-> FALSE, left |-> 0, active |-> FALSE]

(* No extra execution context. *)
NoCtx == [share |-> 0, caller |-> "none", nonce |-> 0, authoritative |-> FALSE]

(* TaikoEvmExtraExecutionCtx::new and ::derived. *)
SystemCallCtx(pctg, nonce) ==
  [share |-> pctg, caller |-> Golden, nonce |-> nonce, authoritative |-> TRUE]

DerivedCtx(nonce) ==
  [share |-> 0, caller |-> Golden, nonce |-> nonce, authoritative |-> FALSE]

(* ---- The EVM a pass runs on ------------------------------------------- *)

(* The zk gas meter lives on the TaikoEvm of create_evm and on the          *)
(* inspector of create_evm_with_inspector, never on both.                   *)
CreateEvm ==
  [home |-> "production", inspect |-> FALSE, derive |-> TRUE, resets |-> TRUE,
   ctx |-> NoCtx, meter |-> NewMeter, pending |-> << >>]

CreateEvmWithInspector ==
  [home |-> "inspector", inspect |-> TRUE, derive |-> TRUE, resets |-> TRUE,
   ctx |-> NoCtx, meter |-> NewMeter, pending |-> << >>]

(* The block executor takes over the anchor context and the meter bracket. *)
NewExecutor(e) == [e EXCEPT !.derive = FALSE, !.resets = FALSE]

SetInspectorEnabled(e, enabled) ==
  IF enabled /\ e.home = "production" THEN e ELSE [e EXCEPT !.inspect = enabled]

(* Whether a run of e charges its meter: the production loop on a plain     *)
(* run, the hooks on an inspected one.                                      *)
Metered(e) == (e.home = "production") = ~e.inspect

ResetTransactionZkGas(e) ==
  [e EXCEPT !.meter = ResetTransaction(@), !.pending = << >>]

Passes == {"build", "trace", "simulate", "shared", "bundle"}

(* The passes the block executor drives, and the ones that call the EVM     *)
(* directly: a tracing replay over one EVM, and eth_callBundle.             *)
ByExecutor(p) == p \in {"build", "trace", "simulate"}

EvmOf(p) ==
  CASE p = "build"    -> NewExecutor(CreateEvm)
    [] p = "trace"    -> NewExecutor(CreateEvmWithInspector)
    [] p = "simulate" -> NewExecutor(CreateEvmWithInspector)
    [] p = "shared"   -> CreateEvmWithInspector
    [] p = "bundle"   -> CreateEvm

(* ---- Fees (handler.rs) ------------------------------------------------- *)

Min2(a, b) == IF a < b THEN a ELSE b

EffectiveGasPrice(t) == Min2(t.maxFee, BaseFee + t.tip)

Credit(a, who, amount) == [a EXCEPT ![who].balance = @ + amount]

IsAnchorTransaction(ctx, t) ==
  /\ ctx # NoCtx
  /\ ctx.caller = t.caller
  /\ ctx.nonce = t.nonce
  /\ t.to = Treasury

(* The transaction passes validation against the state. *)
StateAccepts(a, ctx, t) ==
  /\ t.maxFee >= BaseFee
  /\ a[t.caller].nonce = t.nonce
  /\ IsAnchorTransaction(ctx, t) \/ t.gasLimit * t.maxFee <= a[t.caller].balance

(* What validate_against_state_and_deduct_caller leaves in the journal: the *)
(* nonce is bumped before the balance is checked.                           *)
BumpNonce(a, t) == [a EXCEPT ![t.caller].nonce = @ + 1]

DeductCaller(a, ctx, t) ==
  LET spending == IF IsAnchorTransaction(ctx, t) THEN 0
                  ELSE t.gasLimit * EffectiveGasPrice(t)
  IN  [BumpNonce(a, t) EXCEPT ![t.caller].balance = SaturatingSub(@, spending)]

ReimburseCaller(a, ctx, t, left, refund) ==
  IF IsAnchorTransaction(ctx, t) THEN a
  ELSE Credit(a, t.caller, EffectiveGasPrice(t) * (left + refund))

RewardBeneficiary(a, ctx, t, used) ==
  LET tipped == Credit(a, Coinbase, SaturatingSub(EffectiveGasPrice(t), BaseFee) * used)
      total == BaseFee * used
      coinbase == (total * ctx.share) \div 100
  IN  IF ctx = NoCtx \/ IsAnchorTransaction(ctx, t) \/ ~ctx.authoritative THEN tipped
      ELSE Credit(Credit(tipped, Coinbase, coinbase),
                  Treasury, SaturatingSub(total, coinbase))

(* ---- Interpreter steps ------------------------------------------------- *)

(* One step: an opcode of some cost that continues, ends its frame          *)
(* ("stop"), runs out of gas ("oog"), faults, or opens a child frame or a   *)
(* precompile with forwarded gas, of which a precompile uses some.          *)
Event(op, halt, cost, child, forward, used) ==
  [op |-> op, halt |-> halt, cost |-> cost, child |-> child,
   forward |-> forward, used |-> used]

Precompiles == {"listed", "unlisted"}

Stop == Event("add", "stop", 0, "none", 0, 0)

EventsWith(gas) ==
  {Stop, Event("add", "fault", 0, "none", 0, 0)}
  \cup {Event(op, "oog", 0, "none", 0, 0) : op \in {"add", "call"}}
  \cup (IF gas >= 1 THEN {Event("add", "none", 1, "none", 0, 0)} ELSE {})
  \cup (IF gas >= 2 THEN {Event("call", "none", 1, "contract", f, 0) : f \in {1, gas - 1}}
                         \cup {Event("call", "none", 1, p, gas - 1, u) :
                                 p \in Precompiles, u \in {1, gas - 1}}
        ELSE {})

(* Gas left after Interpreter::step, and once a halt is materialized:       *)
(* running out of gas spends all that is left.                              *)
AfterStep(ev, before) == before - ev.cost - ev.forward

AfterHalt(ev, before) == IF ev.halt = "oog" THEN 0 ELSE AfterStep(ev, before)

IsSpawnOpcode(op) == op \in DOMAIN SpawnEstimate

OpcodeWork(op, raw) == [raw |-> raw, multiplier |-> Multiplier[op]]

SpawnWork(op) == OpcodeWork(op, SpawnEstimate[op])

PrecompileWork(p, used) ==
  [raw |-> used,
   multiplier |-> IF p \in DOMAIN PrecompileMultiplier THEN PrecompileMultiplier[p]
                  ELSE FailsafeMultiplier]

(* Mutant of PlainWork: the step is measured before the halt is             *)
(* materialized, as revm's own loop does.                                   *)
MeasuredBeforeHalt(ev, before) ==
  IF IsSpawnOpcode(ev.op) /\ ev.child # "none" THEN SpawnWork(ev.op)
  ELSE OpcodeWork(ev.op, SaturatingSub(before, AfterStep(ev, before)))

(* run_metered_plain: what the production loop charges for a step. *)
PlainWork(ev, before) ==
  IF IsSpawnOpcode(ev.op) /\ ev.child # "none" THEN SpawnWork(ev.op)
  ELSE OpcodeWork(ev.op, SaturatingSub(before, AfterHalt(ev, before)))

(* The inspector's begin_step and finish_step around the same step: the     *)
(* opcode and the gas are snapshot per depth before it, and paired with     *)
(* the gas left after it.                                                   *)
BeginStep(pending, depth, ev, before) ==
  [d \in 1 .. (IF depth > Len(pending) THEN depth ELSE Len(pending)) |->
     IF d = depth THEN [op |-> ev.op, gas |-> before]
     ELSE IF d <= Len(pending) THEN pending[d] ELSE [op |-> "add", gas |-> 0]]

FinishedWork(pending, depth, ev, after) ==
  LET op == pending[depth].op
  IN  IF IsSpawnOpcode(op) /\ ev.child # "none" THEN SpawnWork(op)
      ELSE OpcodeWork(op, SaturatingSub(pending[depth].gas, after))

(* The work charged for a step by the EVM e, whichever home meters it. *)
StepWork(e, depth, ev, before) ==
  IF e.inspect
  THEN FinishedWork(BeginStep(e.pending, depth, ev, before), depth, ev,
                    AfterHalt(ev, before))
  ELSE PlainWork(ev, before)

(* What frame_init (plain) or call_end (inspected) charges once a           *)
(* precompile returned: the forwarded gas it did not give back.             *)
PrecompileCharge(ev) ==
  PrecompileWork(ev.child, SaturatingSub(ev.forward, ev.forward - ev.used))

(* The charges of a step, in order. *)
Charges(e, depth, ev, before) ==
  IF ~Metered(e) THEN << >>
  ELSE IF ev.child \in Precompiles
       THEN <<StepWork(e, depth, ev, before), PrecompileCharge(ev)>>
       ELSE <<StepWork(e, depth, ev, before)>>

(* The first of the charges the meter refuses, if one is refused. *)
Charged(m, works) ==
  IF works = << >> THEN [meter |-> m, exceeded |-> FALSE]
  ELSE IF WorkExceeds(m, works[1]) THEN [meter |-> m, exceeded |-> TRUE]
  ELSE LET n == ChargeWork(m, works[1])
       IN  IF Len(works) = 1 THEN [meter |-> n, exceeded |-> FALSE]
           ELSE IF WorkExceeds(n, works[2]) THEN [meter |-> n, exceeded |-> TRUE]
           ELSE [meter |-> ChargeWork(n, works[2]), exceeded |-> FALSE]

(* The frames once a step is over: a child is pushed; a frame that ended    *)
(* gives its caller what it has left, nothing after a fault.                *)
FramesAfter(frames, ev) ==
  LET depth == Len(frames)
      before == frames[depth]
      after == AfterHalt(ev, before)
      back == IF ev.halt = "stop" THEN after ELSE 0
  IN  CASE ev.child = "contract" -> Append([frames EXCEPT ![depth] = after], ev.forward)
        [] ev.child \in Precompiles -> [frames EXCEPT ![depth] = after + ev.forward - ev.used]
        [] ev.child = "none" /\ ev.halt = "none" -> [frames EXCEPT ![depth] = after]
        [] OTHER -> IF depth = 1 THEN << >>
                    ELSE [SubSeq(frames, 1, depth - 1) EXCEPT ![depth - 1] = @ + back]

(* What the outermost frame has left when it ends. *)
LeftAfter(frames, ev) ==
  IF Len(frames) = 1 /\ ev.halt = "stop" THEN AfterHalt(ev, frames[1]) ELSE 0

(* ---- Transactions ------------------------------------------------------ *)

Account(balance) == [balance |-> balance, nonce |-> 0]

Init ==
  /\ share \in Shares
  /\ \E f \in Funds : parent = [a \in Accounts |->
                                  Account(IF a = Golden THEN f
                                          ELSE IF a = User THEN UserFunds ELSE 0)]
  /\ pass = "build"
  /\ evm = EvmOf("build")
  /\ db = parent
  /\ journal = parent
  /\ plan = << >>
  /\ run = NoRun
  /\ done = << >>
  /\ halted = FALSE

Entry(r, outcome, refund, used, accounts) ==
  [tx |-> r.tx, events |-> r.events, meters |-> r.meters, exempt |-> r.exempt,
   outcome |-> outcome, refund |-> refund, used |-> used, accounts |-> accounts]

(* Mutant of FinalizeFailed: the error is returned before the journal is    *)
(* finalized.                                                               *)
LeaveJournal(j) == j

(* transact_raw finalizes the journal before it propagates an error, and    *)
(* the caller drops the state it held.                                      *)
FinalizeFailed(j) == db

(* A regular system call: base fee, gas price and nonce check are off for   *)
(* its duration and only the contract's state is kept, so no account of     *)
(* this model changes; the steps it takes charge the meter in flight.       *)
TransactSystemCall(e) ==
  IF Metered(e) THEN [e EXCEPT !.meter = ChargeAmount(@, SystemCharge)] ELSE e

(* The anchor system call is a marker: it decodes the share and the golden  *)
(* touch nonce, installs them as the context and changes no account.        *)
AnchorSystemCall(e, pctg, nonce) == [e EXCEPT !.ctx = SystemCallCtx(pctg, nonce)]

(* apply_pre_execution_changes: the block hash system call runs on the      *)
(* meter of the pass, then the anchor system call installs the context.     *)
(* The tracing replay keeps its inspector off until both are over.          *)
PreExecution ==
  /\ ByExecutor(pass)
  /\ evm.ctx = NoCtx
  /\ LET entered == IF pass = "trace" THEN SetInspectorEnabled(evm, FALSE) ELSE evm
         marked == AnchorSystemCall(TransactSystemCall(entered), share, db[Golden].nonce)
     IN  evm' = IF pass = "trace" THEN SetInspectorEnabled(marked, TRUE) ELSE marked
  /\ UNCHANGED <<share, parent, pass, db, journal, plan, run, done, halted>>

(* Mutant of DeriveAnchorCtx: the nonce is read again for every             *)
(* transaction, so a later golden touch call is taken for the anchor.       *)
DeriveEveryTime(e, t) ==
  IF e.derive /\ t.caller = Golden /\ t.to = Treasury
  THEN [e EXCEPT !.ctx = DerivedCtx(db[Golden].nonce)]
  ELSE e

(* maybe_derive_anchor_execution_ctx. *)
DeriveAnchorCtx(e, t) ==
  IF e.derive /\ e.ctx = NoCtx /\ t.caller = Golden /\ t.to = Treasury
  THEN [e EXCEPT !.ctx = DerivedCtx(db[Golden].nonce)]
  ELSE e

(* A transaction ends in an error.  The executor gives its zk gas back; it  *)
(* executes nothing more once the budget is exhausted or the anchor failed, *)
(* and a second pass gives up.  What the loops around the executor do after *)
(* an error (the legacy builder goes on behind a failed anchor) and the     *)
(* executor's check of the block gas limit are in BlockPipeline and         *)
(* TaikoBlockExecutor; a pass here stops with its anchor, and nothing said  *)
(* below is about a block without one.                                      *)
Fail(e, r, outcome, j) ==
  /\ run' = NoRun
  /\ journal' = FinalizeFailed(j)
  /\ evm' = IF ByExecutor(pass) THEN ResetTransactionZkGas(e) ELSE e
  /\ done' = Append(done, Entry(r, outcome, 0, 0, db))
  /\ halted' = (outcome = "limit" \/ done = << >> \/ pass # "build")
  /\ UNCHANGED db

(* The bracket the executor opens before transact, and transact_raw's own   *)
(* reset for callers that have none.                                        *)
Opened(e) ==
  LET reset == IF ByExecutor(pass) \/ e.resets THEN ResetTransactionZkGas(e) ELSE e
  IN  IF ByExecutor(pass) /\ ~ChargeExceeds(reset.meter, TxIntrinsic)
      THEN [reset EXCEPT !.meter = ChargeAmount(@, TxIntrinsic)]
      ELSE reset

IntrinsicExceeds ==
  ByExecutor(pass) /\ ChargeExceeds(ResetTransaction(evm.meter), TxIntrinsic)

NextTransactions ==
  IF pass # "build" THEN IF Len(done) < Len(plan) THEN {plan[Len(done) + 1].tx} ELSE {}
  ELSE IF done = << >> THEN {AnchorTx}
  ELSE IF Len(done) < MaxTxs THEN Candidates ELSE {}

StartTransaction(t) ==
  /\ ~run.active
  /\ ~halted
  /\ ByExecutor(pass) => evm.ctx # NoCtx
  /\ LET e == DeriveAnchorCtx(Opened(evm), t)
         r == [NoRun EXCEPT !.tx = t, !.meters = <<e.meter.tx>>,
                            !.exempt = IsAnchorTransaction(e.ctx, t)]
     IN  \/ IntrinsicExceeds /\ Fail(evm, [NoRun EXCEPT !.tx = t], "limit", journal)
         \/ /\ ~IntrinsicExceeds
            /\ ~StateAccepts(journal, e.ctx, t)
            /\ Fail(e, r, "invalid",
                    IF t.maxFee >= BaseFee /\ journal[t.caller].nonce = t.nonce
                    THEN BumpNonce(journal, t) ELSE journal)
         \/ /\ ~IntrinsicExceeds
            /\ StateAccepts(journal, e.ctx, t)
            /\ evm' = e
            /\ journal' = DeductCaller(journal, e.ctx, t)
            /\ run' = [r EXCEPT !.active = TRUE, !.frames = <<t.gasLimit - IntrinsicGas>>]
            /\ UNCHANGED <<db, done, halted>>
  /\ UNCHANGED <<share, parent, pass, plan>>

(* Steps recorded so far in this pass. *)
EventsTaken ==
  Len(run.events) + FoldFunction(+, 0, [i \in DOMAIN done |-> Len(done[i].events)])

(* A transaction that calls a precompile directly has no frame to run: the  *)
(* precompile is its only event.                                            *)
DirectPrecompile(gas) ==
  {Event("none", "stop", 0, run.tx.to, gas, u) : u \in {1, gas}}

NextEvents ==
  IF pass # "build" THEN {plan[Len(done) + 1].events[Len(run.events) + 1]}
  ELSE IF run.tx.to \in Precompiles THEN DirectPrecompile(run.frames[1])
  ELSE IF EventsTaken < MaxEvents THEN EventsWith(run.frames[Len(run.frames)])
  ELSE {Stop}

(* One step of the running transaction, or the precompile it calls, with    *)
(* its charges.  A charge over the budget replaces whatever the step chose  *)
(* by the fatal zk gas halt, which surfaces as the transaction's error.     *)
Step(ev) ==
  /\ run.active
  /\ run.frames # << >>
  /\ LET depth == Len(run.frames)
         before == run.frames[depth]
         direct == ev.op = "none"
         works == IF ~direct THEN Charges(evm, depth, ev, before)
                  ELSE IF Metered(evm) THEN <<PrecompileCharge(ev)>> ELSE << >>
         result == Charged(evm.meter, works)
         e == [evm EXCEPT !.meter = result.meter,
                          !.pending = IF direct \/ ~evm.inspect THEN @
                                      ELSE BeginStep(@, depth, ev, before)]
         r == [run EXCEPT !.events = Append(@, ev),
                          !.meters = Append(@, result.meter.tx)]
     IN  \/ result.exceeded /\ Fail(e, r, "limit", journal)
         \/ /\ ~result.exceeded
            /\ evm' = e
            /\ run' = [r EXCEPT !.frames = IF direct THEN << >> ELSE FramesAfter(@, ev),
                                !.left = IF direct THEN before - ev.used
                                         ELSE LeftAfter(run.frames, ev)]
            /\ UNCHANGED <<db, journal, done, halted>>
  /\ UNCHANGED <<share, parent, pass, plan>>

Refunds ==
  IF pass # "build" THEN {plan[Len(done) + 1].refund}
  ELSE IF run.left = 0 THEN {0}
  ELSE 0 .. Min2(1, (run.tx.gasLimit - run.left) \div RefundQuotient)

(* The transaction's outermost frame is over: the caller is reimbursed, the *)
(* beneficiary rewarded and the journal finalized.  The executor then       *)
(* commits the zk gas; the state goes to the database in every pass.        *)
EndTransaction(refund) ==
  /\ run.active
  /\ run.frames = << >>
  /\ LET used == run.tx.gasLimit - run.left - refund
         a == RewardBeneficiary(
                ReimburseCaller(journal, evm.ctx, run.tx, run.left, refund),
                evm.ctx, run.tx, used)
     IN  IF ByExecutor(pass) /\ CommitWouldExceed(evm.meter)
         THEN Fail(evm, run, "limit", a)
         ELSE /\ db' = a
              /\ journal' = a
              /\ evm' = IF ByExecutor(pass)
                        THEN [evm EXCEPT !.meter = CommitTransaction(@)] ELSE evm
              /\ done' = Append(done, Entry(run, "ok", refund, used, a))
              /\ run' = NoRun
              /\ UNCHANGED halted
  /\ UNCHANGED <<share, parent, pass, plan>>

(* The block is sealed; a second pass starts from the parent state.  A      *)
(* simulation runs the candidates, the others the block's own transactions. *)
SecondPass(p) ==
  /\ pass = "build"
  /\ ~run.active
  /\ done # << >>
  /\ done[1].outcome = "ok"
  /\ pass' = p
  /\ plan' = IF p = "simulate" THEN done
             ELSE SelectSeq(done, LAMBDA x : x.outcome = "ok")
  /\ evm' = EvmOf(p)
  /\ db' = parent
  /\ journal' = parent
  /\ run' = NoRun
  /\ done' = << >>
  /\ halted' = FALSE
  /\ UNCHANGED <<share, parent>>

Next ==
  \/ PreExecution
  \/ \E t \in NextTransactions : StartTransaction(t)
  \/ run.active /\ run.frames # << >> /\ \E ev \in NextEvents : Step(ev)
  \/ run.active /\ run.frames = << >> /\ \E refund \in Refunds : EndTransaction(refund)
  \/ \E p \in Passes \ {"build"} : SecondPass(p)

Spec == Init /\ [][Next]_vars

(* ---- Properties -------------------------------------------------------- *)

Total(a) == FoldFunction(+, 0, [who \in Accounts |-> a[who].balance])

(* Under the block executor every unit of fee a transaction pays reaches    *)
(* the coinbase or the treasury, and an anchor moves no balance: whatever   *)
(* was refunded, halted, refused or cut off by the zk gas limit, the total  *)
(* of the balances between transactions is the parent's                     *)
(* (reward_beneficiary, reimburse_caller and                                *)
(* validate_against_state_and_deduct_caller, handler.rs).                   *)
FeesConserved ==
  ByExecutor(pass) /\ ~run.active =>
    Total(db) = Total(parent) /\ Total(journal) = Total(parent)

(* A raw pass charges no intrinsic zk gas. *)
MeterOffset == IF ByExecutor(pass) THEN 0 ELSE TxIntrinsic

(* The inspector's hooks and the production loop charge the same zk gas:    *)
(* after every step of a second pass, on either home and however the pass   *)
(* brackets its transactions, the transaction's in-flight zk gas is what    *)
(* the build had after the same step, so a trace measures the zk gas that   *)
(* the header's difficulty commits to (adapter.rs, runtime.rs:18-28).       *)
MeteringParity ==
  pass # "build" /\ run.active =>
    \A i \in 1 .. Len(run.meters) :
       run.meters[i] + MeterOffset = plan[Len(done) + 1].meters[i]

(* A second pass sees the block the build sealed: each transaction ends as  *)
(* it did there, with the same gas used and the same anchor exemption, and  *)
(* under the executor with the same accounts (transact_raw and              *)
(* maybe_derive_anchor_execution_ctx, alloy.rs).                            *)
ReplayAgrees ==
  pass # "build" =>
    \A i \in DOMAIN done :
       /\ done[i].outcome = plan[i].outcome
       /\ done[i].used = plan[i].used
       /\ done[i].exempt = plan[i].exempt
       /\ ByExecutor(pass) => done[i].accounts = plan[i].accounts
=============================================================================
