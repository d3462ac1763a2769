----------------------------- MODULE TxSelection -----------------------------
(***************************************************************************)
(* select_and_execute_pool_transactions (crates/block/src/tx_selection) on  *)
(* the block executor, as its two callers use it: the payload builder's     *)
(* pool mode (an anchor, then one list) and taikoAuth_txPoolContent (a zk   *)
(* gas reservation, then several lists).  Calls follow one another on the   *)
(* caller's overflow memory; other calls may update it in between.          *)
(***************************************************************************)
EXTENDS TaikoBlockExecutor, FiniteSetsExt

CONSTANTS
  Seeds,        \* parent hash and block environment, hashed by selection_state_seed
  StartState,   \* the EVM state a seed stands for
  Requests,     \* the calls: mode, seed, pool order, locals, min_tip
  Senders, Sender, Tip,
  Allowed,      \* transactions whose type is_allowed_tx_type accepts
  NonceTooLow,  \* of the invalid transactions, those the EVM finds outdated
  DaSize,       \* tx_estimated_size_fjord_bytes
  ZlibSize,     \* a transaction's share of the compressed list
  MaxDa, Guard, \* max_da_bytes_per_list, da_size_zlib_guard_bytes
  Anchor, AnchorGasLimit, AnchorReserve,
  RpcGasPerList, RpcMaxLists,
  MaxCalls, MaxForeign  \* bounds: selections, updates of the memory by other calls

Modes == {"payload", "rpc"}

(* taikoAuth's block gas limit is the lists' combined one (checked_mul),    *)
(* and it refuses a request for no list at all.  The Fjord estimate of a    *)
(* transaction has a minimum.                                               *)
ASSUME SelectionAssumption ==
  /\ \A r \in Requests : /\ r.mode \in Modes /\ r.seed \in Seeds
                         /\ r.pool \in Seq(Txs \ {Anchor}) /\ r.minTip \in Nat
  /\ Sender \in [Txs -> Senders] /\ Tip \in [Txs -> Nat]
  /\ StartState \in [Seeds -> States]
  /\ DaSize \in [Txs -> Nat \ {0}] /\ ZlibSize \in [Txs -> Nat]
  /\ MaxDa \in Nat /\ Guard \in Nat
  /\ Anchor \in Txs /\ GasLimit[Anchor] = AnchorGasLimit
  /\ RpcGasPerList \in Nat /\ RpcMaxLists \in Nat \ {0}
  /\ BlockGasLimit = RpcGasPerList * RpcMaxLists
  /\ AnchorReserve \in Reservations

VARIABLES
  overflows,   \* per caller, the ZkOverflowMemory: transaction to digest
  request,     \* the call in progress
  step,        \* idle, setup, anchor, loop, call
  todo,        \* what best_txs has yet to yield
  digest,      \* state: the digest of the state the next candidate runs on
  lists,       \* the ExecutedTxLists
  ratios,      \* da_guard_states, one per list
  firstGas,    \* first_time_overflow_gas
  rerunGas,    \* rerun_overflow_gas
  remembered,  \* the digest read for the candidate, or NoDigest
  capped,      \* history: a cap skipped a candidate or stopped the call
  answer,      \* how the last call ended
  calls, foreign

selVars == <<overflows, request, step, todo, digest, lists, ratios, firstGas, rerunGas,
             remembered, capped, answer, calls, foreign>>
allVars == <<vars, selVars>>

NoDigest == <<>>

(* keccak256 is taken as injective: a digest is what was hashed. *)
SelectionStateSeed(seed) == <<seed>>
AdvanceSelectionState(d, tx) == Append(d, tx)

EmptyList == [txs |-> <<>>, gas |-> 0, da |-> 0]
RATIO_SCALE == 100
DefaultRatio == [max |-> RATIO_SCALE, mid |-> FALSE, high |-> FALSE]

GasPerList == IF request.mode = "rpc" THEN RpcGasPerList
              ELSE SaturatingSub(BlockGasLimit, AnchorGasLimit)
MaxLists == IF request.mode = "rpc" THEN RpcMaxLists ELSE 1

SelTypeOK ==
  /\ TypeOK
  /\ overflows \in [Modes -> [Txs -> Seq(Seeds \cup Txs)]]
  /\ request \in Requests
  /\ step \in {"idle", "setup", "anchor", "loop", "call"}
  /\ todo \in Seq(Txs)
  /\ \A i \in DOMAIN lists : lists[i].txs \in Seq(Txs)
  /\ Len(ratios) = Len(lists)
  /\ answer \in {"none", "completed", "cancelled", "error"}

SelInit ==
  /\ Init
  /\ overflows = [m \in Modes |-> [tx \in Txs |-> NoDigest]]
  /\ request \in Requests
  /\ step = "idle"
  /\ todo = <<>>
  /\ digest = NoDigest
  /\ lists = <<EmptyList>>
  /\ ratios = <<DefaultRatio>>
  /\ firstGas = 0 /\ rerunGas = 0
  /\ remembered = NoDigest
  /\ capped = FALSE
  /\ answer = "none"
  /\ calls = 0 /\ foreign = 0

-----------------------------------------------------------------------------
(* limits.rs.                                                               *)

(* zlib_tx_list_size_bytes, up to what the limit tells apart. *)
ZlibTxListSize(txs) ==
  LET size[n \in 0 .. Len(txs)] == IF n = 0 THEN 0 ELSE size[n - 1] + ZlibSize[txs[n]]
  IN  size[Len(txs)]

RatioThreshold(percent) == (MaxDa * percent) \div 100

ShouldSampleRatio(ratio, est) ==
  \/ ~ratio.mid /\ est >= RatioThreshold(50)
  \/ ~ratio.high /\ est >= RatioThreshold(80)

UpdateRatioState(ratio, est, actual) ==
  [max |-> IF est > 0 THEN Max({ratio.max, (actual * RATIO_SCALE) \div est}) ELSE ratio.max,
   mid |-> ratio.mid \/ est >= RatioThreshold(50),
   high |-> ratio.high \/ est >= RatioThreshold(80)]

(* Mutant of RunsZlib: exclusive guard boundary, no sampling. *)
RunsZlibLate(ratio, est) == est + Guard > MaxDa + 1

RunsZlib(ratio, est) ==
  \/ est + Guard >= MaxDa
  \/ (est * ratio.max) \div RATIO_SCALE > MaxDa
  \/ ShouldSampleRatio(ratio, est)

(* exceeds_list_limits: whether tx exceeds the list, and the ratio state it *)
(* leaves, whatever becomes of the transaction.                             *)
ExceedsListLimits(list, ratio, tx) ==
  LET est == list.da + DaSize[tx]
      measured == est <= MaxDa /\ Guard > 0 /\ RunsZlib(ratio, est)
      actual == ZlibTxListSize(Append(list.txs, tx))
  IN  [exceeds |-> \/ list.gas + GasLimit[tx] > GasPerList
                   \/ est > MaxDa
                   \/ measured /\ actual > MaxDa,
       ratio |-> IF measured THEN UpdateRatioState(ratio, est, actual) ELSE ratio]

-----------------------------------------------------------------------------
(* The call, up to its loop.                                                *)

Begin(r) ==
  /\ step = "idle" /\ calls < MaxCalls
  /\ request' = r /\ step' = "setup" /\ answer' = "none" /\ calls' = calls + 1
  /\ todo' = <<>> /\ digest' = SelectionStateSeed(r.seed)
  /\ lists' = <<EmptyList>> /\ ratios' = <<DefaultRatio>>
  /\ firstGas' = 0 /\ rerunGas' = 0 /\ remembered' = NoDigest
  /\ capped' = FALSE
  /\ meter' = NewMeter /\ published' = 0 /\ exhausted' = FALSE /\ gasUsed' = 0
  /\ state' = StartState[r.seed] /\ receipts' = <<>> /\ reserved' = 0
  /\ phase' = "ready" /\ cur' = NoTx /\ pos' = 0 /\ result' = "none"
  /\ UNCHANGED <<overflows, foreign>>

Return(a) ==
  /\ step' = "idle" /\ answer' = a
  /\ UNCHANGED <<overflows, request, todo, digest, lists, ratios, firstGas, rerunGas,
                 remembered, capped, calls, foreign>>

(* retain, then best_transactions: the loop starts on digest d. *)
EnterLoop(d) ==
  /\ overflows' = [overflows EXCEPT ![request.mode] =
       [tx \in Txs |-> IF tx \in Range(request.pool) THEN @[tx] ELSE NoDigest]]
  /\ step' = "loop" /\ todo' = request.pool /\ digest' = d
  /\ UNCHANGED <<request, lists, ratios, firstGas, rerunGas, remembered, capped,
                 answer, calls, foreign>>

(* taikoAuth_txPoolContent reserves the anchor's share; it runs no anchor.  *)
ReserveForAnchor ==
  /\ step = "setup" /\ request.mode = "rpc"
  /\ Reserve(AnchorReserve)
  /\ IF result' = "reserved" THEN EnterLoop(digest) ELSE Return("error")

(* The builder's pool mode executes the anchor first. *)
ExecuteAnchor ==
  /\ step = "setup" /\ request.mode = "payload"
  /\ StartTransact(Anchor) \/ RefuseGasLimit(Anchor)
  /\ step' = "anchor"
  /\ UNCHANGED <<overflows, request, todo, digest, lists, ratios, firstGas, rerunGas,
                 remembered, capped, answer, calls, foreign>>

AnchorCommitted ==
  /\ step = "anchor" /\ phase = "executed"
  /\ Commit
  /\ EnterLoop(AdvanceSelectionState(digest, Anchor))

AnchorFailed ==
  /\ step = "anchor" /\ phase = "ready"
  /\ Return("error")
  /\ UNCHANGED vars

-----------------------------------------------------------------------------
(* One candidate.                                                           *)

InLoop == step = "loop" /\ todo # <<>>
Candidate == Head(todo)

(* mark_invalid: best_txs yields none of the sender's later transactions.   *)
WithoutSender(sender, txs) ==
  LET kept[n \in 0 .. Len(txs)] ==
        IF n = 0 THEN <<>>
        ELSE IF Sender[txs[n]] = sender THEN kept[n - 1] ELSE Append(kept[n - 1], txs[n])
  IN  kept[Len(txs)]

MarkInvalid(tx) == WithoutSender(Sender[tx], Tail(todo))

CanFitAnother == SaturatingSub(BlockLimit, meter.block) >= TxIntrinsic

(* locals, tip, type, and what cannot fit any list. *)
Eligible(tx) ==
  /\ request.locals = {} \/ Sender[tx] \in request.locals
  /\ Tip[tx] >= request.minTip
  /\ tx \in Allowed
  /\ GasLimit[tx] <= GasPerList
  /\ DaSize[tx] <= MaxDa

Stop(a) == (UNCHANGED vars) /\ Return(a)

PoolDrained == step = "loop" /\ todo = <<>> /\ Stop("completed")

(* txPoolContent passes || false. *)
Cancelled == InLoop /\ request.mode = "payload" /\ Stop("cancelled")

BudgetDrained == InLoop /\ ~CanFitAnother /\ Stop("completed")

Drop(tx) ==
  /\ todo' = MarkInvalid(tx)
  /\ UNCHANGED <<vars, overflows, request, step, digest, firstGas, rerunGas, remembered,
                 answer, calls, foreign>>

Ineligible ==
  /\ InLoop /\ CanFitAnother
  /\ ~Eligible(Candidate)
  /\ Drop(Candidate)
  /\ UNCHANGED <<lists, ratios, capped>>

(* Mutants of SkipsAsRemembered: any remembered overflow is skipped.        *)
SkipsAnyRemembered(memo) == memo # NoDigest

(* memo overflowed at the very state the candidate would run on. *)
SkipsAsRemembered(memo) == memo = digest

SkipRemembered ==
  /\ InLoop /\ CanFitAnother /\ Eligible(Candidate)
  /\ SkipsAsRemembered(overflows[request.mode][Candidate])
  /\ Drop(Candidate)
  /\ UNCHANGED <<lists, ratios, capped>>

(* Mutant of RerunAllowed: the re-run allowance is never used up. *)
RerunsFree(memo) == TRUE

RerunAllowed(memo) == memo = NoDigest \/ rerunGas < GasPerList

SkipRerun ==
  /\ InLoop /\ CanFitAnother /\ Eligible(Candidate)
  /\ LET memo == overflows[request.mode][Candidate]
     IN  ~SkipsAsRemembered(memo) /\ ~RerunAllowed(memo)
  /\ Drop(Candidate)
  /\ capped' = TRUE
  /\ UNCHANGED <<lists, ratios>>

Runnable ==
  /\ InLoop /\ CanFitAnother /\ Eligible(Candidate)
  /\ LET memo == overflows[request.mode][Candidate]
     IN  ~SkipsAsRemembered(memo) /\ RerunAllowed(memo)

(* The list that is being filled, and its ratios. *)
Last(entries) == entries[Len(entries)]

InCurrent == ExceedsListLimits(Last(lists), Last(ratios), Candidate)
InFresh == ExceedsListLimits(EmptyList, DefaultRatio, Candidate)
Measured == [ratios EXCEPT ![Len(ratios)] = InCurrent.ratio]

(* Mutant of MayOpen: one list too many. *)
MayOpenOneMore == Len(lists) <= MaxLists

MayOpen == Len(lists) < MaxLists

(* No list has room: the current one is full and no other may be opened, or *)
(* not even a fresh one, which then stays open, has it.                     *)
NoRoom ==
  /\ Runnable /\ InCurrent.exceeds
  /\ \/ /\ Len(lists) >= MaxLists
        /\ ratios' = Measured /\ UNCHANGED lists
     \/ /\ MayOpen /\ InFresh.exceeds
        /\ ratios' = Append(Measured, InFresh.ratio) /\ lists' = Append(lists, EmptyList)
  /\ Drop(Candidate)
  /\ UNCHANGED capped

(* builder.execute_transaction on the candidate, in the current list or in  *)
(* a new one.                                                               *)
Execute ==
  /\ Runnable
  /\ \/ /\ ~InCurrent.exceeds
        /\ ratios' = Measured /\ UNCHANGED lists
     \/ /\ InCurrent.exceeds /\ MayOpen /\ ~InFresh.exceeds
        /\ ratios' = Append(Measured, InFresh.ratio) /\ lists' = Append(lists, EmptyList)
  /\ remembered' = overflows[request.mode][Candidate]
  /\ RefuseExhausted \/ RefuseGasLimit(Candidate) \/ StartTransact(Candidate)
  /\ step' = "call"
  /\ UNCHANGED <<overflows, request, todo, digest, firstGas, rerunGas, capped,
                 answer, calls, foreign>>

(* transact, inside the anchor's or the candidate's execution. *)
Transact ==
  /\ step \in {"anchor", "call"}
  /\ TransactInvalid \/ TransactFatal \/ TransactCharge \/ TransactDone
  /\ UNCHANGED selVars

-----------------------------------------------------------------------------
(* What the execution returned.                                             *)

Included ==
  /\ step = "call" /\ phase = "executed"
  /\ Commit
  /\ digest' = AdvanceSelectionState(digest, Candidate)
  /\ overflows' = [overflows EXCEPT ![request.mode][Candidate] =
       IF remembered # NoDigest THEN NoDigest ELSE @]
  /\ lists' = [lists EXCEPT ![Len(lists)] =
       [txs |-> Append(@.txs, Candidate), gas |-> @.gas + CurRun.gas, da |-> @.da + DaSize[Candidate]]]
  /\ todo' = Tail(todo) /\ step' = "loop"
  /\ UNCHANGED <<request, ratios, firstGas, rerunGas, remembered, capped, answer,
                 calls, foreign>>

Overran == step = "call" /\ phase = "ready" /\ result = "zk_limit"

(* Mutant of Unexhaust: the sticky flag stays. *)
StaysExhausted == ReturnTo("cleared") /\ UNCHANGED <<meter, published, exhausted>>

Unexhaust == ClearZkGasExhaustion

Record ==
  /\ overflows' = [overflows EXCEPT ![request.mode][Candidate] = digest]
  /\ todo' = MarkInvalid(Candidate)
  /\ UNCHANGED <<request, digest, lists, ratios, remembered, calls, foreign>>

(* A remembered candidate overflowed again: re-runs never stop selection.   *)
OverflowedAgain ==
  /\ Overran /\ remembered # NoDigest
  /\ Unexhaust /\ Record
  /\ rerunGas' = rerunGas + GasLimit[Candidate]
  /\ step' = "loop"
  /\ UNCHANGED <<firstGas, capped, answer>>

OverflowedFirst ==
  /\ Overran /\ remembered = NoDigest
  /\ Unexhaust /\ Record
  /\ firstGas' = firstGas + GasLimit[Candidate]
  /\ IF firstGas' >= GasPerList
     THEN step' = "idle" /\ answer' = "completed" /\ capped' = TRUE
     ELSE step' = "loop" /\ UNCHANGED <<answer, capped>>
  /\ UNCHANGED rerunGas

(* Mutant of AfterInvalid: an outdated candidate is met again. *)
RetriesOutdated(tx) == IF tx \in NonceTooLow THEN todo ELSE MarkInvalid(tx)

(* An outdated nonce may be a race: the sender's later ones stay in play.   *)
AfterInvalid(tx) == IF tx \in NonceTooLow THEN Tail(todo) ELSE MarkInvalid(tx)

RejectedByEvm ==
  /\ step = "call" /\ phase = "ready" /\ result = "invalid_tx"
  /\ todo' = AfterInvalid(Candidate) /\ step' = "loop"
  /\ UNCHANGED <<vars, overflows, request, digest, lists, ratios, firstGas, rerunGas,
                 remembered, capped, answer, calls, foreign>>

FatalError ==
  /\ step = "call" /\ phase = "ready" /\ result \in {"fatal", "gas_limit"}
  /\ Stop("error")

-----------------------------------------------------------------------------
(* Other calls on the same memory: clones of the builder, concurrent        *)
(* txPoolContent requests.                                                  *)

(* What tx adds to the meter on a state before its outcome is known. *)
Cost(tx, s) == IF Run[tx][s].valid THEN TxZkGas(tx, s) ELSE TxIntrinsic

(* tx overflows the block budget on the state d stands for.                 *)
OverflowsAt(mode, tx, d) ==
  LET at == ReplayFrom(StartState[d[1]], Tail(d))
      before == IF mode = "rpc" THEN AnchorReserve ELSE 0
  IN  before + at.zkGas + Cost(tx, at.state) > BlockLimit

(* Where another call may stand on a seed: at its start, or one further. *)
ForeignBase(mode, seed) == IF mode = "payload" THEN <<seed, Anchor>> ELSE <<seed>>
ForeignDigests(mode, seed) ==
  {ForeignBase(mode, seed)} \cup {Append(ForeignBase(mode, seed), tx) : tx \in Txs \ {Anchor}}

ForeignRecord(mode, tx, d) ==
  /\ foreign < MaxForeign
  /\ OverflowsAt(mode, tx, d)
  /\ overflows' = [overflows EXCEPT ![mode][tx] = d]
  /\ foreign' = foreign + 1
  /\ UNCHANGED <<vars, request, step, todo, digest, lists, ratios, firstGas, rerunGas,
                 remembered, capped, answer, calls>>

(* forget, or retain on a pool that lost the transaction. *)
ForeignForget(mode, tx) ==
  /\ foreign < MaxForeign
  /\ overflows[mode][tx] # NoDigest
  /\ overflows' = [overflows EXCEPT ![mode][tx] = NoDigest]
  /\ foreign' = foreign + 1
  /\ UNCHANGED <<vars, request, step, todo, digest, lists, ratios, firstGas, rerunGas,
                 remembered, capped, answer, calls>>

SelectionStep ==
  \/ ReserveForAnchor \/ ExecuteAnchor \/ AnchorCommitted \/ AnchorFailed
  \/ PoolDrained \/ BudgetDrained \/ Ineligible \/ SkipRemembered \/ SkipRerun
  \/ NoRoom \/ Execute \/ Transact \/ Included \/ OverflowedAgain \/ OverflowedFirst
  \/ RejectedByEvm \/ FatalError

SelNext ==
  \/ \E r \in Requests : Begin(r)
  \/ SelectionStep
  \/ Cancelled
  \/ \E m \in Modes : \E tx \in Txs \ {Anchor} :
       \/ \E s \in Seeds : \E d \in ForeignDigests(m, s) : ForeignRecord(m, tx, d)
       \/ ForeignForget(m, tx)

SelSpec == SelInit /\ [][SelNext]_allVars

(* The call runs on a thread of its own until it returns. *)
SelFairSpec == SelSpec /\ WF_allVars(SelectionStep)

-----------------------------------------------------------------------------
(* Properties.                                                              *)

(* Every remembered overflow is true: run on the state its digest stands    *)
(* for, the transaction overflows the block's zk gas budget.  A skip        *)
(* without running (mod.rs, remembered == Some(state)) is justified by this *)
(* alone, across calls and whatever other calls write to the memory.        *)
MemorySound ==
  \A m \in Modes, tx \in Txs : overflows[m][tx] # NoDigest => OverflowsAt(m, tx, overflows[m][tx])

(* The transactions and the gas of the first lists, list by list. *)
ListedUpTo(ls) ==
  LET upTo[n \in 0 .. Len(ls)] ==
        IF n = 0 THEN [txs |-> <<>>, gas |-> 0]
        ELSE [txs |-> upTo[n - 1].txs \o ls[n].txs, gas |-> upTo[n - 1].gas + ls[n].gas]
  IN  upTo

Listed(ls) == ListedUpTo(ls)[Len(ls)]

(* What the builder commits before the first candidate. *)
Anchored == IF request.mode = "payload" THEN <<Anchor>> ELSE <<>>
AnchorAllowance == IF request.mode = "payload" THEN AnchorGasLimit ELSE 0

(* The lists are the block: their transactions in order are what the        *)
(* executor committed after the anchor, their gas is what it used, and no   *)
(* list is over its gas or estimated DA limit.  What fits a list fits the   *)
(* block: the executor's own gas check, fatal for selection, never fires.   *)
ListsAreTheBlock ==
  step \in {"loop", "call"} =>
    /\ receipts = Anchored \o Listed(lists).txs
    /\ Listed(lists).gas <= gasUsed /\ gasUsed <= Listed(lists).gas + AnchorAllowance
    /\ Len(lists) <= MaxLists
    /\ \A i \in DOMAIN lists : lists[i].gas <= GasPerList /\ lists[i].da <= MaxDa
    /\ step = "call" => result # "gas_limit"

(* A list whose estimate comes within the guard of the DA limit has been    *)
(* measured: its compressed size does not exceed the limit.                 *)
NearLimitIsMeasured ==
  step \in {"loop", "call"} /\ Guard > 0 =>
    \A i \in DOMAIN lists :
      lists[i].txs # <<>> /\ lists[i].da + Guard >= MaxDa => ~(ZlibTxListSize(lists[i].txs) > MaxDa)

(* One call wastes less than two lists' worth of gas on first-time overflows *)
(* and less than two on re-runs, however many remembered transactions the   *)
(* pool holds and whatever other calls record meanwhile.                    *)
OverflowWorkBounded == firstGas + rerunGas > 0 => Max({firstGas, rerunGas}) < 2 * GasPerList

(* What a single list should hold by definition: walk the pool once, keep   *)
(* what fits, drop the senders of what does not.                            *)
GreedyTake(r, acc, tx) ==
  LET run == Run[tx][acc.state]
      block == [acc EXCEPT !.blocked = @ \cup {Sender[tx]}]
  IN  IF acc.zk + TxIntrinsic > BlockLimit \/ Sender[tx] \in acc.blocked THEN acc
      ELSE IF \/ r.locals # {} /\ Sender[tx] \notin r.locals
              \/ Tip[tx] < r.minTip \/ tx \notin Allowed
              \/ acc.gas + GasLimit[tx] > SaturatingSub(BlockGasLimit, AnchorGasLimit)
              \/ acc.da + DaSize[tx] > MaxDa
              \/ acc.zk + Cost(tx, acc.state) > BlockLimit
      THEN block
      ELSE IF ~run.valid THEN (IF tx \in NonceTooLow THEN acc ELSE block)
      ELSE [state |-> run.next, zk |-> acc.zk + TxZkGas(tx, acc.state),
            gas |-> acc.gas + run.gas, da |-> acc.da + DaSize[tx],
            txs |-> Append(acc.txs, tx), blocked |-> acc.blocked]

GreedyFrom(r, start, txs) ==
  LET pass[n \in 0 .. Len(txs)] ==
        IF n = 0 THEN start ELSE GreedyTake(r, pass[n - 1], txs[n])
  IN  pass

(* The walk starts behind the anchor, on an empty list. *)
GreedyStart(r) ==
  LET s == StartState[r.seed]
  IN  [state |-> Run[Anchor][s].next, zk |-> TxZkGas(Anchor, s),
       gas |-> 0, da |-> 0, txs |-> <<>>, blocked |-> {}]

GreedyPacking(r) == GreedyFrom(r, GreedyStart(r), r.pool)[Len(r.pool)].txs

(* The memory and the retries change nothing the builder selects: unless a  *)
(* cap was hit or a compressed size was measured, a pool-mode payload holds *)
(* what one pass over the pool without any memory would select.  Measured   *)
(* lists are left to NearLimitIsMeasured: a remembered candidate is skipped *)
(* before exceeds_list_limits and so feeds no sample to the ratio state.    *)
MemoryIsTransparent ==
  answer = "completed" /\ request.mode = "payload" /\ ~capped /\ ratios = <<DefaultRatio>> =>
    lists[1].txs = GreedyPacking(request)

(* Every call returns. *)
SelectionReturns == (step # "idle") ~> (step = "idle")
=============================================================================
