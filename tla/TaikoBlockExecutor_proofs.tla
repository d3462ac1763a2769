---------------------- MODULE TaikoBlockExecutor_proofs ----------------------
(***************************************************************************)
(* Proofs that the executor keeps the zk gas budget exact, publishes the    *)
(* committed total, never panics and commits what a replay of its receipts  *)
(* costs, for every schedule, every set of transactions and every EVM.      *)
(***************************************************************************)
EXTENDS TaikoBlockExecutor, WellFoundedInduction, TLAPS

(* The meter satisfies the budget equation with nothing lost to saturation. *)
Exact(m) == m \in Meter /\ m.block + m.tx + m.remaining = BlockLimit

-----------------------------------------------------------------------------
(* The meter's methods.                                                     *)

(* A fresh meter has the whole block limit left (meter.rs new). *)
LEMMA NewMeterExact == Exact(NewMeter)
BY MeterAssumption DEF Exact, NewMeter, Meter, U64

(* reset_transaction gives the in-flight charges back and keeps the total. *)
LEMMA ResetExact ==
  ASSUME NEW m, Exact(m)
  PROVE  /\ Exact(ResetTransaction(m))
         /\ ResetTransaction(m).block = m.block
         /\ ResetTransaction(m).tx = 0
         /\ ResetTransaction(m).remaining = BlockLimit - m.block
<1>1. /\ m \in Meter
      /\ m.block \in Nat /\ m.tx \in Nat /\ m.remaining \in Nat
      /\ m.block + m.tx + m.remaining = BlockLimit
  BY MeterAssumption DEF Exact, Meter, U64
<1>2. SaturatingSub(BlockLimit, m.block) = BlockLimit - m.block
  BY <1>1, MeterAssumption DEF SaturatingSub
<1>3. ResetTransaction(m) =
        [block |-> m.block, tx |-> 0, remaining |-> BlockLimit - m.block]
  BY <1>2 DEF ResetTransaction
<1> QED
  BY <1>1, <1>3, MeterAssumption DEF Exact, Meter, U64

(* charge_amount moves the amount from remaining to tx. *)
LEMMA ChargeExact ==
  ASSUME NEW m, Exact(m), NEW amount \in Nat, ~ChargeExceeds(m, amount)
  PROVE  /\ Exact(ChargeAmount(m, amount))
         /\ ChargeAmount(m, amount).block = m.block
BY MeterAssumption DEF Exact, ChargeExceeds, ChargeAmount, Meter, U64

(* An opcode or precompile charge multiplies raw gas, a natural amount. *)
LEMMA WorkExact ==
  ASSUME NEW m, Exact(m), NEW w \in WorkItem, ~WorkExceeds(m, w)
  PROVE  /\ Exact(ChargeWork(m, w))
         /\ ChargeWork(m, w).block = m.block
<1>1. w.raw \in Nat /\ w.multiplier \in Nat
  BY MeterAssumption DEF WorkItem, U64
<1>2. WorkAmount(w) \in Nat
  BY <1>1 DEF WorkAmount
<1>3. ~ChargeExceeds(m, WorkAmount(w))
  BY DEF WorkExceeds
<1> QED
  BY <1>2, <1>3, ChargeExact DEF ChargeWork

(* With an exact budget the committed total can never pass the limit: the   *)
(* commit pre-check of the executor cannot fail after transact returned.    *)
LEMMA CommitFits ==
  ASSUME NEW m, Exact(m)
  PROVE  ~CommitWouldExceed(m)
BY MeterAssumption DEF Exact, CommitWouldExceed, BlockTotalExceeds, Meter, U64

(* commit_transaction moves the in-flight charges to the committed total. *)
LEMMA CommitExact ==
  ASSUME NEW m, Exact(m)
  PROVE  /\ Exact(CommitTransaction(m))
         /\ CommitTransaction(m).tx = 0
         /\ CommitTransaction(m).remaining = BlockLimit - CommitTransaction(m).block
BY MeterAssumption DEF Exact, CommitTransaction, Meter, U64

(* reserve_block_budget moves the amount from remaining to the total. *)
LEMMA ReserveExact ==
  ASSUME NEW m, Exact(m), NEW amount \in Nat, ~ReserveExceeds(m, amount)
  PROVE  /\ Exact(ReserveBlockBudget(m, amount))
         /\ ReserveBlockBudget(m, amount).tx = m.tx
BY MeterAssumption DEF Exact, ReserveExceeds, BlockTotalExceeds, ReserveBlockBudget, Meter, U64

-----------------------------------------------------------------------------
(* The EVM's answer for the running transaction has its type, and its gas   *)
(* is within the limit the transaction was admitted with.                   *)
LEMMA CurRunType ==
  ASSUME TypeOK, cur \in Txs
  PROVE  /\ CurRun \in RunResult
         /\ CurRun.gas \in Nat
         /\ CurRun.next \in States
         /\ CurRun.gas <= GasLimit[cur]
         /\ GasLimit[cur] \in Nat
BY ExecutorAssumption DEF TypeOK, CurRun, RunResult

(* Every overflow path restores the invariant. *)
LEMMA OverflowPreserves ==
  ASSUME IInv, Overflow
  PROVE  IInv'
<1>1. Exact(meter)
  BY DEF IInv, TypeOK, BudgetExact, Exact
<1>2. /\ Exact(meter')
      /\ meter'.block = meter.block
      /\ meter'.tx = 0
      /\ meter'.remaining = BlockLimit - meter.block
  BY <1>1, ResetExact DEF Overflow, ResetCurrentTransactionZkGas
<1>3. published' = meter.block /\ meter.block \in U64
  BY DEF Overflow, ResetCurrentTransactionZkGas, IInv, TypeOK, Meter
<1> QED
  BY <1>2, <1>3
  DEF Overflow, ReturnTo, IInv, TypeOK, BudgetExact, Exact, NeverPanics, PublishedIsCommitted,
      NothingInFlight, GasWithinBlock, AdmittedGasFits, ExhaustedIsIdle, Phases, Results

(* So does every other path that resets the meter and returns. *)
LEMMA ResetReturnPreserves ==
  ASSUME IInv, ResetCurrentTransactionZkGas, exhausted' \in BOOLEAN,
         NEW r \in Results, ReturnTo(r)
  PROVE  IInv'
<1>1. Exact(meter)
  BY DEF IInv, TypeOK, BudgetExact, Exact
<1>2. /\ Exact(meter')
      /\ meter'.block = meter.block
      /\ meter'.tx = 0
      /\ meter'.remaining = BlockLimit - meter.block
  BY <1>1, ResetExact DEF ResetCurrentTransactionZkGas
<1>3. published' = meter.block /\ meter.block \in U64
  BY DEF ResetCurrentTransactionZkGas, IInv, TypeOK, Meter
<1> QED
  BY <1>2, <1>3
  DEF ReturnTo, IInv, TypeOK, BudgetExact, Exact, NeverPanics, PublishedIsCommitted,
      NothingInFlight, GasWithinBlock, AdmittedGasFits, ExhaustedIsIdle, Phases

-----------------------------------------------------------------------------
(* The initial state satisfies the invariant (a new executor, new). *)
LEMMA InitIInv == Init => IInv
<1> SUFFICES ASSUME Init PROVE IInv
  OBVIOUS
<1>1. Exact(meter)
  BY NewMeterExact DEF Init
<1>2. meter.block = 0 /\ meter.tx = 0 /\ meter.remaining = BlockLimit
  BY DEF Init, NewMeter
<1>3. 0 \in U64 /\ BlockLimit - 0 = BlockLimit
  BY MeterAssumption DEF U64
<1>4. TypeOK
  <2>1. receipts \in Seq(Txs) /\ meter \in Meter /\ published \in U64 /\ state \in States
    BY <1>1, <1>3, ExecutorAssumption DEF Init, Exact
  <2>2. phase \in Phases /\ phase \notin {"running", "executed"} /\ result \in Results
    BY DEF Init, Phases, Results
  <2>3. exhausted \in BOOLEAN /\ cur \in Txs \cup {NoTx}
    BY Zenon DEF Init
  <2>4. gasUsed \in Nat /\ reserved \in Nat /\ pos \in Nat
    BY DEF Init
  <2> QED
    BY <2>1, <2>2, <2>3, <2>4 DEF TypeOK
<1> QED
  BY <1>1, <1>2, <1>3, <1>4, ExecutorAssumption
  DEF Init, IInv, BudgetExact, Exact, NeverPanics, PublishedIsCommitted, NothingInFlight,
      GasWithinBlock, AdmittedGasFits, ExhaustedIsIdle

(* Every step of the executor keeps the invariant. *)
LEMMA NextIInv == IInv /\ [Next]_vars => IInv'
<1> SUFFICES ASSUME IInv, [Next]_vars PROVE IInv'
  OBVIOUS
<1>0. Exact(meter) /\ meter \in Meter /\ meter.block \in U64 /\ published = meter.block
  BY DEF IInv, TypeOK, BudgetExact, Exact, Meter, PublishedIsCommitted
<1>1. CASE RefuseExhausted
  BY <1>1
  DEF RefuseExhausted, ReturnTo, IInv, TypeOK, BudgetExact, NeverPanics, PublishedIsCommitted,
      NothingInFlight, GasWithinBlock, AdmittedGasFits, ExhaustedIsIdle, Phases, Results
<1>2. ASSUME NEW tx \in Txs, RefuseGasLimit(tx) PROVE IInv'
  BY <1>2
  DEF RefuseGasLimit, ReturnTo, IInv, TypeOK, BudgetExact, NeverPanics, PublishedIsCommitted,
      NothingInFlight, GasWithinBlock, AdmittedGasFits, ExhaustedIsIdle, Phases, Results
<1>3. ASSUME NEW tx \in Txs, StartTransact(tx) PROVE IInv'
  <2>1. CASE ChargeExceeds(ResetTransaction(meter), TxIntrinsic)
    BY <1>3, <2>1, OverflowPreserves DEF StartTransact
  <2>2. CASE ~ChargeExceeds(ResetTransaction(meter), TxIntrinsic)
    <3>1. Exact(ResetTransaction(meter)) /\ ResetTransaction(meter).block = meter.block
      BY <1>0, ResetExact
    <3>2. TxIntrinsic \in Nat
      BY MeterAssumption
    <3>3. Exact(meter') /\ meter'.block = meter.block
      BY <1>3, <2>2, <3>1, <3>2, ChargeExact DEF StartTransact
    <3>4. gasUsed + GasLimit[tx] <= BlockGasLimit
      BY <1>3, ExecutorAssumption DEF StartTransact, IInv, TypeOK
    <3> QED
      BY <1>0, <1>3, <2>2, <3>3, <3>4
      DEF StartTransact, IInv, TypeOK, BudgetExact, Exact, NeverPanics, PublishedIsCommitted,
          NothingInFlight, GasWithinBlock, AdmittedGasFits, ExhaustedIsIdle, Phases, Results
  <2> QED
    BY <2>1, <2>2
<1>4. CASE TransactInvalid
  BY <1>4, ResetReturnPreserves DEF TransactInvalid, Results, IInv, TypeOK
<1>5. CASE TransactFatal
  BY <1>5, ResetReturnPreserves DEF TransactFatal, Results, IInv, TypeOK
<1>6. CASE TransactCharge
  <2> DEFINE w == CurRun.work[pos + 1]
  <2>1. w \in WorkItem
    <3>1. cur \in Txs /\ pos \in Nat /\ pos < Len(CurRun.work)
      BY <1>6 DEF TransactCharge, IInv, TypeOK
    <3>2. CurRun.work \in Seq(WorkItem)
      BY <3>1, CurRunType DEF IInv, RunResult
    <3> QED
      BY <3>1, <3>2
  <2>2. CASE WorkExceeds(meter, w)
    BY <1>6, <2>2, OverflowPreserves DEF TransactCharge
  <2>3. CASE ~WorkExceeds(meter, w)
    <3>1. Exact(meter') /\ meter'.block = meter.block
      BY <1>0, <1>6, <2>1, <2>3, WorkExact DEF TransactCharge
    <3> QED
      BY <1>6, <2>3, <3>1
      DEF TransactCharge, IInv, TypeOK, BudgetExact, Exact, NeverPanics, PublishedIsCommitted,
          NothingInFlight, GasWithinBlock, AdmittedGasFits, ExhaustedIsIdle
  <2> QED
    BY <2>2, <2>3
<1>7. CASE TransactDone
  <2>1. ~CommitWouldExceed(meter)
    BY <1>0, CommitFits
  <2> QED
    BY <1>7, <2>1
    DEF TransactDone, IInv, TypeOK, BudgetExact, NeverPanics, PublishedIsCommitted,
        NothingInFlight, GasWithinBlock, AdmittedGasFits, ExhaustedIsIdle, Phases
<1>8. CASE Commit
  <2>1. ~CommitWouldExceed(meter)
    BY <1>0, CommitFits
  <2>2. /\ Exact(meter')
        /\ meter'.tx = 0
        /\ meter'.remaining = BlockLimit - meter'.block
    BY <1>0, <1>8, <2>1, CommitExact DEF Commit
  <2>3. published' = meter'.block /\ published' \in U64
    BY <1>8, <2>1, <2>2 DEF Commit, Exact, Meter
  <2>4. cur \in Txs
    BY <1>8 DEF Commit, IInv, TypeOK
  <2>5. gasUsed' \in Nat /\ gasUsed' <= BlockGasLimit
    BY <1>8, <2>1, <2>4, CurRunType, ExecutorAssumption
    DEF Commit, IInv, TypeOK, AdmittedGasFits
  <2>6. state' \in States /\ receipts' \in Seq(Txs)
    BY <1>8, <2>1, <2>4, CurRunType DEF Commit, IInv, TypeOK
  <2> QED
    BY <1>8, <2>1, <2>2, <2>3, <2>5, <2>6
    DEF Commit, IInv, TypeOK, BudgetExact, Exact, NeverPanics, PublishedIsCommitted,
        NothingInFlight, GasWithinBlock, AdmittedGasFits, ExhaustedIsIdle, Phases, Results
<1>9. CASE Discard
  BY <1>9, ResetReturnPreserves DEF Discard, Results, IInv, TypeOK
<1>10. ASSUME NEW amount \in Reservations, Reserve(amount) PROVE IInv'
  <2>1. amount \in Nat
    BY ExecutorAssumption, MeterAssumption DEF U64
  <2>2. CASE ReserveExceeds(meter, amount)
    BY <1>10, <2>2
    DEF Reserve, IInv, TypeOK, BudgetExact, NeverPanics, PublishedIsCommitted,
        NothingInFlight, GasWithinBlock, AdmittedGasFits, ExhaustedIsIdle, Results
  <2>3. CASE ~ReserveExceeds(meter, amount)
    <3>1. Exact(meter') /\ meter'.tx = 0
      BY <1>0, <1>10, <2>1, <2>3, ReserveExact DEF Reserve, IInv, NothingInFlight
    <3>2. /\ published' = meter'.block
          /\ published' \in U64
          /\ meter'.remaining = BlockLimit - meter'.block
      BY <1>10, <2>3, <3>1, MeterAssumption DEF Reserve, Exact, Meter, U64
    <3> QED
      BY <1>10, <2>1, <2>3, <3>1, <3>2
      DEF Reserve, IInv, TypeOK, BudgetExact, Exact, NeverPanics, PublishedIsCommitted,
          NothingInFlight, GasWithinBlock, AdmittedGasFits, ExhaustedIsIdle, Results
  <2> QED
    BY <2>2, <2>3
<1>11. CASE ClearZkGasExhaustion
  BY <1>11, ResetReturnPreserves, Zenon DEF ClearZkGasExhaustion, Results
<1>12. ASSUME NEW expected \in U64 \cup {NoExpectation}, Finish(expected) PROVE IInv'
  BY <1>0, <1>12
  DEF Finish, IInv, TypeOK, BudgetExact, NeverPanics, PublishedIsCommitted,
      NothingInFlight, GasWithinBlock, AdmittedGasFits, ExhaustedIsIdle, Phases, Results
<1>13. CASE UNCHANGED vars
  BY <1>13
  DEF vars, IInv, TypeOK, BudgetExact, NeverPanics, PublishedIsCommitted,
      NothingInFlight, GasWithinBlock, AdmittedGasFits, ExhaustedIsIdle
<1> QED
  BY <1>1, <1>2, <1>3, <1>4, <1>5, <1>6, <1>7, <1>8, <1>9, <1>10, <1>11, <1>12, <1>13 DEF Next

-----------------------------------------------------------------------------
(* The inductive invariant holds in every reachable state of the executor. *)
THEOREM Invariance == Spec => []IInv
BY InitIInv, NextIInv, PTL DEF Spec

(* The executor's state has its type in every reachable state. *)
THEOREM TypeCorrect == Spec => []TypeOK
<1>1. IInv => TypeOK
  BY DEF IInv
<1> QED
  BY <1>1, Invariance, PTL

(* Committed, in-flight and remaining zk gas always add up to the limit. *)
THEOREM BudgetIsExact == Spec => []BudgetExact
<1>1. IInv => BudgetExact
  BY DEF IInv
<1> QED
  BY <1>1, Invariance, PTL

(* commit_transaction never reaches its unreachable! branch. *)
THEOREM NoPanic == Spec => []NeverPanics
<1>1. IInv => NeverPanics
  BY DEF IInv
<1> QED
  BY <1>1, Invariance, PTL

(* The total the assembler seals as difficulty is the committed total, and  *)
(* between transactions nothing is in flight.                               *)
THEOREM PublishedTotal == Spec => [](PublishedIsCommitted /\ NothingInFlight)
<1>1. IInv => PublishedIsCommitted /\ NothingInFlight
  BY DEF IInv
<1> QED
  BY <1>1, Invariance, PTL

(* block_gas_limit - gas_used never underflows. *)
THEOREM GasNeverUnderflows == Spec => []GasWithinBlock
<1>1. IInv => GasWithinBlock
  BY DEF IInv
<1> QED
  BY <1>1, Invariance, PTL

(* After a zk gas overflow nothing commits until the flag is cleared. *)
THEOREM StickyOverflow == Spec => OverflowIsSticky
<1>1. IInv /\ [Next]_vars => [exhausted => receipts' = receipts]_vars
  <2> SUFFICES ASSUME IInv, [Next]_vars, exhausted PROVE receipts' = receipts
    OBVIOUS
  <2>1. phase \in {"ready", "finished"}
    BY DEF IInv, ExhaustedIsIdle
  <2>2. CASE UNCHANGED vars
    BY <2>2 DEF vars
  <2>3. CASE Next
    BY <2>1, <2>3, Zenon
    DEF Next, RefuseExhausted, RefuseGasLimit, StartTransact, TransactInvalid, TransactFatal,
        TransactCharge, TransactDone, Commit, Discard, Reserve, ClearZkGasExhaustion, Finish,
        ReturnTo
  <2> QED
    BY <2>2, <2>3
<1> QED
  BY <1>1, Invariance, PTL DEF Spec, OverflowIsSticky

-----------------------------------------------------------------------------
(* Recursive functions on an initial segment of Nat.  Induction goes by the *)
(* least counterexample, since < is well-founded on Nat.                    *)

LEMMA LeastElement ==
  ASSUME NEW T \in SUBSET Nat, T # {}
  PROVE  \E n \in T : \A m \in T : n <= m
<1> DEFINE R == OpToRel(<, Nat)
<1>1. IsWellFoundedOn(R, Nat)
  BY NatLessThanWellFounded, Zenon
<1>2. \A x, y \in Nat : <<y, x>> \in R <=> y < x
  BY DEF OpToRel
<1> HIDE DEF R
<1>3. PICK n \in T : \A y \in T : ~(<<y, n>> \in R)
  BY <1>1, WFMin, Zenon
<1>4. n \in Nat /\ \A m \in T : m \in Nat /\ ~(m < n)
  BY <1>2, <1>3, Zenon
<1> QED
  BY <1>4

(* Induction on an interval, over the set of the numbers that qualify. *)
LEMMA IntervalInduction ==
  ASSUME NEW H, NEW a \in Nat, NEW b \in Nat, a \in H,
         \A n \in a .. b - 1 : n \in H => n + 1 \in H
  PROVE  \A n \in a .. b : n \in H
<1> DEFINE T == {n \in a .. b : n \notin H}
<1> SUFFICES ASSUME T # {} PROVE FALSE
  OBVIOUS
<1>1. PICK n \in T : \A m \in T : n <= m
  <2>1. T \in SUBSET Nat
    OBVIOUS
  <2> HIDE DEF T
  <2> QED
    BY <2>1, LeastElement
<1>2. n \in a + 1 .. b /\ n \notin H /\ n - 1 \in a .. b - 1 /\ n - 1 < n
  OBVIOUS
<1>3. n - 1 \in H
  BY <1>1, <1>2
<1> QED
  BY <1>2, <1>3

(* g starts at a and goes from n - 1 to n by the step f[n]. *)
Iterates(g, f, a, N) == g[0] = a /\ \A n \in 1 .. N : g[n] = f[n][g[n - 1]]

(* A recursion step f[n] that stays in S has a solution from every start.   *)
LEMMA RecursionHasSolution ==
  ASSUME NEW S, NEW N \in Nat, NEW f \in [1 .. N -> [S -> S]], NEW a \in S
  PROVE  \E g \in [0 .. N -> S] : Iterates(g, f, a, N)
<1> DEFINE Solved(n) == \E g \in [0 .. n -> S] : Iterates(g, f, a, n)
           T == {n \in 0 .. N : ~Solved(n)}
<1> SUFFICES ASSUME T # {} PROVE FALSE
  <2>1. Solved(N)
    OBVIOUS
  <2> QED
    BY <2>1
<1>1. PICK n \in T : \A m \in T : n <= m
  <2>1. T \in SUBSET Nat
    OBVIOUS
  <2> HIDE DEF T
  <2> QED
    BY <2>1, LeastElement
<1>2. Solved(0)
  <2> DEFINE z == [i \in 0 .. 0 |-> a]
  <2>1. z \in [0 .. 0 -> S] /\ z[0] = a
    OBVIOUS
  <2> HIDE DEF z
  <2>2. Iterates(z, f, a, 0)
    BY <2>1 DEF Iterates
  <2> QED
    BY <2>1, <2>2
<1>3. n \in 1 .. N /\ n - 1 \in 0 .. N /\ ~(n <= n - 1)
  <2> HIDE DEF Solved
  <2> QED
    BY <1>2
<1>4. Solved(n - 1)
  <2>1. n - 1 \notin T
    <3> HIDE DEF T
    <3> QED
      BY <1>1, <1>3
  <2> HIDE DEF Solved
  <2> QED
    BY <1>3, <2>1
<1>5. PICK g \in [0 .. n - 1 -> S] : g[0] = a /\ \A i \in 1 .. n - 1 : g[i] = f[i][g[i - 1]]
  BY <1>4 DEF Iterates
<1> DEFINE h == [i \in 0 .. n |-> IF i = n THEN f[n][g[n - 1]] ELSE g[i]]
<1>6. h \in [0 .. n -> S] /\ h[0] = a
  BY <1>3, <1>5
<1>7. \A i \in 1 .. n : h[i] = f[i][h[i - 1]]
  BY <1>3, <1>5
<1>8. Solved(n)
  <2> HIDE DEF h
  <2> QED
    BY <1>6, <1>7 DEF Iterates
<1> QED
  BY <1>8

(* Two functions that start alike and step alike, and that are alike. *)
StepAlike(g, h, N) == g[0] = h[0] /\ \A n \in 1 .. N : g[n - 1] = h[n - 1] => g[n] = h[n]

Alike(g, h, N) == \A n \in 0 .. N : g[n] = h[n]

LEMMA RecursionIsUnique ==
  ASSUME NEW N \in Nat, NEW g, NEW h, StepAlike(g, h, N)
  PROVE  Alike(g, h, N)
<1> SUFFICES \A n \in 0 .. N : g[n] = h[n]
  BY DEF Alike
<1> USE DEF StepAlike
<1> DEFINE T == {n \in 0 .. N : g[n] # h[n]}
<1> SUFFICES ASSUME T # {} PROVE FALSE
  OBVIOUS
<1>1. PICK n \in T : \A m \in T : n <= m
  <2>1. T \in SUBSET Nat
    OBVIOUS
  <2> HIDE DEF T
  <2> QED
    BY <2>1, LeastElement
<1>2. n \in 1 .. N /\ n - 1 \in 0 .. N /\ ~(n <= n - 1)
  OBVIOUS
<1>3. n - 1 \notin T
  <2> HIDE DEF T
  <2> QED
    BY <1>1, <1>2
<1> QED
  BY <1>2, <1>3

(* The running zk gas of a transaction obeys its recursive definition. *)
LEMMA RunningZkGasSteps ==
  ASSUME NEW work \in Seq(WorkItem)
  PROVE  /\ RunningZkGas(work) \in [0 .. Len(work) -> Nat]
         /\ RunningZkGas(work)[0] = TxIntrinsic
         /\ \A n \in 1 .. Len(work) :
              RunningZkGas(work)[n] = RunningZkGas(work)[n - 1] + WorkAmount(work[n])
<1> DEFINE N == Len(work)
           f == [n \in 1 .. N |-> [x \in Nat |-> x + WorkAmount(work[n])]]
           Defines(g) == g = [n \in 0 .. N |-> IF n = 0 THEN TxIntrinsic
                                               ELSE g[n - 1] + WorkAmount(work[n])]
<1>1. N \in Nat /\ TxIntrinsic \in Nat
  BY MeterAssumption
<1>2. \A n \in 1 .. N : WorkAmount(work[n]) \in Nat
  <2> SUFFICES ASSUME NEW n \in 1 .. N PROVE WorkAmount(work[n]) \in Nat
    OBVIOUS
  <2>1. work[n] \in WorkItem
    OBVIOUS
  <2>2. work[n].raw \in Nat /\ work[n].multiplier \in Nat
    BY <2>1, MeterAssumption DEF WorkItem, U64
  <2> QED
    BY <2>2 DEF WorkAmount
<1>3. f \in [1 .. N -> [Nat -> Nat]]
  BY <1>2
<1>4. PICK g \in [0 .. N -> Nat] : Iterates(g, f, TxIntrinsic, N)
  <2> HIDE DEF f, N
  <2> QED
    BY <1>1, <1>3, RecursionHasSolution, Zenon
<1>5. \A n \in 1 .. N : g[n] = g[n - 1] + WorkAmount(work[n])
  <2> SUFFICES ASSUME NEW n \in 1 .. N PROVE g[n] = g[n - 1] + WorkAmount(work[n])
    OBVIOUS
  <2>1. g[n - 1] \in Nat
    BY <1>1
  <2> QED
    BY <1>4, <2>1, Zenon DEF Iterates
<1>6. Defines(g)
  BY <1>4, <1>5 DEF Iterates
<1>7. RunningZkGas(work) = CHOOSE s : Defines(s)
  BY DEF RunningZkGas
<1>8. Defines(RunningZkGas(work))
  <2> HIDE DEF Defines
  <2> QED
    BY <1>6, <1>7
<1>9. RunningZkGas(work)[0] = g[0]
  BY <1>1, <1>4, <1>8 DEF Iterates
<1>10. \A n \in 1 .. N : RunningZkGas(work)[n] = RunningZkGas(work)[n - 1] + WorkAmount(work[n])
  BY <1>1, <1>8
<1>11. \A n \in 0 .. N : RunningZkGas(work)[n] = g[n]
  <2>1. \A n \in 1 .. N : RunningZkGas(work)[n - 1] = g[n - 1] => RunningZkGas(work)[n] = g[n]
    BY <1>5, <1>10
  <2> DEFINE r == RunningZkGas(work)
  <2>2. StepAlike(r, g, N)
    BY <1>9, <2>1 DEF StepAlike
  <2> HIDE DEF N, r
  <2>3. Alike(r, g, N)
    BY <1>1, <2>2, RecursionIsUnique
  <2> QED
    BY <2>3 DEF r, Alike
<1>12. RunningZkGas(work) \in [0 .. N -> Nat]
  BY <1>8, <1>11
<1> QED
  BY <1>4, <1>9, <1>10, <1>12 DEF Iterates

(* A transaction costs a natural amount on every state. *)
LEMMA TxZkGasType ==
  ASSUME NEW tx \in Txs, NEW s \in States
  PROVE  TxZkGas(tx, s) \in Nat
<1>1. Run[tx][s] \in RunResult
  BY ExecutorAssumption
<1>2. Run[tx][s].work \in Seq(WorkItem)
  BY <1>1 DEF RunResult
<1>3. Len(Run[tx][s].work) \in 0 .. Len(Run[tx][s].work)
  BY <1>2
<1> QED
  BY <1>2, <1>3, RunningZkGasSteps DEF TxZkGas

ReplayState == [state : States, zkGas : Nat]

(* One more transaction on a replayed state. *)
Replayed(at, tx) ==
  [state |-> Run[tx][at.state].next, zkGas |-> at.zkGas + TxZkGas(tx, at.state)]

LEMMA ReplayedType ==
  ASSUME NEW at \in ReplayState, NEW tx \in Txs
  PROVE  Replayed(at, tx) \in ReplayState
<1>1. at.state \in States /\ at.zkGas \in Nat
  BY DEF ReplayState
<1>2. Run[tx][at.state] \in RunResult
  BY <1>1, ExecutorAssumption
<1>3. Run[tx][at.state].next \in States
  BY <1>2 DEF RunResult
<1>4. TxZkGas(tx, at.state) \in Nat
  BY <1>1, TxZkGasType
<1> QED
  BY <1>1, <1>3, <1>4 DEF ReplayState, Replayed

(* The states of a replay obey their recursive definition. *)
LEMMA ReplaySteps ==
  ASSUME NEW start \in States, NEW txs \in Seq(Txs)
  PROVE  /\ ReplayStates(start, txs) \in [0 .. Len(txs) -> ReplayState]
         /\ ReplayStates(start, txs)[0] = [state |-> start, zkGas |-> 0]
         /\ \A n \in 1 .. Len(txs) :
              ReplayStates(start, txs)[n] = Replayed(ReplayStates(start, txs)[n - 1], txs[n])
<1> DEFINE N == Len(txs)
           a == [state |-> start, zkGas |-> 0]
           f == [n \in 1 .. N |-> [at \in ReplayState |-> Replayed(at, txs[n])]]
           Defines(g) == g = [n \in 0 .. N |-> IF n = 0 THEN a ELSE Replayed(g[n - 1], txs[n])]
           r == ReplayStates(start, txs)
<1>1. N \in Nat /\ a \in ReplayState
  BY DEF ReplayState
<1>2. \A n \in 1 .. N : txs[n] \in Txs
  OBVIOUS
<1>3. f \in [1 .. N -> [ReplayState -> ReplayState]]
  BY <1>2, ReplayedType
<1>4. PICK g \in [0 .. N -> ReplayState] : Iterates(g, f, a, N)
  <2> HIDE DEF f, N, a
  <2> QED
    BY <1>1, <1>3, RecursionHasSolution, Zenon
<1>5. g[0] = a /\ \A n \in 1 .. N : g[n] = Replayed(g[n - 1], txs[n])
  <2>1. ASSUME NEW n \in 1 .. N PROVE g[n - 1] \in ReplayState
    BY <1>1
  <2> QED
    BY <1>4, <2>1, Zenon DEF Iterates
<1>6. Defines(g)
  <2> HIDE DEF a
  <2> QED
    BY <1>5
<1>7. r = CHOOSE s : Defines(s)
  BY DEF ReplayStates, Replayed
<1>8. Defines(r)
  <2> HIDE DEF Defines, r
  <2> QED
    BY <1>6, <1>7
<1>9. r[0] = a
  <2> HIDE DEF r, a
  <2> QED
    BY <1>1, <1>8
<1>10. \A n \in 1 .. N : r[n] = Replayed(r[n - 1], txs[n])
  <2> HIDE DEF r, a
  <2> QED
    BY <1>1, <1>8
<1>11. StepAlike(r, g, N)
  <2> HIDE DEF r, a
  <2> QED
    BY <1>5, <1>9, <1>10 DEF StepAlike
<1>12. Alike(r, g, N)
  <2> HIDE DEF r, N, a
  <2> QED
    BY <1>1, <1>11, RecursionIsUnique
<1>13. r \in [0 .. N -> ReplayState]
  <2> HIDE DEF r, a
  <2> QED
    BY <1>8, <1>12 DEF Alike
<1> QED
  BY <1>9, <1>10, <1>13

(* Replaying one more transaction is one more step of the replay. *)
LEMMA ReplayAppend ==
  ASSUME NEW start \in States, NEW txs \in Seq(Txs), NEW tx \in Txs
  PROVE  /\ ReplayFrom(start, txs) \in ReplayState
         /\ ReplayFrom(start, Append(txs, tx)) = Replayed(ReplayFrom(start, txs), tx)
<1> DEFINE N == Len(txs)
           more == Append(txs, tx)
           g == ReplayStates(start, txs)
           h == ReplayStates(start, more)
<1>1. /\ N \in Nat /\ more \in Seq(Txs) /\ Len(more) = N + 1
      /\ more[N + 1] = tx /\ \A n \in 1 .. N : more[n] = txs[n]
  OBVIOUS
<1>2. /\ g \in [0 .. N -> ReplayState] /\ g[0] = [state |-> start, zkGas |-> 0]
      /\ \A n \in 1 .. N : g[n] = Replayed(g[n - 1], txs[n])
  BY ReplaySteps
<1>3. /\ h[0] = [state |-> start, zkGas |-> 0]
      /\ \A n \in 1 .. N + 1 : h[n] = Replayed(h[n - 1], more[n])
  <2> HIDE DEF more
  <2> QED
    BY <1>1, ReplaySteps
<1> HIDE DEF g, h, more
<1>4. StepAlike(h, g, N)
  BY <1>1, <1>2, <1>3 DEF StepAlike
<1>5. Alike(h, g, N)
  BY <1>1, <1>4, RecursionIsUnique
<1>6. h[N] = g[N] /\ g[N] \in ReplayState
  BY <1>1, <1>2, <1>5 DEF Alike
<1>7. h[N + 1] = Replayed(h[N], tx)
  BY <1>1, <1>3
<1> QED
  BY <1>1, <1>6, <1>7 DEF ReplayFrom, g, h, more

-----------------------------------------------------------------------------
(* CommittedTotalIsWork is not inductive by itself: a commit adds what is   *)
(* in flight, so the meter of a running transaction must follow the         *)
(* definition item by item.                                                 *)
CommittedFrom(start) ==
  /\ meter.block = reserved + ReplayFrom(start, receipts).zkGas
  /\ state = ReplayFrom(start, receipts).state

WorkFrom(start) ==
  /\ CommittedFrom(start)
  /\ phase \in {"running", "executed"} =>
       /\ pos \in 0 .. Len(CurRun.work)
       /\ meter.tx = RunningZkGas(CurRun.work)[pos]
  /\ phase = "executed" => pos = Len(CurRun.work)

(* A new executor has committed nothing, whatever state it starts in. *)
LEMMA FreshWork ==
  ASSUME NEW start \in States, receipts = <<>>, state = start, reserved = 0,
         meter.block = 0, phase = "ready"
  PROVE  WorkFrom(start)
<1>1. <<>> \in Seq(Txs) /\ Len(<<>>) = 0
  OBVIOUS
<1>2. ReplayStates(start, <<>>)[0] = [state |-> start, zkGas |-> 0]
  BY <1>1, ReplaySteps, Zenon
<1>3. ReplayFrom(start, receipts) = [state |-> start, zkGas |-> 0]
  BY <1>1, <1>2 DEF ReplayFrom
<1> QED
  BY <1>3 DEF WorkFrom, CommittedFrom

(* A step that commits and reserves nothing and leaves no transaction       *)
(* running.                                                                 *)
LEMMA IdleWork ==
  ASSUME NEW start \in States, WorkFrom(start), meter'.block = meter.block, UNCHANGED <<state, receipts, reserved>>,
         phase' \notin {"running", "executed"}
  PROVE  WorkFrom(start)'
<1>1. CommittedFrom(start)'
  BY DEF WorkFrom, CommittedFrom
<1> QED
  BY <1>1 DEF WorkFrom

LEMMA OverflowWork ==
  ASSUME NEW start \in States, IInv, WorkFrom(start), Overflow
  PROVE  WorkFrom(start)'
<1>1. meter'.block = meter.block
  BY DEF Overflow, ResetCurrentTransactionZkGas, ResetTransaction
<1> QED
  BY <1>1, IdleWork DEF Overflow, ReturnTo

LEMMA ResetReturnWork ==
  ASSUME NEW start \in States, WorkFrom(start), ResetCurrentTransactionZkGas, NEW r, ReturnTo(r)
  PROVE  WorkFrom(start)'
<1>1. meter'.block = meter.block
  BY DEF ResetCurrentTransactionZkGas, ResetTransaction
<1> QED
  BY <1>1, IdleWork DEF ReturnTo

(* Entering transact: the intrinsic charge is the first of the sums. *)
LEMMA StartWork ==
  ASSUME NEW start \in States, IInv, WorkFrom(start), NEW tx \in Txs, StartTransact(tx)
  PROVE  WorkFrom(start)'
<1>1. CASE ChargeExceeds(ResetTransaction(meter), TxIntrinsic)
  BY <1>1, OverflowWork DEF StartTransact
<1>2. CASE ~ChargeExceeds(ResetTransaction(meter), TxIntrinsic)
  <2>1. /\ meter'.block = meter.block /\ meter'.tx = 0 + TxIntrinsic
        /\ UNCHANGED <<state, receipts, reserved>>
        /\ phase' = "running" /\ cur' = tx /\ pos' = 0
    BY <1>2 DEF StartTransact, ChargeAmount, ResetTransaction
  <2>2. CurRun' = Run[tx][state] /\ state \in States
    BY <2>1 DEF CurRun, IInv, TypeOK
  <2>3. Run[tx][state].work \in Seq(WorkItem)
    BY <2>2, ExecutorAssumption DEF RunResult
  <2>4. RunningZkGas(Run[tx][state].work)[0] = TxIntrinsic /\ TxIntrinsic \in Nat
    BY <2>3, RunningZkGasSteps, MeterAssumption
  <2>5. 0 \in 0 .. Len(Run[tx][state].work)
    BY <2>3
  <2>6. CommittedFrom(start)'
    BY <2>1 DEF WorkFrom, CommittedFrom
  <2> QED
    BY <2>1, <2>2, <2>4, <2>5, <2>6 DEF WorkFrom
<1> QED
  BY <1>1, <1>2

(* One charge inside transact is the next of the sums. *)
LEMMA ChargedWork ==
  ASSUME NEW start \in States, IInv, WorkFrom(start), TransactCharge
  PROVE  WorkFrom(start)'
<1> DEFINE w == CurRun.work[pos + 1]
<1>1. CASE WorkExceeds(meter, w)
  BY <1>1, OverflowWork DEF TransactCharge
<1>2. CASE ~WorkExceeds(meter, w)
  <2>1. /\ meter'.block = meter.block /\ meter'.tx = meter.tx + WorkAmount(w)
        /\ UNCHANGED <<state, receipts, reserved, phase, cur>> /\ pos' = pos + 1
        /\ phase = "running" /\ pos < Len(CurRun.work)
    BY <1>2 DEF TransactCharge, ChargeWork, ChargeAmount
  <2>2. CurRun' = CurRun /\ CurRun \in RunResult
    BY <2>1, CurRunType DEF CurRun, IInv, TypeOK
  <2>3. CurRun.work \in Seq(WorkItem)
    BY <2>2 DEF RunResult
  <2>4. pos \in Nat /\ pos + 1 \in 1 .. Len(CurRun.work) /\ pos + 1 - 1 = pos
    BY <2>1, <2>3 DEF IInv, TypeOK
  <2>5. RunningZkGas(CurRun.work)[pos + 1] = RunningZkGas(CurRun.work)[pos] + WorkAmount(w)
    BY <2>3, <2>4, RunningZkGasSteps
  <2>6. meter.tx = RunningZkGas(CurRun.work)[pos]
    BY <2>1 DEF WorkFrom
  <2>7. CommittedFrom(start)'
    BY <2>1 DEF WorkFrom, CommittedFrom
  <2>8. meter'.tx = RunningZkGas(CurRun'.work)[pos'] /\ pos' \in 0 .. Len(CurRun'.work)
    BY <2>1, <2>2, <2>4, <2>5, <2>6
  <2> QED
    BY <2>1, <2>7, <2>8 DEF WorkFrom
<1> QED
  BY <1>1, <1>2

(* A commit adds exactly what a replay of the transaction costs. *)
LEMMA CommittedWork ==
  ASSUME NEW start \in States, IInv, WorkFrom(start), Commit
  PROVE  WorkFrom(start)'
<1>1. Exact(meter) /\ ~CommitWouldExceed(meter)
  BY CommitFits DEF IInv, TypeOK, BudgetExact, Exact
<1>2. /\ meter'.block = meter.block + meter.tx /\ state' = CurRun.next
      /\ receipts' = Append(receipts, cur) /\ phase' = "ready" /\ UNCHANGED reserved
      /\ phase = "executed"
  BY <1>1 DEF Commit, CommitTransaction
<1>3. cur \in Txs /\ receipts \in Seq(Txs) /\ start \in States
  BY <1>2, ExecutorAssumption DEF IInv, TypeOK
<1>4. meter.tx = TxZkGas(cur, state)
  BY <1>2 DEF WorkFrom, TxZkGas, CurRun
<1>5. ReplayFrom(start, receipts') = Replayed(ReplayFrom(start, receipts), cur) /\ ReplayFrom(start, receipts) \in ReplayState
  BY <1>2, <1>3, ReplayAppend
<1>6. state = ReplayFrom(start, receipts).state /\ meter.block = reserved + ReplayFrom(start, receipts).zkGas
  BY DEF WorkFrom, CommittedFrom
<1>7. /\ ReplayFrom(start, receipts').state = CurRun.next
      /\ ReplayFrom(start, receipts').zkGas = ReplayFrom(start, receipts).zkGas + TxZkGas(cur, state)
  BY <1>5, <1>6 DEF Replayed, CurRun
<1>8. TxZkGas(cur, state) \in Nat /\ ReplayFrom(start, receipts).zkGas \in Nat /\ reserved \in Nat
  BY <1>3, <1>5, TxZkGasType DEF IInv, TypeOK, ReplayState
<1>9. meter'.block = reserved' + ReplayFrom(start, receipts').zkGas
  BY <1>2, <1>4, <1>6, <1>7, <1>8
<1> QED
  BY <1>2, <1>7, <1>9 DEF WorkFrom, CommittedFrom

(* A reservation is counted in the total and in the sum of reservations. *)
LEMMA ReservedWork ==
  ASSUME NEW start \in States, IInv, WorkFrom(start), NEW amount \in Reservations, Reserve(amount)
  PROVE  WorkFrom(start)'
<1>1. CASE ReserveExceeds(meter, amount)
  BY <1>1, IdleWork DEF Reserve
<1>2. CASE ~ReserveExceeds(meter, amount)
  <2>1. /\ meter'.block = meter.block + amount /\ reserved' = reserved + amount
        /\ UNCHANGED <<state, receipts, phase>> /\ phase = "ready"
    BY <1>2 DEF Reserve, ReserveBlockBudget
  <2>2. amount \in Nat /\ reserved \in Nat
    BY ExecutorAssumption, MeterAssumption DEF U64, IInv, TypeOK
  <2>3. ReplayFrom(start, receipts).zkGas \in Nat
    <3>1. start \in States /\ receipts \in Seq(Txs) /\ Len(receipts) \in 0 .. Len(receipts)
      BY ExecutorAssumption DEF IInv, TypeOK
    <3>2. ReplayFrom(start, receipts) \in ReplayState
      BY <3>1, ReplaySteps, Zenon DEF ReplayFrom
    <3> QED
      BY <3>2 DEF ReplayState
  <2>4. meter'.block = reserved' + ReplayFrom(start, receipts').zkGas
    BY <2>1, <2>2, <2>3 DEF WorkFrom, CommittedFrom
  <2> QED
    BY <2>1, <2>4 DEF WorkFrom, CommittedFrom
<1> QED
  BY <1>1, <1>2

LEMMA NextWork ==
  ASSUME NEW start \in States, IInv, WorkFrom(start), [Next]_vars
  PROVE  WorkFrom(start)'
<1>1. CASE RefuseExhausted
  BY <1>1, IdleWork DEF RefuseExhausted, ReturnTo
<1>2. ASSUME NEW tx \in Txs, RefuseGasLimit(tx) PROVE WorkFrom(start)'
  BY <1>2, IdleWork DEF RefuseGasLimit, ReturnTo
<1>3. CASE TransactInvalid \/ TransactFatal \/ Discard \/ ClearZkGasExhaustion
  BY <1>3, ResetReturnWork DEF TransactInvalid, TransactFatal, Discard, ClearZkGasExhaustion
<1>4. CASE TransactDone
  <2>1. ~CommitWouldExceed(meter)
    BY CommitFits DEF IInv, TypeOK, BudgetExact, Exact
  <2>2. UNCHANGED <<meter, state, receipts, reserved, cur, pos>> /\ phase = "running"
        /\ pos = Len(CurRun.work)
    BY <1>4, <2>1 DEF TransactDone
  <2>3. CurRun' = CurRun
    BY <2>2 DEF CurRun
  <2> QED
    BY <2>2, <2>3 DEF WorkFrom, CommittedFrom
<1>5. ASSUME NEW expected \in U64 \cup {NoExpectation}, Finish(expected) PROVE WorkFrom(start)'
  BY <1>5, IdleWork DEF Finish
<1>6. CASE UNCHANGED vars
  BY <1>6 DEF vars, WorkFrom, CommittedFrom, CurRun
<1> QED
  BY <1>1, <1>2, <1>3, <1>4, <1>5, <1>6, StartWork, ChargedWork, CommittedWork, ReservedWork DEF Next

(* The committed total and state are what the receipts' transactions cost   *)
(* and do when replayed from the parent state: over every sequence of       *)
(* overflows, discards, clears and reservations no work is lost or counted  *)
(* twice (commit_transaction, reset_current_transaction_zk_gas).            *)
THEOREM CommittedIsReplayed == Spec => []CommittedTotalIsWork
<1> DEFINE WorkInv == WorkFrom(GenesisState)
<1>1. WorkInv => CommittedTotalIsWork
  BY DEF WorkFrom, CommittedFrom, CommittedTotalIsWork, Replay
<1>2. Init => WorkInv
  BY FreshWork, ExecutorAssumption DEF Init, NewMeter
<1>3. IInv /\ WorkInv /\ [Next]_vars => WorkInv'
  BY NextWork, ExecutorAssumption
<1> HIDE DEF WorkInv
<1> QED
  BY <1>1, <1>2, <1>3, InitIInv, NextIInv, PTL DEF Spec
=============================================================================
