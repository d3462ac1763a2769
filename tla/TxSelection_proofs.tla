------------------------- MODULE TxSelection_proofs -------------------------
(***************************************************************************)
(* Proofs about transaction selection, for every pool, budget, number of    *)
(* lists and sequence of calls on the overflow memory.  The executor's      *)
(* invariants are carried over: each step of a call is a step of its block  *)
(* executor, and a call starts with a new one.  The last sections are about *)
(* what is admitted to the lists of a call, and the work overflows cost.    *)
(***************************************************************************)
EXTENDS TxSelection, TaikoBlockExecutor_proofs


InCall == step \in {"loop", "call"}
Start == StartState[request.seed]
Before(mode) == IF mode = "rpc" THEN AnchorReserve ELSE 0
Overflowing(tx) == meter.block + Cost(tx, state) > BlockLimit

TxList == [txs : Seq(Txs), gas : Nat, da : Nat]

(* The types the proofs need. *)
TypeInv ==
  /\ overflows \in [Modes -> [Txs -> Seq(Seeds \cup Txs)]]
  /\ request \in Requests
  /\ step \in {"idle", "setup", "anchor", "loop", "call"}
  /\ todo \in Seq(Txs)
  /\ lists \in Seq(TxList) /\ lists # <<>>
  /\ firstGas \in Nat /\ rerunGas \in Nat

(* Where a call stands: what its executor has done for it so far. *)
CallInv ==
  /\ step \in {"setup", "anchor"} =>
       /\ receipts = <<>> /\ gasUsed = 0 /\ reserved = 0
       /\ digest = <<request.seed>> /\ lists = <<EmptyList>>
  /\ step = "setup" => phase = "ready" /\ ~exhausted
  /\ step = "anchor" => /\ request.mode = "payload"
                        /\ phase \in {"running", "executed"} => cur = Anchor
  /\ InCall => digest = <<request.seed>> \o receipts /\ reserved = Before(request.mode)
  /\ step = "loop" => phase = "ready" /\ ~exhausted
  /\ step = "call" =>
       /\ todo # <<>>
       /\ phase \in {"running", "executed"} => cur = Candidate
       /\ phase = "ready" /\ result = "zk_limit" => Overflowing(Candidate)
       /\ exhausted => result = "zk_limit"
  /\ step # "idle" => WorkFrom(Start)

(* The candidate being executed was let into the last list. *)
AdmittedInv ==
  step = "call" =>
    /\ Last(lists).gas + GasLimit[Candidate] <= GasPerList
    /\ Last(lists).da + DaSize[Candidate] <= MaxDa
    /\ GasLimit[Candidate] <= GasPerList
    /\ Guard > 0 /\ Last(lists).da + DaSize[Candidate] + Guard >= MaxDa =>
         ~(ZlibTxListSize(Append(Last(lists).txs, Candidate)) > MaxDa)

(* All lists but the last count at their limit. *)
GasInv ==
  /\ InCall => Listed(lists).gas <= (Len(lists) - 1) * GasPerList + Last(lists).gas
  /\ InCall /\ request.mode = "payload" => AnchorGasLimit <= BlockGasLimit

(* What overflows may still cost. *)
AllowanceInv ==
  /\ step \in {"setup", "anchor"} => firstGas = 0
  /\ InCall /\ firstGas > 0 => firstGas < GasPerList
  /\ firstGas > 0 => firstGas < 2 * GasPerList
  /\ rerunGas > 0 => rerunGas < 2 * GasPerList
  /\ step = "call" /\ remembered # NoDigest => rerunGas < GasPerList

-----------------------------------------------------------------------------
(* mark_invalid keeps or leaves out one more transaction. *)
Kept(sender, txs, tx) == IF Sender[tx] = sender THEN txs ELSE Append(txs, tx)

(* A list that was just opened holds nothing. *)
LEMMA EmptyListTxs == EmptyList.txs = <<>>
BY DEF EmptyList

(* The element of a sequence of one. *)
LEMMA OnlyElement ==
  ASSUME NEW x, NEW i \in DOMAIN <<x>>
  PROVE  <<x>>[i] = x
OBVIOUS

(* A sequence is indexed from 1 to its length. *)
LEMMA SeqDomain ==
  ASSUME NEW S, NEW s \in Seq(S)
  PROVE  DOMAIN s = 1 .. Len(s)
OBVIOUS

(* Arithmetic of the allowance for overflows: below one list's gas, a        *)
(* candidate that fits a list takes it to less than two.                    *)
LEMMA NotPositive == ~(0 > 0)
OBVIOUS

LEMMA TwoLists ==
  ASSUME NEW a \in Nat, NEW g \in Nat, NEW G \in Nat, a > 0 => a < G, g <= G
  PROVE  a + g > 0 => a + g < 2 * G
OBVIOUS

LEMMA RerunTwoLists ==
  ASSUME NEW a \in Nat, NEW g \in Nat, NEW G \in Nat, a < G, g <= G
  PROVE  a + g < 2 * G
OBVIOUS

LEMMA NotReached ==
  ASSUME NEW a \in Nat, NEW g \in Nat, NEW G \in Nat, ~(a + g >= G)
  PROVE  a + g < G
OBVIOUS

LEMMA BothBelow ==
  ASSUME NEW a \in Nat, NEW b \in Nat, NEW G \in Nat, a + b > 0, a > 0 => a < 2 * G, b > 0 => b < 2 * G,
         NEW m \in {a, b}
  PROVE  m < 2 * G
OBVIOUS

LEMMA MaxOfTwo ==
  ASSUME NEW a \in Nat, NEW b \in Nat
  PROVE  Max({a, b}) \in {a, b} /\ a <= Max({a, b}) /\ b <= Max({a, b})
<1>1. \E x \in {a, b} : \A y \in {a, b} : x >= y
  OBVIOUS
<1>2. Max({a, b}) \in {a, b} /\ \A y \in {a, b} : Max({a, b}) >= y
  BY Zenon, <1>1 DEF Max
<1> QED
  BY <1>2

(* Arithmetic of a limit that is not exceeded. *)
LEMMA AtMost ==
  ASSUME NEW a \in Nat, NEW b \in Nat, NEW limit \in Nat, ~(a + b > limit)
  PROVE  a + b <= limit
OBVIOUS

Filters(g, sender, txs) ==
  g[0] = <<>> /\ \A n \in 1 .. Len(txs) : g[n] = Kept(sender, g[n - 1], txs[n])

LEMMA WithoutSenderSteps ==
  ASSUME NEW sender, NEW txs \in Seq(Txs)
  PROVE  \E g \in [0 .. Len(txs) -> Seq(Txs)] :
           Filters(g, sender, txs) /\ WithoutSender(sender, txs) = g[Len(txs)]
<1> DEFINE N == Len(txs)
           a == <<>>
           f == [n \in 1 .. N |-> [s \in Seq(Txs) |-> Kept(sender, s, txs[n])]]
           Defines(g) == g = [n \in 0 .. N |-> IF n = 0 THEN a ELSE Kept(sender, g[n - 1], txs[n])]
           r == CHOOSE g : Defines(g)
<1>1. N \in Nat /\ a \in Seq(Txs) /\ \A n \in 1 .. N : txs[n] \in Txs
  OBVIOUS
<1>2. f \in [1 .. N -> [Seq(Txs) -> Seq(Txs)]]
  BY <1>1 DEF Kept
<1>3. PICK g \in [0 .. N -> Seq(Txs)] : Iterates(g, f, a, N)
  <2> HIDE DEF f, N, a
  <2> QED
    BY Zenon, <1>1, <1>2, RecursionHasSolution
<1>4. g[0] = a /\ \A n \in 1 .. N : g[n] = Kept(sender, g[n - 1], txs[n])
  <2>1. ASSUME NEW n \in 1 .. N PROVE g[n - 1] \in Seq(Txs)
    BY <1>1
  <2> HIDE DEF a
  <2> QED
    BY Zenon, <1>3, <2>1 DEF Iterates
<1>5. Defines(g)
  <2> HIDE DEF a
  <2> QED
    BY <1>4
<1>6. Defines(r)
  <2> HIDE DEF Defines
  <2> QED
    BY <1>5
<1>7. r[0] = a
  <2> HIDE DEF r, a
  <2> QED
    BY <1>1, <1>6
<1>8. \A n \in 1 .. N : r[n] = Kept(sender, r[n - 1], txs[n])
  <2> HIDE DEF r, a
  <2> QED
    BY <1>1, <1>6
<1>9. StepAlike(r, g, N)
  <2> HIDE DEF r, a
  <2> QED
    BY <1>4, <1>7, <1>8 DEF StepAlike
<1>10. Alike(r, g, N)
  <2> HIDE DEF r, N, a
  <2> QED
    BY <1>1, <1>9, RecursionIsUnique
<1>11. r[N] = g[N]
  <2> HIDE DEF r, a
  <2> QED
    BY <1>1, <1>10 DEF Alike
<1>12. WithoutSender(sender, txs) = r[N]
  BY DEF WithoutSender, Kept
<1>13. Filters(g, sender, txs)
  BY Zenon, <1>4 DEF Filters
<1> HIDE DEF r
<1> QED
  BY Zenon, <1>3, <1>11, <1>12, <1>13

(* What mark_invalid leaves are transactions of the pool. *)
LEMMA WithoutSenderType ==
  ASSUME NEW sender, NEW txs \in Seq(Txs)
  PROVE  WithoutSender(sender, txs) \in Seq(Txs)
<1>1. PICK g \in [0 .. Len(txs) -> Seq(Txs)] : WithoutSender(sender, txs) = g[Len(txs)]
  BY Zenon, WithoutSenderSteps
<1> QED
  BY <1>1

-----------------------------------------------------------------------------
(* The executor under selection.                                            *)

(* A call starts on a new executor. *)
LEMMA BeginIInv ==
  ASSUME NEW r \in Requests, Begin(r)
  PROVE  IInv'
<1>1. Exact(meter')
  BY NewMeterExact DEF Begin
<1>2. meter'.block = 0 /\ meter'.tx = 0 /\ meter'.remaining = BlockLimit
  BY DEF Begin, NewMeter
<1>3. 0 \in U64 /\ BlockLimit - 0 = BlockLimit
  BY MeterAssumption DEF U64
<1>4. TypeOK'
  <2>1. receipts' \in Seq(Txs) /\ meter' \in Meter /\ published' \in U64 /\ state' \in States
    BY <1>1, <1>3, SelectionAssumption DEF Begin, Exact
  <2>2. phase' \in Phases /\ phase' \notin {"running", "executed"} /\ result' \in Results
    BY DEF Begin, Phases, Results
  <2>3. exhausted' \in BOOLEAN /\ cur' \in Txs \cup {NoTx}
    BY Zenon DEF Begin
  <2>4. gasUsed' \in Nat /\ reserved' \in Nat /\ pos' \in Nat
    BY DEF Begin
  <2> QED
    BY <2>1, <2>2, <2>3, <2>4 DEF TypeOK
<1> QED
  BY <1>1, <1>2, <1>3, <1>4, ExecutorAssumption
  DEF Begin, IInv, BudgetExact, Exact, NeverPanics, PublishedIsCommitted, NothingInFlight,
      GasWithinBlock, AdmittedGasFits, ExhaustedIsIdle

LEMMA CandidateType ==
  ASSUME TypeInv, todo # <<>>
  PROVE  Candidate \in Txs /\ Tail(todo) \in Seq(Txs)
BY DEF TypeInv, Candidate

(* Every other step is one of the executor's, or none of its. *)
LEMMA SelectionIsExecution ==
  ASSUME TypeInv, CallInv, [SelNext]_allVars, ~(\E r \in Requests : Begin(r))
  PROVE  [Next]_vars
<1>1. CASE ReserveForAnchor
  BY <1>1, SelectionAssumption DEF ReserveForAnchor, Next
<1>2. CASE ExecuteAnchor
  BY <1>2, SelectionAssumption DEF ExecuteAnchor, Next
<1>3. CASE AnchorCommitted \/ Included
  BY <1>3 DEF AnchorCommitted, Included, Next
<1>4. CASE AnchorFailed \/ PoolDrained \/ Cancelled \/ BudgetDrained \/ FatalError
  BY <1>4 DEF AnchorFailed, PoolDrained, Cancelled, BudgetDrained, FatalError, Stop
<1>5. CASE Ineligible \/ SkipRemembered \/ SkipRerun \/ NoRoom \/ RejectedByEvm
  BY Zenon, <1>5 DEF Ineligible, SkipRemembered, SkipRerun, NoRoom, RejectedByEvm, Drop
<1>6. CASE Execute
  <2>1. Candidate \in Txs
    BY <1>6, CandidateType DEF Execute, Runnable, InLoop
  <2> QED
    BY <1>6, <2>1 DEF Execute, Next
<1>7. CASE Transact
  BY <1>7 DEF Transact, Next
<1>8. CASE OverflowedAgain \/ OverflowedFirst
  BY <1>8 DEF OverflowedAgain, OverflowedFirst, Unexhaust, Next
<1>9. ASSUME NEW m \in Modes, NEW tx \in Txs \ {Anchor}, NEW s \in Seeds,
              NEW d \in ForeignDigests(m, s), ForeignRecord(m, tx, d)
      PROVE  UNCHANGED vars
  BY <1>9 DEF ForeignRecord
<1>10. ASSUME NEW m \in Modes, NEW tx \in Txs \ {Anchor}, ForeignForget(m, tx)
       PROVE  UNCHANGED vars
  BY <1>10 DEF ForeignForget
<1>11. CASE UNCHANGED allVars
  BY <1>11 DEF allVars
<1> QED
  BY <1>1, <1>2, <1>3, <1>4, <1>5, <1>6, <1>7, <1>8, <1>9, <1>10, <1>11 DEF SelNext, SelectionStep

LEMMA SelIInv == TypeInv /\ CallInv /\ IInv /\ [SelNext]_allVars => IInv'
BY BeginIInv, SelectionIsExecution, NextIInv

-----------------------------------------------------------------------------
(* Types.                                                                   *)

Digests == Seq(Seeds \cup Txs)

LEMMA RequestFacts ==
  ASSUME NEW r \in Requests
  PROVE  r.mode \in Modes /\ r.seed \in Seeds /\ r.pool \in Seq(Txs) /\ StartState[r.seed] \in States
<1>1. r.mode \in Modes /\ r.seed \in Seeds /\ r.pool \in Seq(Txs \ {Anchor})
  BY SelectionAssumption
<1> QED
  BY <1>1, SelectionAssumption

LEMMA EmptyListType == EmptyList \in TxList
BY DEF EmptyList, TxList

LEMMA GasPerListType == ASSUME TypeInv PROVE GasPerList \in Nat
<1>0. BlockGasLimit \in Nat /\ AnchorGasLimit \in Nat
  BY Zenon, SelectionAssumption, ExecutorAssumption
<1>1. SaturatingSub(BlockGasLimit, AnchorGasLimit) \in Nat
  BY <1>0 DEF SaturatingSub
<1> QED
  BY <1>1, SelectionAssumption DEF GasPerList

LEMMA ListShape ==
  ASSUME TypeInv
  PROVE  Len(lists) \in Nat \ {0} /\ DOMAIN lists = 1 .. Len(lists) /\ Last(lists) \in TxList
BY DEF TypeInv, Last

(* The lists when a new one is opened. *)
LEMMA OpenedLists ==
  ASSUME TypeInv, lists' = Append(lists, EmptyList)
  PROVE  /\ lists' \in Seq(TxList) /\ Len(lists') = Len(lists) + 1 /\ Last(lists)' = EmptyList
         /\ \A i \in 1 .. Len(lists) : lists'[i] = lists[i]
         /\ \A i \in DOMAIN lists' : i \in 1 .. Len(lists) \/ lists'[i] = EmptyList
<1>1. lists \in Seq(TxList)
  BY DEF TypeInv
<1> QED
  BY <1>1, EmptyListType DEF Last

(* A list opened for a candidate, or none. *)
LEMMA OpenedType ==
  ASSUME TypeInv, lists' = Append(lists, EmptyList) \/ UNCHANGED lists
  PROVE  lists' \in Seq(TxList) /\ lists' # <<>>
<1>1. lists \in Seq(TxList) /\ lists # <<>>
  BY DEF TypeInv
<1>2. Append(lists, EmptyList) \in Seq(TxList) /\ Len(Append(lists, EmptyList)) = Len(lists) + 1
  BY <1>1, EmptyListType
<1>3. Append(lists, EmptyList) # <<>>
  BY <1>1, <1>2
<1> QED
  BY <1>1, <1>2, <1>3

(* The last list, with the candidate in it. *)
Extended(list) ==
  [txs |-> Append(list.txs, Candidate), gas |-> list.gas + CurRun.gas, da |-> list.da + DaSize[Candidate]]

LEMMA ExtendedFields ==
  ASSUME NEW list
  PROVE  Extended(list).txs = Append(list.txs, Candidate) /\ Extended(list).da = list.da + DaSize[Candidate]
BY DEF Extended

(* Including the candidate changes the last list and no other. *)
LEMMA IncludedLists ==
  ASSUME TypeInv, CallInv, IInv, Included
  PROVE  /\ lists' \in Seq(TxList) /\ Len(lists') = Len(lists) /\ Len(lists) \in Nat \ {0}
         /\ lists'[Len(lists)] = Extended(Last(lists))
         /\ \A i \in 1 .. Len(lists) - 1 : lists'[i] = lists[i]
         /\ Last(lists) \in TxList
<1>1. todo # <<>> /\ phase = "executed" /\ cur = Candidate /\ Candidate \in Txs
  BY CandidateType DEF Included, CallInv
<1>2. CurRun.gas \in Nat /\ DaSize[Candidate] \in Nat
  BY <1>1, CurRunType, SelectionAssumption DEF IInv
<1>3. Len(lists) \in Nat \ {0} /\ Last(lists) \in TxList
  BY DEF TypeInv, Last
<1>4. Last(lists).txs \in Seq(Txs) /\ Last(lists).gas \in Nat /\ Last(lists).da \in Nat
  BY <1>3 DEF TxList
<1>5. Extended(Last(lists)) \in TxList
  BY <1>1, <1>2, <1>4 DEF Extended, TxList
<1>6. lists' = [lists EXCEPT ![Len(lists)] = Extended(Last(lists))]
  BY DEF Included, Extended, Last
<1> QED
  BY <1>3, <1>5, <1>6 DEF TypeInv

LEMMA DigestType ==
  ASSUME TypeInv, CallInv, IInv, InCall
  PROVE  digest \in Digests
<1>1. request.seed \in Seeds
  BY RequestFacts DEF TypeInv
<1>2. receipts \in Seq(Seeds \cup Txs)
  BY DEF IInv, TypeOK
<1>3. <<request.seed>> \in Seq(Seeds \cup Txs)
  BY <1>1
<1>4. digest = <<request.seed>> \o receipts
  BY Zenon DEF CallInv
<1> QED
  BY <1>2, <1>3, <1>4 DEF Digests

LEMMA ForeignDigestType ==
  ASSUME NEW m \in Modes, NEW s \in Seeds, NEW d \in ForeignDigests(m, s)
  PROVE  d \in Digests
<1>1. Anchor \in Seeds \cup Txs /\ s \in Seeds \cup Txs
  BY SelectionAssumption
<1>2. ForeignBase(m, s) \in Digests
  <2> DEFINE E == Seeds \cup Txs
  <2>1. Anchor \in E /\ s \in E
    BY <1>1
  <2> HIDE DEF E
  <2>2. <<s, Anchor>> \in Seq(E) /\ <<s>> \in Seq(E)
    BY <2>1
  <2> QED
    BY Zenon, <2>2 DEF Digests, ForeignBase, E
<1>3. ASSUME NEW tx \in Txs PROVE Append(ForeignBase(m, s), tx) \in Digests
  BY <1>2 DEF Digests
<1> QED
  BY Zenon, <1>2, <1>3 DEF ForeignDigests

(* retain forgets, and forgets only. *)
LEMMA RetainedMemory ==
  ASSUME TypeInv, NEW d, EnterLoop(d)
  PROVE  /\ overflows' \in [Modes -> [Txs -> Digests]]
         /\ \A m \in Modes, tx \in Txs : overflows'[m][tx] \in {NoDigest, overflows[m][tx]}
<1>1. request.mode \in Modes
  BY RequestFacts DEF TypeInv
<1>2. overflows \in [Modes -> [Txs -> Digests]]
  BY DEF TypeInv, Digests
<1>3. NoDigest \in Digests
  BY DEF NoDigest, Digests
<1> DEFINE kept == [tx \in Txs |-> IF tx \in Range(request.pool) THEN overflows[request.mode][tx] ELSE NoDigest]
<1>4. kept \in [Txs -> Digests]
  BY <1>1, <1>2, <1>3
<1>5. overflows' = [overflows EXCEPT ![request.mode] = kept]
  BY DEF EnterLoop
<1>6. \A tx \in Txs : kept[tx] \in {NoDigest, overflows[request.mode][tx]}
  OBVIOUS
<1> HIDE DEF kept
<1> QED
  BY <1>1, <1>2, <1>4, <1>5, <1>6

(* One entry of the memory is overwritten. *)
LEMMA WrittenMemory ==
  ASSUME TypeInv, NEW m \in Modes, NEW tx \in Txs, NEW d \in Digests,
         overflows' = [overflows EXCEPT ![m][tx] = d]
  PROVE  /\ overflows' \in [Modes -> [Txs -> Digests]]
         /\ \A n \in Modes, t \in Txs :
              overflows'[n][t] = IF n = m /\ t = tx THEN d ELSE overflows[n][t]
<1>1. overflows \in [Modes -> [Txs -> Digests]]
  BY DEF TypeInv, Digests
<1> QED
  BY <1>1

LEMMA InitTypeInv == SelInit => TypeInv
<1> SUFFICES ASSUME SelInit PROVE TypeInv
  OBVIOUS
<1>1. overflows \in [Modes -> [Txs -> Seq(Seeds \cup Txs)]]
  BY DEF SelInit, NoDigest
<1>2. lists \in Seq(TxList) /\ lists # <<>>
  BY EmptyListType DEF SelInit
<1> QED
  BY <1>1, <1>2 DEF SelInit, TypeInv

LEMMA NextTypeInv == TypeInv /\ CallInv /\ IInv /\ [SelNext]_allVars => TypeInv'
<1> SUFFICES ASSUME TypeInv, CallInv, IInv, [SelNext]_allVars PROVE TypeInv'
  OBVIOUS
<1> USE DEF TypeInv
<1>1. ASSUME NEW r \in Requests, Begin(r) PROVE TypeInv'
  <2>1. lists' \in Seq(TxList) /\ lists' # <<>>
    BY <1>1, EmptyListType DEF Begin
  <2> QED
    BY <1>1, <2>1 DEF Begin
<1>2. ASSUME NEW d, EnterLoop(d) PROVE TypeInv'
  <2>1. overflows' \in [Modes -> [Txs -> Seq(Seeds \cup Txs)]]
    BY <1>2, RetainedMemory DEF Digests
  <2> QED
    BY <1>2, <2>1, RequestFacts DEF EnterLoop
<1>3. ASSUME NEW a, Return(a) PROVE TypeInv'
  BY <1>3 DEF Return
<1>4. CASE ReserveForAnchor \/ AnchorCommitted \/ AnchorFailed \/ PoolDrained \/ Cancelled
           \/ BudgetDrained \/ FatalError
  BY <1>2, <1>3, <1>4 DEF ReserveForAnchor, AnchorCommitted, AnchorFailed, PoolDrained, Cancelled,
                          BudgetDrained, FatalError, Stop
<1>5. CASE ExecuteAnchor
  BY <1>5 DEF ExecuteAnchor
<1>6. ASSUME InLoop, Drop(Candidate), lists' = Append(lists, EmptyList) \/ UNCHANGED lists PROVE TypeInv'
  <2>1. todo' \in Seq(Txs)
    BY ZenonT(30), <1>6, CandidateType, WithoutSenderType DEF InLoop, Drop, MarkInvalid
  <2> QED
    BY <1>6, <2>1, OpenedType DEF Drop
<1>7. CASE Ineligible \/ SkipRemembered \/ SkipRerun \/ NoRoom
  BY <1>6, <1>7 DEF Ineligible, SkipRemembered, SkipRerun, NoRoom, Runnable
<1>8. CASE Execute
  BY <1>8, OpenedType DEF Execute
<1>9. CASE Transact
  BY <1>9 DEF Transact, selVars
<1>10. CASE Included
  <2>0. step = "call" /\ step' = "loop" /\ todo' = Tail(todo) /\ request' = request
        /\ firstGas' = firstGas /\ rerunGas' = rerunGas
    BY Zenon, <1>10 DEF Included
  <2>1. todo # <<>> /\ Candidate \in Txs /\ Tail(todo) \in Seq(Txs)
    BY <2>0, CandidateType DEF CallInv
  <2>2. request.mode \in Modes /\ overflows[request.mode][Candidate] \in Digests /\ NoDigest \in Digests
    BY <2>1, RequestFacts DEF Digests, NoDigest
  <2>3. overflows' \in [Modes -> [Txs -> Seq(Seeds \cup Txs)]]
    BY Zenon, <1>10, <2>1, <2>2, WrittenMemory DEF Included, Digests
  <2>4. lists' \in Seq(TxList) /\ lists' # <<>>
    BY <1>10, IncludedLists
  <2> QED
    BY Zenon, <2>0, <2>1, <2>3, <2>4
<1>11. CASE OverflowedAgain \/ OverflowedFirst
  <2>1. Record /\ step = "call"
    BY <1>11 DEF OverflowedAgain, OverflowedFirst, Overran
  <2>2. todo # <<>> /\ Candidate \in Txs /\ Tail(todo) \in Seq(Txs) /\ digest \in Digests
    BY Zenon, <2>1, CandidateType, DigestType DEF CallInv, InCall
  <2>3. overflows' \in [Modes -> [Txs -> Seq(Seeds \cup Txs)]]
    BY <2>1, <2>2, WrittenMemory, RequestFacts DEF Record, Digests
  <2>4. todo' \in Seq(Txs)
    BY Zenon, <2>1, <2>2, WithoutSenderType DEF Record, MarkInvalid
  <2>5. GasLimit[Candidate] \in Nat
    BY <2>2, ExecutorAssumption
  <2>6. firstGas' \in Nat /\ rerunGas' \in Nat
    BY <1>11, <2>5 DEF OverflowedAgain, OverflowedFirst
  <2>7. step' \in {"loop", "idle"}
    BY <1>11 DEF OverflowedAgain, OverflowedFirst
  <2> QED
    BY <2>1, <2>3, <2>4, <2>6, <2>7 DEF Record
<1>12. CASE RejectedByEvm
  <2>1. todo' \in Seq(Txs)
    BY Zenon, <1>12, CandidateType, WithoutSenderType DEF RejectedByEvm, AfterInvalid, MarkInvalid,
       CallInv
  <2> QED
    BY <1>12, <2>1 DEF RejectedByEvm
<1>13. ASSUME NEW m \in Modes, NEW tx \in Txs \ {Anchor}, NEW s \in Seeds,
              NEW d \in ForeignDigests(m, s), ForeignRecord(m, tx, d)
       PROVE  TypeInv'
  <2>1. overflows' \in [Modes -> [Txs -> Seq(Seeds \cup Txs)]]
    BY <1>13, ForeignDigestType, WrittenMemory DEF ForeignRecord, Digests
  <2> QED
    BY <1>13, <2>1 DEF ForeignRecord
<1>14. ASSUME NEW m \in Modes, NEW tx \in Txs \ {Anchor}, ForeignForget(m, tx) PROVE TypeInv'
  <2>1. NoDigest \in Digests
    BY DEF Digests, NoDigest
  <2>2. overflows' \in [Modes -> [Txs -> Seq(Seeds \cup Txs)]]
    BY <1>14, <2>1, WrittenMemory DEF ForeignForget, Digests
  <2> QED
    BY <1>14, <2>2 DEF ForeignForget
<1>15. CASE UNCHANGED allVars
  BY <1>15 DEF allVars, selVars
<1> HIDE DEF TypeInv
<1> QED
  BY Zenon, <1>1, <1>4, <1>5, <1>7, <1>8, <1>9, <1>10, <1>11, <1>12, <1>13, <1>14, <1>15
  DEF SelNext, SelectionStep

-----------------------------------------------------------------------------
(* What an overflow means.                                                  *)

(* The running zk gas of a transaction never decreases. *)
LEMMA RunningZkGasGrows ==
  ASSUME NEW work \in Seq(WorkItem), NEW i \in 0 .. Len(work)
  PROVE  RunningZkGas(work)[i] <= RunningZkGas(work)[Len(work)]
<1> DEFINE N == Len(work)
           r == RunningZkGas(work)
           T == {n \in i .. N : ~(r[i] <= r[n])}
<1>1. N \in Nat /\ i \in 0 .. N
  OBVIOUS
<1>2. r \in [0 .. N -> Nat] /\ \A n \in 1 .. N : r[n] = r[n - 1] + WorkAmount(work[n])
  BY RunningZkGasSteps
<1>3. \A n \in 1 .. N : WorkAmount(work[n]) \in Nat
  <2> SUFFICES ASSUME NEW n \in 1 .. N PROVE WorkAmount(work[n]) \in Nat
    OBVIOUS
  <2>1. work[n] \in WorkItem
    OBVIOUS
  <2>2. work[n].raw \in Nat /\ work[n].multiplier \in Nat
    BY <2>1, MeterAssumption DEF WorkItem, U64
  <2> QED
    BY <2>2 DEF WorkAmount
<1> HIDE DEF r, N
<1> SUFFICES ASSUME T # {} PROVE FALSE
  BY <1>1 DEF r, N
<1>4. PICK n \in T : \A m \in T : n <= m
  <2>1. T \in SUBSET Nat
    BY <1>1
  <2> HIDE DEF T
  <2> QED
    BY <2>1, LeastElement
<1>5. n \in i .. N /\ ~(r[i] <= r[n]) /\ n # i
  BY <1>1, <1>2, <1>4
<1>6. n - 1 \in i .. N /\ n \in 1 .. N /\ ~(n <= n - 1)
  BY <1>1, <1>5
<1>7. r[i] <= r[n - 1]
  BY <1>4, <1>6
<1>8. r[n] = r[n - 1] + WorkAmount(work[n]) /\ r[n - 1] \in Nat /\ WorkAmount(work[n]) \in Nat /\ r[i] \in Nat
  BY <1>1, <1>2, <1>3, <1>6
<1> QED
  BY <1>5, <1>7, <1>8

(* What a transaction has been charged so far is part of its cost. *)
LEMMA CostIsLast ==
  ASSUME NEW tx \in Txs, NEW s \in States
  PROVE  /\ Cost(tx, s) \in Nat /\ TxIntrinsic <= Cost(tx, s)
         /\ Run[tx][s].work \in Seq(WorkItem)
         /\ Run[tx][s].valid =>
              \A i \in 0 .. Len(Run[tx][s].work) : RunningZkGas(Run[tx][s].work)[i] <= Cost(tx, s)
<1>1. Run[tx][s].work \in Seq(WorkItem) /\ TxIntrinsic \in Nat
  <2>1. Run[tx][s] \in RunResult
    BY ExecutorAssumption
  <2> QED
    BY <2>1, MeterAssumption DEF RunResult
<1>2. \A i \in 0 .. Len(Run[tx][s].work) : RunningZkGas(Run[tx][s].work)[i] <= TxZkGas(tx, s)
  BY <1>1, RunningZkGasGrows DEF TxZkGas
<1>3. RunningZkGas(Run[tx][s].work)[0] = TxIntrinsic /\ 0 \in 0 .. Len(Run[tx][s].work)
  BY <1>1, RunningZkGasSteps
<1>4. TxIntrinsic <= TxZkGas(tx, s) /\ TxZkGas(tx, s) \in Nat
  BY <1>2, <1>3, TxZkGasType
<1> QED
  BY <1>1, <1>2, <1>4 DEF Cost

(* A refused intrinsic charge. *)
LEMMA StartOverflows ==
  ASSUME IInv, NEW tx \in Txs, phase = "ready", ChargeExceeds(ResetTransaction(meter), TxIntrinsic)
  PROVE  Overflowing(tx)
<1>1. meter.block \in Nat /\ meter.block <= BlockLimit /\ BlockLimit \in Nat /\ BlockLimit <= MaxU64
      /\ TxIntrinsic \in Nat /\ TxIntrinsic <= MaxU64 /\ MaxU64 \in Nat
  BY MeterAssumption DEF IInv, TypeOK, BudgetExact, Meter, U64
<1>2. TxIntrinsic > BlockLimit - meter.block
  BY <1>1 DEF ChargeExceeds, ResetTransaction, SaturatingSub
<1>3. Cost(tx, state) \in Nat /\ TxIntrinsic <= Cost(tx, state)
  BY Zenon, CostIsLast DEF IInv, TypeOK
<1> QED
  BY <1>1, <1>2, <1>3 DEF Overflowing

LEMMA WorkAmountType ==
  ASSUME NEW item \in WorkItem
  PROVE  WorkAmount(item) \in Nat
<1>1. item.raw \in Nat /\ item.multiplier \in Nat
  BY MeterAssumption DEF WorkItem, U64
<1> QED
  BY <1>1 DEF WorkAmount

(* A refused charge of an opcode, a spawn or a precompile. *)
LEMMA ChargeOverflows ==
  ASSUME IInv, NEW start \in States, WorkFrom(start), phase = "running", CurRun.valid,
         pos < Len(CurRun.work), WorkExceeds(meter, CurRun.work[pos + 1])
  PROVE  Overflowing(cur)
<1> DEFINE work == CurRun.work
           w == WorkAmount(work[pos + 1])
<1>1. cur \in Txs /\ state \in States /\ pos \in Nat
  BY Zenon DEF IInv, TypeOK
<1>2. /\ work \in Seq(WorkItem) /\ Cost(cur, state) \in Nat
      /\ \A i \in 0 .. Len(work) : RunningZkGas(work)[i] <= Cost(cur, state)
  BY Zenon, <1>1, CostIsLast DEF CurRun
<1>3. pos \in 0 .. Len(work) /\ pos + 1 \in 1 .. Len(work) /\ meter.tx = RunningZkGas(work)[pos]
  <2>1. pos \in 0 .. Len(work) /\ meter.tx = RunningZkGas(work)[pos]
    BY Zenon DEF WorkFrom
  <2>2. Len(work) \in Nat /\ pos < Len(work)
    BY <1>2
  <2> HIDE DEF work
  <2> QED
    BY <1>1, <2>1, <2>2
<1>4. RunningZkGas(work)[pos + 1] = RunningZkGas(work)[pos] + w
  <2>1. (pos + 1) - 1 = pos
    BY <1>1
  <2> HIDE DEF work
  <2> QED
    BY <1>2, <1>3, <2>1, RunningZkGasSteps
<1>5. RunningZkGas(work)[pos + 1] <= Cost(cur, state)
  BY <1>2, <1>3
<1>6. w \in Nat
  <2>1. work[pos + 1] \in WorkItem
    BY <1>2, <1>3
  <2> HIDE DEF work
  <2> QED
    BY Zenon, <2>1, WorkAmountType
<1>7. /\ meter.block \in Nat /\ meter.tx \in Nat /\ meter.remaining \in Nat
      /\ meter.block + meter.tx + meter.remaining = BlockLimit
      /\ BlockLimit \in Nat /\ BlockLimit <= MaxU64 /\ MaxU64 \in Nat
  BY MeterAssumption DEF IInv, TypeOK, BudgetExact, Meter, U64
<1>8. w > MaxU64 \/ w > meter.remaining \/ meter.tx + w > MaxU64
  BY DEF WorkExceeds, ChargeExceeds
<1> HIDE DEF work, w
<1>9. meter.tx + w <= Cost(cur, state)
  BY Zenon, <1>3, <1>4, <1>5
<1>10. meter.block + Cost(cur, state) > BlockLimit
  <2>1. Cost(cur, state) \in Nat
    BY Zenon, <1>2
  <2>2. meter.block + (meter.tx + w) > BlockLimit
    BY <1>6, <1>7, <1>8
  <2>3. meter.block \in Nat /\ meter.tx + w \in Nat /\ BlockLimit \in Nat
    BY <1>6, <1>7
  <2> QED
    BY <1>9, <2>1, <2>2, <2>3
<1> QED
  BY Zenon, <1>10 DEF Overflowing

-----------------------------------------------------------------------------
(* Where a call stands.                                                     *)

(* The executor keeps accounting for the receipts from the call's own start. *)
LEMMA SelWork ==
  ASSUME TypeInv, CallInv, IInv, step # "idle", [Next]_vars, UNCHANGED request
  PROVE  WorkFrom(Start)'
<1>1. PICK s \in States : s = Start
  BY RequestFacts DEF TypeInv, Start
<1>2. WorkFrom(s)
  BY <1>1 DEF CallInv
<1>3. WorkFrom(s)'
  BY <1>2, NextWork
<1>4. Start' = s
  BY <1>1 DEF Start
<1> QED
  BY <1>3, <1>4 DEF WorkFrom, CommittedFrom

(* A step that returns, or begins. *)
LEMMA IdleCall == ASSUME step' = "idle" PROVE CallInv'
BY DEF CallInv, InCall

LEMMA BeginCall ==
  ASSUME NEW r \in Requests, Begin(r)
  PROVE  CallInv'
<1>1. Start' \in States /\ state' = Start'
  BY RequestFacts DEF Begin, Start
<1>2. PICK s \in States : s = Start'
  BY <1>1
<1>3. WorkFrom(s)'
  <2>1. Len(<<>>) = 0 /\ <<>> \in Seq(Txs)
    OBVIOUS
  <2>2. ReplayStates(s, <<>>)[0] = [state |-> s, zkGas |-> 0]
    BY ZenonT(30), <2>1, ReplaySteps
  <2>3. ReplayFrom(s, receipts') = [state |-> s, zkGas |-> 0]
    BY <2>1, <2>2 DEF ReplayFrom, Begin
  <2>4. meter'.block = 0 /\ reserved' = 0 /\ phase' = "ready"
    BY DEF Begin, NewMeter
  <2> QED
    BY <1>1, <1>2, <2>3, <2>4 DEF WorkFrom, CommittedFrom
<1>4. WorkFrom(Start)'
  BY <1>2, <1>3 DEF WorkFrom, CommittedFrom
<1> QED
  BY <1>4 DEF Begin, CallInv, InCall, SelectionStateSeed

(* A transaction is started, refused or overflows at once. *)
LEMMA StartShape ==
  ASSUME NEW tx, StartTransact(tx) \/ RefuseGasLimit(tx)
  PROVE  /\ phase = "ready" /\ ~exhausted /\ UNCHANGED <<receipts, gasUsed, reserved, state>>
         /\ phase' \in {"ready", "running"} /\ meter'.block = meter.block
         /\ phase' = "running" => cur' = tx /\ ~exhausted'
         /\ phase' = "ready" =>
              \/ result' = "gas_limit" /\ ~exhausted'
              \/ /\ result' = "zk_limit"
                 /\ ChargeExceeds(ResetTransaction(meter), TxIntrinsic)
BY DEF StartTransact, RefuseGasLimit, Overflow, ReturnTo, ResetCurrentTransactionZkGas, ResetTransaction,
       ChargeAmount

(* One step inside transact. *)
TransactStep ==
  /\ phase = "running" /\ ~exhausted /\ UNCHANGED <<receipts, gasUsed, reserved, state>>
  /\ phase' \in {"ready", "running", "executed"} /\ meter'.block = meter.block
  /\ phase' # "ready" => UNCHANGED <<cur, result, exhausted>>
  /\ phase' = "ready" =>
       \/ result' \in {"invalid_tx", "fatal"} /\ ~exhausted'
       \/ /\ result' = "zk_limit" /\ CurRun.valid /\ pos < Len(CurRun.work)
          /\ WorkExceeds(meter, CurRun.work[pos + 1])

LEMMA RunningIsClear ==
  ASSUME IInv, phase = "running"
  PROVE  ~exhausted /\ ~CommitWouldExceed(meter)
<1>1. ~exhausted
  BY DEF IInv, ExhaustedIsIdle
<1>2. ~CommitWouldExceed(meter)
  BY CommitFits DEF IInv, TypeOK, BudgetExact, Exact
<1> QED
  BY <1>1, <1>2

LEMMA InvalidShape ==
  ASSUME IInv, TransactInvalid
  PROVE  TransactStep
<1>1. phase = "running" /\ ResetCurrentTransactionZkGas /\ ReturnTo("invalid_tx") /\ UNCHANGED exhausted
  BY DEF TransactInvalid
<1>2. meter'.block = meter.block
  BY <1>1 DEF ResetCurrentTransactionZkGas, ResetTransaction
<1> QED
  BY Zenon, <1>1, <1>2, RunningIsClear DEF TransactStep, ReturnTo

LEMMA FatalShape ==
  ASSUME IInv, TransactFatal
  PROVE  TransactStep
<1>1. phase = "running" /\ ResetCurrentTransactionZkGas /\ ReturnTo("fatal") /\ UNCHANGED exhausted
  BY DEF TransactFatal
<1>2. meter'.block = meter.block
  BY <1>1 DEF ResetCurrentTransactionZkGas, ResetTransaction
<1> QED
  BY Zenon, <1>1, <1>2, RunningIsClear DEF TransactStep, ReturnTo

LEMMA ChargeShape ==
  ASSUME IInv, TransactCharge
  PROVE  TransactStep
<1>1. phase = "running" /\ CurRun.valid /\ pos < Len(CurRun.work)
  BY DEF TransactCharge
<1>2. CASE WorkExceeds(meter, CurRun.work[pos + 1])
  <2>1. Overflow
    BY <1>2 DEF TransactCharge
  <2>2. ReturnTo("zk_limit") /\ meter'.block = meter.block
    BY <2>1 DEF Overflow, ResetCurrentTransactionZkGas, ResetTransaction
  <2> QED
    BY ZenonT(30), <1>1, <1>2, <2>2, RunningIsClear DEF TransactStep, ReturnTo
<1>3. CASE ~WorkExceeds(meter, CurRun.work[pos + 1])
  <2>1. /\ meter' = ChargeWork(meter, CurRun.work[pos + 1])
        /\ UNCHANGED <<exhausted, gasUsed, state, receipts, reserved, phase, cur, result>>
    BY Zenon, <1>3 DEF TransactCharge
  <2>2. meter'.block = meter.block
    BY <2>1 DEF ChargeWork, ChargeAmount
  <2> QED
    BY ZenonT(30), <1>1, <2>1, <2>2, RunningIsClear DEF TransactStep
<1> QED
  BY ZenonT(30), <1>2, <1>3

LEMMA DoneShape ==
  ASSUME IInv, TransactDone
  PROVE  TransactStep
<1>1. phase = "running"
  BY DEF TransactDone
<1>2. ~CommitWouldExceed(meter)
  BY <1>1, RunningIsClear
<1>3. phase' = "executed" /\ UNCHANGED <<meter, exhausted, gasUsed, state, receipts, reserved, cur, result>>
  BY <1>2 DEF TransactDone
<1> QED
  BY <1>1, <1>3, RunningIsClear DEF TransactStep

LEMMA TransactShape ==
  ASSUME IInv, TransactInvalid \/ TransactFatal \/ TransactCharge \/ TransactDone
  PROVE  TransactStep
BY InvalidShape, FatalShape, ChargeShape, DoneShape

(* A commit, which never panics. *)
LEMMA CommitShape ==
  ASSUME IInv, Commit
  PROVE  /\ phase' = "ready" /\ ~exhausted' /\ receipts' = Append(receipts, cur)
         /\ UNCHANGED reserved /\ gasUsed' = gasUsed + CurRun.gas
         /\ cur \in Txs /\ receipts \in Seq(Txs)
<1>1. ~CommitWouldExceed(meter)
  BY CommitFits DEF IInv, TypeOK, BudgetExact, Exact
<1>2. phase = "executed" /\ ~exhausted /\ cur \in Txs /\ receipts \in Seq(Txs)
  BY DEF Commit, IInv, TypeOK, ExhaustedIsIdle
<1> QED
  BY <1>1, <1>2 DEF Commit

LEMMA DigestGrows ==
  ASSUME NEW d, NEW txs \in Seq(Txs), NEW tx \in Txs
  PROVE  Append(<<d>> \o txs, tx) = <<d>> \o Append(txs, tx)
OBVIOUS

LEMMA NextCallInv == TypeInv /\ CallInv /\ IInv /\ [SelNext]_allVars => CallInv'
<1> SUFFICES ASSUME TypeInv, CallInv, IInv, [SelNext]_allVars PROVE CallInv'
  OBVIOUS
<1>1. ASSUME NEW r \in Requests, Begin(r) PROVE CallInv'
  BY <1>1, BeginCall
<1> SUFFICES ASSUME ~(\E r \in Requests : Begin(r)) PROVE CallInv'
  BY <1>1
<1>2. [Next]_vars
  BY SelectionIsExecution
<1>3. ASSUME step # "idle", UNCHANGED request PROVE WorkFrom(Start)'
  BY <1>2, <1>3, SelWork
<1>4. CASE ReserveForAnchor
  <2>1. CASE Return("error")
    BY ZenonT(30), <2>1, IdleCall DEF Return
  <2>2. CASE EnterLoop(digest) /\ result' = "reserved"
    <3>1. WorkFrom(Start)'
      BY <1>3, <1>4, <2>2 DEF ReserveForAnchor, EnterLoop
    <3>2. UNCHANGED <<receipts, exhausted, phase>> /\ reserved' = reserved + AnchorReserve
      BY <1>4, <2>2 DEF ReserveForAnchor, Reserve
    <3>3. receipts = <<>> /\ reserved = 0 /\ digest = <<request.seed>> /\ phase = "ready" /\ ~exhausted
          /\ request.mode = "rpc"
      BY <1>4 DEF ReserveForAnchor, CallInv
    <3>4. AnchorReserve \in Nat
      BY SelectionAssumption, ExecutorAssumption, MeterAssumption DEF U64
    <3>5. reserved' = AnchorReserve /\ digest' = <<request'.seed>> \o receipts' /\ request'.mode = "rpc"
      BY <2>2, <3>2, <3>3, <3>4 DEF EnterLoop
    <3> QED
      BY Zenon, <2>2, <3>1, <3>2, <3>3, <3>5 DEF CallInv, InCall, EnterLoop, Before
  <2> QED
    BY <1>4, <2>1, <2>2 DEF ReserveForAnchor
<1>5. CASE ExecuteAnchor
  <2>1. WorkFrom(Start)'
    BY Zenon, <1>3, <1>5 DEF ExecuteAnchor
  <2>2. UNCHANGED <<receipts, gasUsed, reserved>> /\ (phase' = "running" => cur' = Anchor)
        /\ phase' \in {"ready", "running"}
    BY ZenonT(30), <1>5, StartShape DEF ExecuteAnchor
  <2> QED
    BY <1>5, <2>1, <2>2 DEF CallInv, InCall, ExecuteAnchor
<1>6. CASE AnchorCommitted
  <2>1. WorkFrom(Start)'
    BY <1>3, <1>6 DEF AnchorCommitted, EnterLoop
  <2>2. /\ receipts = <<>> /\ digest = <<request.seed>> /\ request.mode = "payload" /\ reserved = 0
        /\ cur = Anchor
    BY <1>6 DEF AnchorCommitted, CallInv
  <2>3. phase' = "ready" /\ ~exhausted' /\ receipts' = <<Anchor>> /\ reserved' = 0
    BY <1>6, <2>2, CommitShape DEF AnchorCommitted
  <2>4. step' = "loop" /\ digest' = Append(<<request.seed>>, Anchor) /\ UNCHANGED request
    BY <1>6, <2>2 DEF AnchorCommitted, EnterLoop, AdvanceSelectionState
  <2>5. \A d : Append(<<d>>, Anchor) = <<d>> \o <<Anchor>>
    OBVIOUS
  <2>6. digest' = <<request'.seed>> \o receipts' /\ request'.mode = "payload"
    BY Zenon, <2>2, <2>3, <2>4, <2>5
  <2> QED
    BY <2>1, <2>3, <2>4, <2>6 DEF CallInv, InCall, Before
<1>7. CASE AnchorFailed \/ PoolDrained \/ Cancelled \/ BudgetDrained \/ FatalError
  BY <1>7, IdleCall DEF AnchorFailed, PoolDrained, Cancelled, BudgetDrained, FatalError, Stop,
     Return
<1>8. CASE Ineligible \/ SkipRemembered \/ SkipRerun \/ NoRoom
  <2>1. step = "loop" /\ UNCHANGED <<vars, request, step, digest>>
    BY Zenon, <1>8 DEF Ineligible, SkipRemembered, SkipRerun, NoRoom, Runnable, InLoop, Drop
  <2>2. WorkFrom(Start)'
    BY Zenon, <1>3, <2>1
  <2> QED
    BY Zenon, <2>1, <2>2 DEF CallInv, InCall, vars, Before
<1>9. CASE Execute
  <2>1. WorkFrom(Start)'
    BY ZenonT(30), <1>3, <1>9 DEF Execute, Runnable, InLoop
  <2>2. /\ step = "loop" /\ step' = "call" /\ UNCHANGED <<request, digest, todo>> /\ todo # <<>>
        /\ phase = "ready" /\ ~exhausted
    BY <1>9 DEF Execute, Runnable, InLoop, CallInv
  <2>3. Candidate' = Candidate /\ Candidate \in Txs
    BY Zenon, <2>2, CandidateType DEF Candidate
  <2>4. StartTransact(Candidate) \/ RefuseGasLimit(Candidate)
    BY ZenonT(30), <1>9, <2>2 DEF Execute, RefuseExhausted
  <2>5. phase' = "ready" /\ result' = "zk_limit" => Overflowing(Candidate)
    BY ZenonT(30), <2>2, <2>3, <2>4, StartOverflows, StartShape
  <2>6. phase' = "ready" /\ result' = "zk_limit" => Overflowing(Candidate)'
    BY <2>3, <2>4, <2>5, StartShape DEF Overflowing
  <2> QED
    BY ZenonT(40), <2>1, <2>2, <2>3, <2>4, <2>6, StartShape DEF CallInv, InCall, Before
<1>10. CASE Transact
  <2>1. UNCHANGED selVars /\ step \in {"anchor", "call"}
    BY <1>10 DEF Transact
  <2>2. WorkFrom(Start)'
    BY <1>3, <2>1 DEF selVars
  <2>3. TransactInvalid \/ TransactFatal \/ TransactCharge \/ TransactDone
    BY Zenon, <1>10 DEF Transact
  <2>4. CASE step = "anchor"
    BY ZenonT(30), <2>1, <2>2, <2>3, <2>4, TransactShape DEF TransactStep, CallInv, InCall, selVars
  <2>5. CASE step = "call"
    <3>1. cur = Candidate /\ Candidate' = Candidate /\ todo # <<>>
      BY ZenonT(30), <2>1, <2>3, <2>5, TransactShape DEF TransactStep, CallInv, Candidate, selVars
    <3>2. PICK s \in States : s = Start
      BY RequestFacts DEF TypeInv, Start
    <3>3. WorkFrom(s)
      BY ZenonT(40), <2>5, <3>2 DEF CallInv
    <3>4. phase' = "ready" /\ result' = "zk_limit" => Overflowing(Candidate)
      BY ZenonT(30), <2>3, <3>1, <3>3, ChargeOverflows, TransactShape DEF TransactStep
    <3>5. phase' = "ready" /\ result' = "zk_limit" => Overflowing(Candidate)'
      BY <2>3, <3>1, <3>4, TransactShape DEF TransactStep, Overflowing
    <3>6. /\ UNCHANGED <<receipts, reserved, request, digest, todo, step>>
          /\ phase' \in {"ready", "running", "executed"} /\ (phase' # "ready" => UNCHANGED <<cur, exhausted>>)
          /\ (phase' = "ready" => result' = "zk_limit" \/ ~exhausted')
      BY Zenon, <2>1, <2>3, TransactShape DEF TransactStep, selVars
    <3>7. /\ digest = <<request.seed>> \o receipts /\ reserved = Before(request.mode)
          /\ exhausted => result = "zk_limit"
      BY Zenon, <2>5 DEF CallInv, InCall
    <3>8. ~exhausted
      BY ZenonT(30), <2>3, TransactShape DEF TransactStep
    <3> QED
      BY <2>2, <2>5, <3>1, <3>5, <3>6, <3>7, <3>8 DEF CallInv, InCall, Before
  <2> QED
    BY <2>1, <2>4, <2>5
<1>11. CASE Included
  <2>1. WorkFrom(Start)'
    BY Zenon, <1>3, <1>11 DEF Included
  <2>2. /\ digest = <<request.seed>> \o receipts /\ reserved = Before(request.mode)
        /\ cur = Candidate
    BY <1>11 DEF Included, CallInv, InCall
  <2>3. /\ phase' = "ready" /\ ~exhausted' /\ receipts' = Append(receipts, Candidate)
        /\ reserved' = reserved /\ Candidate \in Txs /\ receipts \in Seq(Txs)
    BY <1>11, <2>2, CommitShape DEF Included
  <2>4. step' = "loop" /\ digest' = Append(digest, Candidate) /\ UNCHANGED request
    BY <1>11 DEF Included, AdvanceSelectionState
  <2>5. digest' = <<request.seed>> \o receipts'
    BY <2>2, <2>3, <2>4, DigestGrows
  <2> QED
    BY Zenon, <2>1, <2>2, <2>3, <2>4, <2>5 DEF CallInv, InCall, Before
<1>12. CASE OverflowedAgain \/ OverflowedFirst
  <2>1. step = "call" /\ UNCHANGED <<request, digest>> /\ step' \in {"loop", "idle"}
    BY <1>12 DEF OverflowedAgain, OverflowedFirst, Overran, Record
  <2>2. phase' = "ready" /\ ~exhausted' /\ UNCHANGED <<receipts, reserved>>
    BY <1>12 DEF OverflowedAgain, OverflowedFirst, Unexhaust, ClearZkGasExhaustion, ReturnTo
  <2>3. WorkFrom(Start)'
    BY ZenonT(30), <1>3, <2>1
  <2> QED
    BY ZenonT(30), <2>1, <2>2, <2>3 DEF CallInv, InCall, Before
<1>13. CASE RejectedByEvm
  <2>1. WorkFrom(Start)'
    BY ZenonT(30), <1>3, <1>13 DEF RejectedByEvm
  <2> QED
    BY <1>13, <2>1 DEF RejectedByEvm, CallInv, InCall, Before, vars
<1>14. ASSUME UNCHANGED <<vars, request, step, todo, digest, lists>> PROVE CallInv'
  <2>1. step # "idle" => WorkFrom(Start)'
    BY <1>3, <1>14
  <2>2. Candidate' = Candidate
    BY <1>14 DEF Candidate
  <2>3. Overflowing(Candidate)' = Overflowing(Candidate)
    BY <1>14, <2>2 DEF Overflowing, vars
  <2> QED
    BY <1>14, <2>1, <2>2, <2>3 DEF CallInv, InCall, Before, vars
<1>15. ASSUME NEW m \in Modes, NEW tx \in Txs \ {Anchor}, NEW d,
              ForeignRecord(m, tx, d) \/ ForeignForget(m, tx)
       PROVE  CallInv'
  BY <1>14, <1>15 DEF ForeignRecord, ForeignForget
<1>16. CASE UNCHANGED allVars
  BY <1>14, <1>16 DEF allVars, selVars
<1> QED
  BY ZenonT(30), <1>4, <1>5, <1>6, <1>7, <1>8, <1>9, <1>10, <1>11, <1>12, <1>13, <1>15, <1>16 DEF
     SelNext, SelectionStep

LEMMA InitCallInv == SelInit => TypeInv /\ CallInv /\ IInv
<1>1. SelInit => CallInv
  BY DEF SelInit, CallInv, InCall
<1> QED
  BY <1>1, InitTypeInv, InitIInv DEF SelInit

(* The strengthening the rest relies on. *)
Standing == TypeInv /\ CallInv /\ IInv

LEMMA StandingNext == Standing /\ [SelNext]_allVars => Standing'
BY NextTypeInv, NextCallInv, SelIInv DEF Standing

(* Each call stands where its executor does, in every behaviour.            *)
THEOREM StandingHolds == SelSpec => []Standing
<1>1. SelInit => Standing
  BY Zenon, InitCallInv DEF Standing
<1> QED
  BY <1>1, StandingNext, PTL DEF SelSpec

-----------------------------------------------------------------------------
(* The memory.                                                              *)

(* An overflow of the candidate is an overflow at the call's digest. *)
LEMMA DigestStandsForState ==
  ASSUME TypeInv, CallInv, IInv, InCall, NEW tx \in Txs
  PROVE  Overflowing(tx) <=> OverflowsAt(request.mode, tx, digest)
<1>1. digest = <<request.seed>> \o receipts /\ reserved = Before(request.mode)
  BY DEF CallInv
<1>2. receipts \in Seq(Txs) /\ state \in States /\ meter.block \in Nat /\ reserved \in Nat
  BY MeterAssumption DEF IInv, TypeOK, Meter, U64
<1>3. \A d : \A txs \in Seq(Txs) : (<<d>> \o txs)[1] = d /\ Tail(<<d>> \o txs) = txs
  OBVIOUS
<1>4. digest[1] = request.seed /\ Tail(digest) = receipts
  BY Zenon, <1>1, <1>2, <1>3
<1>5. meter.block = reserved + ReplayFrom(Start, receipts).zkGas /\ state = ReplayFrom(Start, receipts).state
  BY DEF CallInv, InCall, WorkFrom, CommittedFrom
<1>6. ReplayFrom(Start, receipts) = ReplayFrom(StartState[digest[1]], Tail(digest))
  BY Zenon, <1>4 DEF Start
<1>7. Overflowing(tx) <=> Before(request.mode) + ReplayFrom(Start, receipts).zkGas
                            + Cost(tx, ReplayFrom(Start, receipts).state) > BlockLimit
  BY <1>1, <1>5 DEF Overflowing
<1> QED
  BY ZenonT(30), <1>6, <1>7 DEF OverflowsAt, Before

LEMMA NextMemory == Standing /\ MemorySound /\ [SelNext]_allVars => MemorySound'
<1> SUFFICES ASSUME Standing, MemorySound, [SelNext]_allVars PROVE MemorySound'
  OBVIOUS
<1> USE DEF Standing
<1>1. ASSUME UNCHANGED overflows PROVE MemorySound'
  BY <1>1 DEF MemorySound
<1>2. ASSUME NEW d, EnterLoop(d) PROVE MemorySound'
  BY <1>2, RetainedMemory DEF MemorySound
<1>3. ASSUME NEW m \in Modes, NEW tx \in Txs, NEW d \in Digests, d # NoDigest => OverflowsAt(m, tx, d),
             overflows' = [overflows EXCEPT ![m][tx] = d]
      PROVE  MemorySound'
  BY <1>3, WrittenMemory DEF MemorySound
<1>4. NoDigest \in Digests
  BY DEF NoDigest, Digests
<1>5. CASE ReserveForAnchor \/ AnchorCommitted
  BY <1>1, <1>2, <1>5 DEF ReserveForAnchor, AnchorCommitted, Return
<1>6. CASE Included
  <2>1. todo # <<>> /\ Candidate \in Txs /\ request.mode \in Modes
    <3>1. step = "call"
      BY Zenon, <1>6 DEF Included
    <3>2. todo # <<>>
      BY Zenon, <3>1 DEF CallInv
    <3>3. request \in Requests
      BY Zenon DEF TypeInv
    <3> QED
      BY Zenon, <3>2, <3>3, CandidateType, RequestFacts
  <2>2. overflows[request.mode][Candidate] \in Digests
    BY Zenon, <2>1 DEF TypeInv, Digests
  <2>3. overflows[request.mode][Candidate] # NoDigest =>
          OverflowsAt(request.mode, Candidate, overflows[request.mode][Candidate])
    BY <2>1 DEF MemorySound
  <2>4. PICK d \in {NoDigest, overflows[request.mode][Candidate]} :
          overflows' = [overflows EXCEPT ![request.mode][Candidate] = d]
    BY Zenon, <1>6 DEF Included
  <2> QED
    BY ZenonT(30), <1>3, <1>4, <2>1, <2>2, <2>3, <2>4
<1>7. CASE OverflowedAgain \/ OverflowedFirst
  <2>1. Overran /\ Record
    BY <1>7 DEF OverflowedAgain, OverflowedFirst
  <2>2. todo # <<>> /\ Overflowing(Candidate) /\ InCall /\ Candidate \in Txs /\ request.mode \in Modes
    <3>1. step = "call" /\ phase = "ready" /\ result = "zk_limit"
      BY Zenon, <2>1 DEF Overran
    <3>2. todo # <<>> /\ Overflowing(Candidate)
      BY Zenon, <3>1 DEF CallInv
    <3>3. request \in Requests
      BY Zenon DEF TypeInv
    <3> QED
      BY Zenon, <3>1, <3>2, <3>3, CandidateType, RequestFacts DEF InCall
  <2>3. OverflowsAt(request.mode, Candidate, digest) /\ digest \in Digests
    BY <2>2, DigestStandsForState, DigestType
  <2> QED
    BY ZenonT(30), <1>3, <2>1, <2>2, <2>3 DEF Record
<1>8. ASSUME NEW m \in Modes, NEW tx \in Txs \ {Anchor}, NEW s \in Seeds,
             NEW d \in ForeignDigests(m, s), ForeignRecord(m, tx, d)
      PROVE  MemorySound'
  BY Zenon, <1>3, <1>8, ForeignDigestType DEF ForeignRecord
<1>9. ASSUME NEW m \in Modes, NEW tx \in Txs \ {Anchor}, ForeignForget(m, tx) PROVE MemorySound'
  BY Zenon, <1>3, <1>4, <1>9 DEF ForeignForget
<1>10. CASE \/ \E r \in Requests : Begin(r)
            \/ ExecuteAnchor \/ AnchorFailed \/ PoolDrained \/ Cancelled \/ BudgetDrained \/ Ineligible
            \/ SkipRemembered \/ SkipRerun \/ NoRoom \/ Execute \/ Transact \/ RejectedByEvm \/ FatalError
            \/ UNCHANGED allVars
  BY Zenon, <1>1, <1>10 DEF Begin, ExecuteAnchor, AnchorFailed, PoolDrained, Cancelled,
     BudgetDrained, Ineligible, SkipRemembered, SkipRerun, NoRoom, Execute, Transact,
     RejectedByEvm, FatalError, Stop, Return, Drop, allVars, selVars
<1> QED
  BY <1>5, <1>6, <1>7, <1>8, <1>9, <1>10 DEF SelNext, SelectionStep

(* Every remembered overflow is true of the state its digest stands for,    *)
(* across calls and whatever other calls write to the memory: skipping a    *)
(* remembered candidate without running it (mod.rs, remembered ==           *)
(* Some(state)) never drops one that would have fitted.                     *)
THEOREM MemoryIsSound == SelSpec => []MemorySound
<1>1. SelInit => MemorySound
  BY DEF SelInit, MemorySound
<1> QED
  BY <1>1, NextMemory, StandingHolds, PTL DEF SelSpec

-----------------------------------------------------------------------------
(* List limits.                                                             *)

(* What exceeds_list_limits lets through. *)
LEMMA WithinLimits ==
  ASSUME TypeInv, NEW list \in TxList, NEW ratio, NEW tx \in Txs,
         ~ExceedsListLimits(list, ratio, tx).exceeds
  PROVE  /\ list.gas + GasLimit[tx] <= GasPerList
         /\ list.da + DaSize[tx] <= MaxDa
         /\ Guard > 0 /\ list.da + DaSize[tx] + Guard >= MaxDa =>
              ~(ZlibTxListSize(Append(list.txs, tx)) > MaxDa)
<1>1. list.gas \in Nat /\ list.da \in Nat /\ GasLimit[tx] \in Nat /\ DaSize[tx] \in Nat /\ MaxDa \in Nat
      /\ GasPerList \in Nat
  BY Zenon, SelectionAssumption, ExecutorAssumption, GasPerListType DEF TxList
<1>2. /\ ~(list.gas + GasLimit[tx] > GasPerList)
      /\ ~(list.da + DaSize[tx] > MaxDa)
      /\ ~(/\ list.da + DaSize[tx] <= MaxDa /\ Guard > 0 /\ RunsZlib(ratio, list.da + DaSize[tx])
           /\ ZlibTxListSize(Append(list.txs, tx)) > MaxDa)
  BY Zenon DEF ExceedsListLimits
<1>3. list.gas + GasLimit[tx] <= GasPerList /\ list.da + DaSize[tx] <= MaxDa
  BY Zenon, <1>1, <1>2, AtMost
<1>4. ASSUME Guard > 0, list.da + DaSize[tx] + Guard >= MaxDa
      PROVE  ~(ZlibTxListSize(Append(list.txs, tx)) > MaxDa)
  <2>1. RunsZlib(ratio, list.da + DaSize[tx])
    BY ZenonT(30), <1>4 DEF RunsZlib
  <2> QED
    BY Zenon, <1>2, <1>4, <1>3, <2>1
<1> QED
  BY Zenon, <1>4, <1>3

LEMMA NextAdmitted == Standing /\ AdmittedInv /\ [SelNext]_allVars => AdmittedInv'
<1> SUFFICES ASSUME Standing, AdmittedInv, [SelNext]_allVars PROVE AdmittedInv'
  OBVIOUS
<1> USE DEF Standing
<1>1. ASSUME step' # "call" PROVE AdmittedInv'
  BY <1>1 DEF AdmittedInv
<1>2. ASSUME UNCHANGED <<step, lists, todo, request>> PROVE AdmittedInv'
  <2>1. Last(lists)' = Last(lists) /\ Candidate' = Candidate /\ GasPerList' = GasPerList
    BY Zenon, <1>2 DEF Last, Candidate, GasPerList
  <2> QED
    BY Zenon, <1>2, <2>1 DEF AdmittedInv
<1>3. CASE Execute
  <2>1. todo # <<>> /\ UNCHANGED <<todo, request>> /\ Eligible(Candidate) /\ Candidate \in Txs
    BY Zenon, <1>3, CandidateType DEF Execute, Runnable, InLoop
  <2>2. Candidate' = Candidate /\ GasPerList' = GasPerList /\ GasLimit[Candidate] <= GasPerList
    BY Zenon, <2>1 DEF Candidate, GasPerList, Eligible
  <2>3. CASE ~InCurrent.exceeds /\ UNCHANGED lists
    <3>1. Last(lists)' = Last(lists) /\ Last(lists) \in TxList
      BY Zenon, <2>3, ListShape DEF Last
    <3> QED
      BY Zenon, <2>1, <2>2, <2>3, <3>1, WithinLimits DEF InCurrent, AdmittedInv
  <2>4. CASE ~InFresh.exceeds /\ lists' = Append(lists, EmptyList)
    <3>1. Last(lists)' = EmptyList /\ EmptyList \in TxList
      BY Zenon, <2>4, OpenedLists, EmptyListType
    <3> QED
      BY Zenon, <2>1, <2>2, <2>4, <3>1, WithinLimits DEF InFresh, AdmittedInv
  <2> QED
    BY Zenon, <1>3, <2>3, <2>4 DEF Execute
<1>4. CASE \/ \E r \in Requests : Begin(r)
           \/ ReserveForAnchor \/ ExecuteAnchor \/ AnchorCommitted \/ AnchorFailed \/ PoolDrained
           \/ Cancelled \/ BudgetDrained \/ FatalError
           \/ Included \/ OverflowedAgain \/ OverflowedFirst \/ RejectedByEvm
  BY Zenon, <1>1, <1>4 DEF Begin, ReserveForAnchor, ExecuteAnchor, AnchorCommitted, AnchorFailed,
     PoolDrained, Cancelled, BudgetDrained, FatalError, Stop, Return, EnterLoop, Included,
     OverflowedAgain, OverflowedFirst, RejectedByEvm
<1>5. CASE Ineligible \/ SkipRemembered \/ SkipRerun \/ NoRoom
  BY Zenon, <1>1, <1>5 DEF Ineligible, SkipRemembered, SkipRerun, NoRoom, Runnable, InLoop, Drop
<1>6. CASE Transact \/ UNCHANGED allVars
  BY <1>2, <1>6 DEF Transact, selVars, allVars
<1>7. ASSUME NEW m \in Modes, NEW tx \in Txs \ {Anchor}, NEW d,
             ForeignRecord(m, tx, d) \/ ForeignForget(m, tx)
      PROVE  AdmittedInv'
  BY ZenonT(30), <1>2, <1>7 DEF ForeignRecord, ForeignForget
<1> QED
  BY ZenonT(30), <1>3, <1>4, <1>5, <1>6, <1>7 DEF SelNext, SelectionStep

(* exceeds_list_limits was asked about every candidate that is executed.    *)
THEOREM AdmittedHolds == SelSpec => []AdmittedInv
<1>1. SelInit => AdmittedInv
  BY Zenon DEF SelInit, AdmittedInv
<1> QED
  BY <1>1, NextAdmitted, StandingHolds, PTL DEF SelSpec

(* What a step may do to the lists of a call: enter the loop with one empty *)
(* list, leave them, open another or extend the last.                       *)
EntersLoop == step \in {"setup", "anchor"} /\ step' = "loop" /\ UNCHANGED <<lists, request>>
KeepsLists == InCall /\ UNCHANGED <<lists, request, receipts, gasUsed>>
OpensList == InCall /\ MayOpen /\ lists' = Append(lists, EmptyList) /\ UNCHANGED <<request, receipts, gasUsed>>

LEMMA ListSteps ==
  ASSUME Standing, [SelNext]_allVars, InCall'
  PROVE  EntersLoop \/ KeepsLists \/ OpensList \/ Included
<1> USE DEF Standing, InCall
<1>1. CASE \E r \in Requests : Begin(r)
  BY Zenon, <1>1 DEF Begin
<1>2. CASE ReserveForAnchor \/ AnchorCommitted
  BY Zenon, <1>2 DEF ReserveForAnchor, AnchorCommitted, EnterLoop, Return, EntersLoop
<1>3. CASE ExecuteAnchor \/ AnchorFailed \/ PoolDrained \/ Cancelled \/ BudgetDrained \/ FatalError
  BY <1>3 DEF ExecuteAnchor, AnchorFailed, PoolDrained, Cancelled, BudgetDrained, FatalError, Stop, Return
<1>4. CASE Ineligible \/ SkipRemembered \/ SkipRerun
  BY Zenon, <1>4 DEF Ineligible, SkipRemembered, SkipRerun, InLoop, Drop, KeepsLists, vars
<1>5. CASE NoRoom
  BY Zenon, <1>5 DEF NoRoom, Runnable, InLoop, Drop, KeepsLists, OpensList, vars
<1>6. CASE Execute
  <2>1. UNCHANGED <<receipts, gasUsed, request>> /\ step = "loop"
    BY Zenon, <1>6 DEF Execute, Runnable, InLoop, RefuseExhausted, RefuseGasLimit, StartTransact, Overflow, ReturnTo
  <2> QED
    BY Zenon, <1>6, <2>1 DEF Execute, KeepsLists, OpensList
<1>7. CASE Transact
  <2>1. UNCHANGED <<receipts, gasUsed>>
    BY Zenon, <1>7, TransactShape DEF TransactStep, Transact
  <2> QED
    BY Zenon, <1>7, <2>1 DEF Transact, selVars, KeepsLists
<1>8. CASE OverflowedAgain \/ OverflowedFirst
  BY <1>8 DEF OverflowedAgain, OverflowedFirst, Overran, Record, Unexhaust, ClearZkGasExhaustion, ReturnTo,
              KeepsLists
<1>9. CASE RejectedByEvm
  BY Zenon, <1>9 DEF RejectedByEvm, KeepsLists, vars
<1>10. ASSUME NEW m \in Modes, NEW tx \in Txs \ {Anchor}, NEW d,
              ForeignRecord(m, tx, d) \/ ForeignForget(m, tx)
       PROVE  KeepsLists
  BY <1>10 DEF ForeignRecord, ForeignForget, KeepsLists, vars
<1>11. CASE UNCHANGED allVars
  BY Zenon, <1>11 DEF allVars, selVars, vars, KeepsLists
<1> QED
  BY Zenon, <1>1, <1>2, <1>3, <1>4, <1>5, <1>6, <1>7, <1>8, <1>9, <1>10, <1>11 DEF SelNext,
     SelectionStep

LEMMA NextNearLimit == Standing /\ AdmittedInv /\ NearLimitIsMeasured /\ [SelNext]_allVars => NearLimitIsMeasured'
<1> SUFFICES ASSUME Standing, AdmittedInv, NearLimitIsMeasured, [SelNext]_allVars, InCall', Guard > 0,
                    NEW i \in DOMAIN lists', lists'[i].txs # <<>>, lists'[i].da + Guard >= MaxDa
             PROVE  ~(ZlibTxListSize(lists'[i].txs) > MaxDa)
  BY ZenonT(30) DEF NearLimitIsMeasured, InCall
<1> USE DEF Standing
<1>0. TypeInv'
  BY Zenon, NextTypeInv
<1>1. EntersLoop \/ KeepsLists \/ OpensList \/ Included
  BY ListSteps
<1>2. ASSUME i \in DOMAIN lists, lists'[i] = lists[i], InCall PROVE ~(ZlibTxListSize(lists'[i].txs) > MaxDa)
  BY Zenon, <1>2 DEF NearLimitIsMeasured, InCall
<1>3. CASE EntersLoop
  <2>1. lists' = <<EmptyList>>
    BY ZenonT(30), <1>3 DEF EntersLoop, CallInv
  <2>2. lists'[i] = EmptyList
    BY Zenon, <2>1, OnlyElement
  <2> QED
    BY Zenon, <2>2, EmptyListTxs
<1>4. CASE KeepsLists
  BY Zenon, <1>2, <1>4 DEF KeepsLists
<1>5. CASE OpensList
  <2>1. lists'[i] # EmptyList
    BY Zenon, EmptyListTxs
  <2>3. i \in 1 .. Len(lists)
    BY Zenon, <1>5, <2>1, OpenedLists DEF OpensList
  <2> QED
    BY ZenonT(30), <1>2, <1>5, <2>3, OpenedLists, ListShape DEF OpensList
<1>6. CASE Included
  <2>1. i \in 1 .. Len(lists)
    BY Zenon, <1>6, IncludedLists, SeqDomain
  <2>2. CASE i = Len(lists)
    <3>1. lists'[i] = Extended(Last(lists)) /\ step = "call"
      BY ZenonT(30), <1>6, <2>2, IncludedLists DEF Included
    <3>2. lists'[i].txs = Append(Last(lists).txs, Candidate) /\ lists'[i].da = Last(lists).da + DaSize[Candidate]
      BY Zenon, <3>1, ExtendedFields
    <3> QED
      BY Zenon, <3>1, <3>2 DEF AdmittedInv
  <2>3. CASE i # Len(lists)
    BY Zenon, <1>2, <1>6, <2>1, <2>3, IncludedLists, ListShape DEF Included, InCall
  <2> QED
    BY Zenon, <2>2, <2>3
<1> QED
  BY Zenon, <1>1, <1>3, <1>4, <1>5, <1>6

(* A list whose estimated size comes within the guard of the DA limit has   *)
(* been compressed and measured before its last transaction was let in, so  *)
(* its real size does not exceed the limit (exceeds_list_limits), whichever *)
(* candidates were skipped, overflowed or sampled in between.               *)
THEOREM NearLimitMeasured == SelSpec => []NearLimitIsMeasured
<1>1. SelInit => NearLimitIsMeasured
  BY DEF SelInit, NearLimitIsMeasured
<1> QED
  BY <1>1, NextNearLimit, StandingHolds, AdmittedHolds, PTL DEF SelSpec

-----------------------------------------------------------------------------
(* Work spent on overflows.                                                 *)

LEMMA NextAllowance == Standing /\ AdmittedInv /\ AllowanceInv /\ [SelNext]_allVars => AllowanceInv'
<1> SUFFICES ASSUME Standing, AdmittedInv, AllowanceInv, [SelNext]_allVars PROVE AllowanceInv'
  BY Zenon
<1> USE DEF Standing, InCall
<1>1. ASSUME NEW r \in Requests, Begin(r) PROVE AllowanceInv'
  <2>1. step' = "setup" /\ firstGas' = 0 /\ rerunGas' = 0
    BY Zenon, <1>1 DEF Begin
  <2> QED
    BY Zenon, <2>1, NotPositive DEF AllowanceInv
<1>2. ASSUME UNCHANGED <<request, firstGas, rerunGas>>, step' # "call",
             step' # "idle" => (InCall /\ InCall') \/ firstGas = 0
      PROVE  AllowanceInv'
  <2>1. GasPerList' = GasPerList
    BY <1>2 DEF GasPerList
  <2>2. step' \in {"idle", "setup", "anchor", "loop"}
    BY <1>2, NextTypeInv DEF TypeInv
  <2> QED
    BY ZenonT(30), <1>2, <2>1, <2>2, NotPositive DEF AllowanceInv
<1>3. CASE ReserveForAnchor \/ ExecuteAnchor \/ AnchorCommitted
  <2>1. firstGas = 0 /\ UNCHANGED <<request, firstGas, rerunGas>> /\ step' # "call"
    BY <1>3 DEF ReserveForAnchor, AnchorCommitted, ExecuteAnchor, EnterLoop, Return, AllowanceInv
  <2> QED
    BY Zenon, <1>2, <2>1
<1>4. CASE AnchorFailed \/ PoolDrained \/ Cancelled \/ BudgetDrained \/ FatalError \/ Included \/ RejectedByEvm
  BY ZenonT(40), <1>2, <1>4 DEF AnchorFailed, PoolDrained, Cancelled, BudgetDrained, FatalError,
     Stop, Return, Included, RejectedByEvm
<1>5. CASE Ineligible \/ SkipRemembered \/ SkipRerun \/ NoRoom
  BY Zenon, <1>2, <1>5 DEF Ineligible, SkipRemembered, SkipRerun, NoRoom, Runnable, InLoop, Drop
<1>6. CASE Execute
  <2>1. UNCHANGED <<request, firstGas, rerunGas>> /\ step = "loop"
        /\ (remembered' # NoDigest => rerunGas < GasPerList)
    BY Zenon, <1>6 DEF Execute, Runnable, InLoop, RerunAllowed
  <2>2. GasPerList' = GasPerList /\ step' = "call"
    BY Zenon, <1>6, <2>1 DEF GasPerList, Execute
  <2> QED
    BY Zenon, <2>1, <2>2 DEF AllowanceInv
<1>7. ASSUME UNCHANGED <<request, firstGas, rerunGas, step, remembered>> PROVE AllowanceInv'
  BY <1>7 DEF AllowanceInv, GasPerList
<1>8. CASE Transact \/ UNCHANGED allVars
  BY <1>7, <1>8 DEF Transact, selVars, allVars
<1>9. CASE OverflowedAgain \/ OverflowedFirst
  <2>1. step = "call" /\ todo # <<>> /\ UNCHANGED request
    BY Zenon, <1>9 DEF OverflowedAgain, OverflowedFirst, Overran, Record, CallInv
  <2>2. /\ GasLimit[Candidate] \in Nat /\ GasPerList \in Nat /\ GasLimit[Candidate] <= GasPerList
        /\ firstGas \in Nat /\ rerunGas \in Nat /\ GasPerList' = GasPerList
    BY Zenon, <2>1, CandidateType, ExecutorAssumption, GasPerListType DEF AdmittedInv, TypeInv, GasPerList
  <2>3. CASE OverflowedAgain
    <3>1. rerunGas' = rerunGas + GasLimit[Candidate] /\ UNCHANGED firstGas /\ step' = "loop" /\ rerunGas < GasPerList
      BY <2>1, <2>3 DEF OverflowedAgain, AllowanceInv
    <3>2. rerunGas' < 2 * GasPerList
      BY Zenon, <2>2, <3>1, RerunTwoLists
    <3> QED
      BY ZenonT(30), <2>1, <2>2, <3>1, <3>2 DEF AllowanceInv
  <2>4. CASE OverflowedFirst
    <3>1. /\ firstGas' = firstGas + GasLimit[Candidate] /\ UNCHANGED rerunGas
          /\ (step' = "loop" /\ ~(firstGas' >= GasPerList)) \/ step' = "idle"
          /\ firstGas > 0 => firstGas < GasPerList
      BY Zenon, <2>1, <2>4 DEF OverflowedFirst, AllowanceInv
    <3>2. /\ firstGas' > 0 => firstGas' < 2 * GasPerList
          /\ step' = "loop" => firstGas' < GasPerList
      BY Zenon, <2>2, <3>1, TwoLists, NotReached
    <3> QED
      BY ZenonT(30), <2>1, <2>2, <3>1, <3>2 DEF AllowanceInv
  <2> QED
    BY Zenon, <1>9, <2>3, <2>4
<1>10. ASSUME NEW m \in Modes, NEW tx \in Txs \ {Anchor}, NEW d,
             ForeignRecord(m, tx, d) \/ ForeignForget(m, tx)
      PROVE  AllowanceInv'
  BY <1>7, <1>10 DEF ForeignRecord, ForeignForget
<1> QED
  BY <1>1, <1>3, <1>4, <1>5, <1>6, <1>8, <1>9, <1>10 DEF SelNext, SelectionStep

(* One call spends less than two lists' worth of gas on first-time          *)
(* overflows and less than two on re-runs of remembered ones, whatever the  *)
(* pool holds and other calls record meanwhile (first_time_overflow_gas,    *)
(* rerun_overflow_gas).                                                     *)
THEOREM OverflowWorkIsBounded == SelSpec => []OverflowWorkBounded
<1>1. SelInit => AllowanceInv
  BY Zenon, NotPositive DEF SelInit, AllowanceInv, InCall
<1>2. Standing /\ AllowanceInv => OverflowWorkBounded
  <2> SUFFICES ASSUME Standing, AllowanceInv, firstGas + rerunGas > 0
               PROVE  Max({firstGas, rerunGas}) < 2 * GasPerList
    BY DEF OverflowWorkBounded
  <2>1. firstGas \in Nat /\ rerunGas \in Nat /\ GasPerList \in Nat
    BY GasPerListType DEF Standing, TypeInv
  <2>2. Max({firstGas, rerunGas}) \in {firstGas, rerunGas}
    BY <2>1, MaxOfTwo
  <2>3. (firstGas > 0 => firstGas < 2 * GasPerList) /\ (rerunGas > 0 => rerunGas < 2 * GasPerList)
    BY Zenon DEF AllowanceInv
  <2> QED
    BY Zenon, <2>1, <2>2, <2>3, BothBelow
<1> QED
  BY <1>1, <1>2, NextAllowance, StandingHolds, AdmittedHolds, PTL DEF SelSpec
=============================================================================
