--------------------------- MODULE TxLists_proofs ---------------------------
(***************************************************************************)
(* Proofs about the lists a selection call fills.  They keep their limits   *)
(* and are together the block the executor committed.  And the overflow     *)
(* memory, the retries of failed candidates and the number of lists change  *)
(* nothing in what a pool-mode payload selects: one pass over the pool      *)
(* without a memory (GreedyPacking) that has got as far as selection has    *)
(* holds what selection holds, and every candidate that selection drops     *)
(* unexecuted is one the pass would refuse as well.                         *)
(***************************************************************************)
EXTENDS TxSelection_proofs

-----------------------------------------------------------------------------
(* The lists and the block.                                                 *)

ListedState == [txs : Seq(Txs), gas : Nat]

LEMMA AppendOfConcat ==
  ASSUME NEW s \in Seq(Txs), NEW t \in Seq(Txs), NEW tx \in Txs
  PROVE  s \o Append(t, tx) = Append(s \o t, tx)
OBVIOUS

LEMMA NextIndex ==
  ASSUME NEW n \in Nat
  PROVE  n + 1 \in 1 .. n + 1 /\ (n + 1) - 1 = n /\ \A i \in 1 .. n : i \in 1 .. n + 1
OBVIOUS

(* One more list. *)
WithList(at, list) == [txs |-> at.txs \o list.txs, gas |-> at.gas + list.gas]

LEMMA WithListIs ==
  ASSUME NEW at, NEW list
  PROVE  WithList(at, list).txs = at.txs \o list.txs /\ WithList(at, list).gas = at.gas + list.gas
BY Zenon DEF WithList

LEMMA WithListType ==
  ASSUME NEW at \in ListedState, NEW list \in TxList
  PROVE  WithList(at, list) \in ListedState
<1>1. at.txs \in Seq(Txs) /\ at.gas \in Nat /\ list.txs \in Seq(Txs) /\ list.gas \in Nat
  BY DEF ListedState, TxList
<1>2. at.txs \o list.txs \in Seq(Txs)
  BY <1>1
<1> QED
  BY <1>1, <1>2 DEF ListedState, WithList

(* The sums over lists obey their recursive definition. *)
LEMMA ListedSteps ==
  ASSUME NEW ls \in Seq(TxList)
  PROVE  /\ ListedUpTo(ls) \in [0 .. Len(ls) -> ListedState]
         /\ ListedUpTo(ls)[0] = [txs |-> <<>>, gas |-> 0]
         /\ \A n \in 1 .. Len(ls) : ListedUpTo(ls)[n] = WithList(ListedUpTo(ls)[n - 1], ls[n])
<1> DEFINE N == Len(ls)
           a == [txs |-> <<>>, gas |-> 0]
           f == [n \in 1 .. N |-> [at \in ListedState |-> WithList(at, ls[n])]]
           Defines(g) == g = [n \in 0 .. N |-> IF n = 0 THEN a ELSE WithList(g[n - 1], ls[n])]
           r == ListedUpTo(ls)
<1>1. N \in Nat /\ a \in ListedState
  BY DEF ListedState
<1>2. \A n \in 1 .. N : ls[n] \in TxList
  OBVIOUS
<1>3. f \in [1 .. N -> [ListedState -> ListedState]]
  BY <1>2, WithListType
<1>4. PICK g \in [0 .. N -> ListedState] : Iterates(g, f, a, N)
  <2> HIDE DEF f, N, a
  <2> QED
    BY Zenon, <1>1, <1>3, RecursionHasSolution
<1>5. g[0] = a /\ \A n \in 1 .. N : g[n] = WithList(g[n - 1], ls[n])
  <2>1. ASSUME NEW n \in 1 .. N PROVE g[n - 1] \in ListedState
    BY <1>1
  <2> QED
    BY Zenon, <1>4, <2>1 DEF Iterates
<1>6. Defines(g)
  <2> HIDE DEF a
  <2> QED
    BY <1>5
<1>7. r = CHOOSE s : Defines(s)
  BY DEF ListedUpTo, WithList
<1>8. Defines(r)
  <2> HIDE DEF Defines, r
  <2> QED
    BY <1>6, <1>7
<1>9. r[0] = a
  <2> HIDE DEF r, a
  <2> QED
    BY <1>1, <1>8
<1>10. \A n \in 1 .. N : r[n] = WithList(r[n - 1], ls[n])
  <2> HIDE DEF r, a
  <2> QED
    BY <1>1, <1>8
<1>11. StepAlike(r, g, N)
  <2> HIDE DEF r, a
  <2> QED
    BY <1>5, <1>9, <1>10 DEF StepAlike
<1>12. Alike(r, g, N)
  <2> HIDE DEF r, N, a
  <2> QED
    BY <1>1, <1>11, RecursionIsUnique
<1>13. r \in [0 .. N -> ListedState]
  <2> HIDE DEF r, a
  <2> QED
    BY <1>8, <1>12 DEF Alike
<1> QED
  BY Zenon, <1>9, <1>10, <1>13

(* Lists that agree up to N add up to the same up to N. *)
LEMMA ListedPrefix ==
  ASSUME NEW ls \in Seq(TxList), NEW ms \in Seq(TxList), NEW N \in Nat, N <= Len(ls), N <= Len(ms),
         \A n \in 1 .. N : ls[n] = ms[n]
  PROVE  ListedUpTo(ls)[N] = ListedUpTo(ms)[N] /\ ListedUpTo(ls)[N] \in ListedState
<1> DEFINE g == ListedUpTo(ls)
           h == ListedUpTo(ms)
<1>1. g \in [0 .. Len(ls) -> ListedState] /\ g[0] = [txs |-> <<>>, gas |-> 0]
      /\ \A n \in 1 .. Len(ls) : g[n] = WithList(g[n - 1], ls[n])
  BY Zenon, ListedSteps
<1>2. h[0] = [txs |-> <<>>, gas |-> 0] /\ \A n \in 1 .. Len(ms) : h[n] = WithList(h[n - 1], ms[n])
  BY ListedSteps
<1> HIDE DEF g, h
<1>3. /\ N \in 0 .. N /\ N \in 0 .. Len(ls)
      /\ \A n \in 1 .. N : n \in 1 .. Len(ls) /\ n \in 1 .. Len(ms)
  OBVIOUS
<1>4. StepAlike(g, h, N)
  <2>1. ASSUME NEW n \in 1 .. N, g[n - 1] = h[n - 1] PROVE g[n] = h[n]
    <3>1. g[n] = WithList(g[n - 1], ls[n]) /\ h[n] = WithList(h[n - 1], ms[n]) /\ ls[n] = ms[n]
      BY ZenonT(30), <1>1, <1>2, <1>3
    <3> QED
      BY <2>1, <3>1
  <2> QED
    BY Zenon, <1>1, <1>2, <2>1 DEF StepAlike
<1>5. Alike(g, h, N)
  BY Zenon, <1>4, RecursionIsUnique
<1>6. g[N] = h[N] /\ g[N] \in ListedState
  BY Zenon, <1>1, <1>3, <1>5 DEF Alike
<1> QED
  BY Zenon, <1>6 DEF g, h

(* The last list is the last addend. *)
LEMMA ListedLast ==
  ASSUME NEW ls \in Seq(TxList), ls # <<>>
  PROVE  /\ Len(ls) \in Nat \ {0} /\ Listed(ls) = WithList(ListedUpTo(ls)[Len(ls) - 1], ls[Len(ls)])
         /\ ListedUpTo(ls)[Len(ls) - 1] \in ListedState /\ Listed(ls) \in ListedState /\ ls[Len(ls)] \in TxList
<1>1. Len(ls) \in Nat \ {0} /\ Len(ls) \in 1 .. Len(ls) /\ Len(ls) - 1 \in 0 .. Len(ls) /\ ls[Len(ls)] \in TxList
      /\ Len(ls) \in 0 .. Len(ls)
  OBVIOUS
<1> QED
  BY <1>1, ListedSteps DEF Listed

(* An empty list adds nothing. *)
LEMMA ListedOpened ==
  ASSUME NEW ls \in Seq(TxList)
  PROVE  Listed(Append(ls, EmptyList)) = Listed(ls) /\ Listed(ls) \in ListedState
<1> DEFINE ms == Append(ls, EmptyList)
           N == Len(ls)
<1>1. N \in Nat /\ ms \in Seq(TxList) /\ Len(ms) = N + 1 /\ ms[N + 1] = EmptyList /\ \A n \in 1 .. N : ls[n] = ms[n]
  BY EmptyListType
<1>2. ms # <<>>
  BY <1>1
<1> HIDE DEF ms
<1>3. ListedUpTo(ls)[N] = ListedUpTo(ms)[N] /\ ListedUpTo(ls)[N] \in ListedState
  <2>1. N <= Len(ls) /\ N <= Len(ms)
    BY <1>1
  <2> QED
    BY <1>1, <2>1, ListedPrefix
<1>4. Listed(ms) = WithList(ListedUpTo(ms)[N], EmptyList)
  BY <1>1, <1>2, ListedLast
<1>5. Listed(ms) = WithList(Listed(ls), EmptyList) /\ Listed(ls) \in ListedState
  BY <1>3, <1>4 DEF Listed
<1>6. Listed(ls) = [txs |-> Listed(ls).txs, gas |-> Listed(ls).gas] /\ Listed(ls).txs \in Seq(Txs)
      /\ Listed(ls).gas \in Nat
  BY <1>5 DEF ListedState
<1>7. Listed(ls).txs \o <<>> = Listed(ls).txs /\ Listed(ls).gas + 0 = Listed(ls).gas
  BY <1>6
<1>8. WithList(Listed(ls), EmptyList) = [txs |-> Listed(ls).txs, gas |-> Listed(ls).gas]
  BY Zenon, <1>7 DEF WithList, EmptyList
<1> QED
  BY <1>5, <1>6, <1>8 DEF ms

(* A transaction at the end of the last list is one at the end of them all. *)
LEMMA ListedExtended ==
  ASSUME NEW ls \in Seq(TxList), NEW ms \in Seq(TxList), ls # <<>>, Len(ms) = Len(ls),
         \A n \in 1 .. Len(ls) - 1 : ms[n] = ls[n], NEW tx \in Txs, NEW gas \in Nat,
         ms[Len(ls)].txs = Append(ls[Len(ls)].txs, tx), ms[Len(ls)].gas = ls[Len(ls)].gas + gas
  PROVE  Listed(ms).txs = Append(Listed(ls).txs, tx) /\ Listed(ms).gas = Listed(ls).gas + gas
<1> DEFINE N == Len(ls)
           before == ListedUpTo(ls)[N - 1]
<1>1. N \in Nat \ {0} /\ Listed(ls) = WithList(before, ls[N]) /\ before \in ListedState /\ ls[N] \in TxList
  BY Zenon, ListedLast
<1>2. ms # <<>>
  BY Zenon, <1>1
<1>3. Listed(ms) = WithList(ListedUpTo(ms)[N - 1], ms[N])
  BY <1>2, ListedLast
<1>4. ListedUpTo(ms)[N - 1] = before
  <2>1. N - 1 \in Nat /\ N - 1 <= Len(ls) /\ N - 1 <= Len(ms)
    BY <1>1
  <2> HIDE DEF N
  <2>2. \A n \in 1 .. N - 1 : ms[n] = ls[n]
    BY Zenon DEF N
  <2> QED
    BY ZenonT(30), <2>1, <2>2, ListedPrefix
<1>5. before.txs \in Seq(Txs) /\ before.gas \in Nat /\ ls[N].txs \in Seq(Txs) /\ ls[N].gas \in Nat
  BY Zenon, <1>1 DEF ListedState, TxList
<1>6. \A s, t \in Seq(Txs) : s \o Append(t, tx) = Append(s \o t, tx)
  BY Zenon, AppendOfConcat
<1>7. ms[N].txs = Append(ls[N].txs, tx) /\ ms[N].gas = ls[N].gas + gas
  BY Zenon
<1> HIDE DEF N, before
<1>9. Listed(ms).txs = before.txs \o Append(ls[N].txs, tx) /\ Listed(ms).gas = before.gas + (ls[N].gas + gas)
  <2>1. Listed(ms) = WithList(before, ms[N])
    BY Zenon, <1>3, <1>4
  <2>2. Listed(ms).txs = before.txs \o ms[N].txs /\ Listed(ms).gas = before.gas + ms[N].gas
    <3>1. WithList(before, ms[N]).txs = before.txs \o ms[N].txs /\ WithList(before, ms[N]).gas = before.gas + ms[N].gas
      BY ZenonT(30), WithListIs
    <3> QED
      BY Zenon, <2>1, <3>1
  <2> QED
    BY Zenon, <2>2, <1>7
<1>10. Listed(ls).txs = before.txs \o ls[N].txs /\ Listed(ls).gas = before.gas + ls[N].gas
  <2>1. WithList(before, ls[N]).txs = before.txs \o ls[N].txs /\ WithList(before, ls[N]).gas = before.gas + ls[N].gas
    BY Zenon, WithListIs
  <2> QED
    BY <1>1, <2>1
<1>11. before.txs \o Append(ls[N].txs, tx) = Append(before.txs \o ls[N].txs, tx)
  BY ZenonT(30), <1>5, <1>6
<1>12. before.gas + (ls[N].gas + gas) = (before.gas + ls[N].gas) + gas
  BY <1>5
<1> QED
  BY Zenon, <1>9, <1>10, <1>11, <1>12

LEMMA FreshLists == Listed(<<EmptyList>>).txs = <<>> /\ Listed(<<EmptyList>>).gas = 0
<1>1. <<>> \in Seq(TxList) /\ Append(<<>>, EmptyList) = <<EmptyList>> /\ Len(<<>>) = 0
  BY EmptyListType
<1>2. Listed(<<>>) = [txs |-> <<>>, gas |-> 0]
  BY Zenon, <1>1, ListedSteps DEF Listed
<1>3. Listed(Append(<<>>, EmptyList)) = Listed(<<>>)
  BY Zenon, <1>1, ListedOpened
<1>4. Listed(<<EmptyList>>) = [txs |-> <<>>, gas |-> 0]
  BY Zenon, <1>1, <1>2, <1>3
<1> QED
  BY <1>4

(* What the executor holds when the loop starts. *)
LEMMA LoopEntered ==
  ASSUME Standing, [SelNext]_allVars, EntersLoop
  PROVE  /\ receipts' = Anchored /\ gasUsed' \in Nat /\ gasUsed' <= AnchorAllowance
         /\ request.mode = "payload" => AnchorGasLimit <= BlockGasLimit
<1> USE DEF Standing
<1>1. ReserveForAnchor \/ AnchorCommitted
  BY ZenonT(30) DEF EntersLoop, SelNext, SelectionStep, Begin, ExecuteAnchor, AnchorFailed, PoolDrained, BudgetDrained,
     Ineligible, SkipRemembered, SkipRerun, NoRoom, Execute, Runnable, InLoop, Drop, Transact, selVars, Included,
     OverflowedAgain, OverflowedFirst, Overran, RejectedByEvm, FatalError, Cancelled, Stop, Return,
     ForeignRecord, ForeignForget, allVars
<1>2. receipts = <<>> /\ gasUsed = 0
  BY DEF EntersLoop, CallInv
<1>3. CASE ReserveForAnchor
  BY <1>2, <1>3 DEF ReserveForAnchor, Reserve, Anchored, AnchorAllowance
<1>4. CASE AnchorCommitted
  <2>1. request.mode = "payload" /\ cur = Anchor /\ phase = "executed" /\ Commit
    BY <1>4 DEF AnchorCommitted, CallInv
  <2>2. receipts' = Append(receipts, Anchor) /\ gasUsed' = gasUsed + CurRun.gas
    BY <2>1, CommitShape
  <2>3. CurRun.gas \in Nat /\ CurRun.gas <= AnchorGasLimit /\ AnchorGasLimit \in Nat
    BY <2>1, CurRunType, SelectionAssumption DEF IInv
  <2>4. gasUsed + AnchorGasLimit <= BlockGasLimit
    BY <2>1, SelectionAssumption DEF IInv, AdmittedGasFits
  <2>5. Append(<<>>, Anchor) = <<Anchor>>
    OBVIOUS
  <2>6. receipts' = <<Anchor>> /\ gasUsed' = CurRun.gas /\ AnchorGasLimit <= BlockGasLimit
    BY <1>2, <2>2, <2>3, <2>4, <2>5
  <2> QED
    BY <2>1, <2>3, <2>6 DEF Anchored, AnchorAllowance
<1> QED
  BY Zenon, <1>1, <1>3, <1>4

LEMMA TimesMonotone ==
  ASSUME NEW n \in Nat, NEW m \in Nat, NEW g \in Nat, n <= m
  PROVE  n * g <= m * g /\ (n + 1) * g = n * g + g /\ n * g \in Nat /\ m * g \in Nat
<1>1. (m - n) * g >= 0 /\ m * g = n * g + (m - n) * g
  OBVIOUS
<1> QED
  BY <1>1

(* Lists at their limit, with the anchor, fill no more than the block. *)
LEMMA ListsFitBlock ==
  ASSUME TypeInv, NEW n \in Nat, n <= MaxLists,
         request.mode = "payload" => AnchorGasLimit <= BlockGasLimit
  PROVE  n * GasPerList + AnchorAllowance <= BlockGasLimit
<1>1. GasPerList \in Nat /\ BlockGasLimit \in Nat /\ AnchorGasLimit \in Nat
  BY GasPerListType, SelectionAssumption, ExecutorAssumption
<1>2. CASE request.mode = "rpc"
  <2>1. n * RpcGasPerList <= RpcMaxLists * RpcGasPerList
    BY <1>2, TimesMonotone, SelectionAssumption DEF MaxLists
  <2>2. RpcMaxLists * RpcGasPerList = BlockGasLimit /\ n * RpcGasPerList \in Nat
    BY SelectionAssumption
  <2> QED
    BY <1>1, <1>2, <2>1, <2>2 DEF GasPerList, AnchorAllowance
<1>3. CASE request.mode # "rpc"
  <2>1. request.mode = "payload"
    BY <1>3, RequestFacts DEF TypeInv, Modes
  <2>2. n <= 1 /\ GasPerList = BlockGasLimit - AnchorGasLimit
    BY <1>1, <2>1 DEF MaxLists, GasPerList, SaturatingSub
  <2>3. n * GasPerList <= 1 * GasPerList
    BY Zenon, <1>1, <2>2, TimesMonotone
  <2> QED
    BY <1>1, <2>1, <2>2, <2>3 DEF AnchorAllowance
<1> QED
  BY <1>2, <1>3

(* A candidate that fits the last list, or a new one, fits the block. *)
LEMMA RoomInList ==
  ASSUME NEW used \in Nat, NEW listed \in Nat, NEW allowance \in Nat, NEW before \in Nat, NEW last \in Nat,
         NEW filled \in Nat, NEW list \in Nat, NEW limit \in Nat, NEW block \in Nat,
         listed <= before + last, used <= listed + allowance, before + list = filled,
         last + limit <= list, filled + allowance <= block
  PROVE  used + limit <= block
OBVIOUS

LEMMA RoomInNewList ==
  ASSUME NEW used \in Nat, NEW allowance \in Nat, NEW filled \in Nat, NEW list \in Nat, NEW limit \in Nat,
         NEW block \in Nat, used <= filled + allowance, limit <= list, filled + list + allowance <= block
  PROVE  used + limit <= block
<1>1. used + limit <= (filled + allowance) + list
  OBVIOUS
<1>2. (filled + allowance) + list <= block
  OBVIOUS
<1> QED
  BY <1>1, <1>2

(* In the loop, a candidate that fits a list fits the block. *)
LEMMA CandidateFitsBlock ==
  ASSUME Standing, ListsAreTheBlock, GasInv, Execute
  PROVE  ~RefuseGasLimit(Candidate)
<1> USE DEF Standing
<1>1. step = "loop" /\ todo # <<>> /\ Candidate \in Txs /\ Eligible(Candidate)
  BY CandidateType DEF Execute, Runnable, InLoop
<1>2. /\ Listed(lists).gas <= (Len(lists) - 1) * GasPerList + Last(lists).gas
      /\ gasUsed <= Listed(lists).gas + AnchorAllowance /\ Len(lists) <= MaxLists
      /\ request.mode = "payload" => AnchorGasLimit <= BlockGasLimit
  BY ZenonT(40), <1>1 DEF GasInv, InCall, ListsAreTheBlock
<1>3. Len(lists) \in Nat \ {0} /\ Last(lists) \in TxList /\ GasPerList \in Nat
      /\ GasLimit[Candidate] \in Nat /\ GasLimit[Candidate] <= GasPerList
      /\ AnchorAllowance \in Nat /\ gasUsed \in Nat /\ BlockGasLimit \in Nat
  BY Zenon, <1>1, ListShape, GasPerListType, ExecutorAssumption, SelectionAssumption DEF Eligible,
     AnchorAllowance, IInv, TypeOK
<1>4. Last(lists).gas \in Nat /\ Last(lists).gas <= GasPerList
  <2>1. Last(lists).gas <= GasPerList
    BY <1>1, <1>3, ListShape DEF ListsAreTheBlock, Last
  <2> QED
    BY Zenon, <1>3, <2>1 DEF TxList
<1>5. Listed(lists).gas \in Nat
  BY ListedLast DEF TypeInv, ListedState
<1> DEFINE n == Len(lists)
           G == GasPerList
<1>6. (n - 1) * G + G = n * G /\ n * G + G = (n + 1) * G /\ (n - 1) * G \in Nat /\ n * G \in Nat
  BY <1>3
<1>7. CASE ~InCurrent.exceeds
  <2>1. Last(lists).gas + GasLimit[Candidate] <= GasPerList
    BY <1>1, <1>3, <1>7, WithinLimits DEF InCurrent
  <2>2. n * G + AnchorAllowance <= BlockGasLimit
    BY <1>2, <1>3, ListsFitBlock
  <2> HIDE DEF n, G
  <2>3. gasUsed + GasLimit[Candidate] <= BlockGasLimit
    BY Zenon, <1>2, <1>3, <1>4, <1>5, <1>6, <2>1, <2>2, RoomInList DEF n, G
  <2> QED
    BY <1>3, <2>3 DEF RefuseGasLimit
<1>8. CASE MayOpen
  <2>1. n + 1 \in Nat /\ n + 1 <= MaxLists
    BY <1>3, <1>8, SelectionAssumption DEF MayOpen, MaxLists
  <2>2. (n + 1) * G + AnchorAllowance <= BlockGasLimit
    BY <1>2, <2>1, ListsFitBlock
  <2> HIDE DEF n, G
  <2>3. gasUsed + GasLimit[Candidate] <= BlockGasLimit
    <3>1. n * G + G + AnchorAllowance <= BlockGasLimit
      BY Zenon, <1>6, <2>2
    <3>2. Listed(lists).gas <= (n - 1) * G + Last(lists).gas /\ Last(lists).gas <= G
      BY Zenon, <1>2, <1>4 DEF n, G
    <3>3. G \in Nat /\ gasUsed \in Nat /\ AnchorAllowance \in Nat
      BY Zenon, <1>3 DEF G
    <3>4. Listed(lists).gas <= n * G
      BY <1>4, <1>5, <1>6, <3>2, <3>3
    <3>5. gasUsed <= n * G + AnchorAllowance
      BY <1>2, <1>5, <1>6, <3>3, <3>4
    <3> QED
      BY Zenon, <1>3, <1>6, <3>1, <3>5, RoomInNewList DEF G
  <2> QED
    BY <1>3, <2>3 DEF RefuseGasLimit
<1> QED
  BY Zenon, <1>7, <1>8 DEF Execute

(* The executor's own gas check never fires on a candidate. *)
LEMMA NeverRefused ==
  ASSUME Standing, ListsAreTheBlock, GasInv, [SelNext]_allVars, step' = "call"
  PROVE  result' # "gas_limit"
<1> USE DEF Standing
<1>1. CASE Execute
  <2>1. ~exhausted /\ phase = "ready"
    BY Zenon, <1>1 DEF Execute, Runnable, InLoop, CallInv
  <2>2. StartTransact(Candidate)
    BY ZenonT(30), <1>1, <2>1, CandidateFitsBlock DEF Execute, RefuseExhausted
  <2> QED
    BY <2>2 DEF StartTransact, Overflow, ReturnTo
<1>2. ASSUME step = "call", UNCHANGED result PROVE result' # "gas_limit"
  BY <1>2 DEF ListsAreTheBlock
<1>3. CASE Transact
  <2>1. UNCHANGED step
    BY Zenon, <1>3 DEF Transact, selVars
  <2>2. phase' # "ready" => UNCHANGED result
    BY Zenon, <1>3, TransactShape DEF TransactStep, Transact
  <2>3. phase' = "ready" => result' # "gas_limit"
    BY Zenon, <1>3, TransactShape DEF TransactStep, Transact
  <2> QED
    BY <1>2, <2>1, <2>2, <2>3
<1>4. ASSUME NEW m \in Modes, NEW tx \in Txs \ {Anchor}, NEW d, ForeignRecord(m, tx, d) \/ ForeignForget(m, tx)
      PROVE  step = "call" /\ UNCHANGED result
  BY <1>4 DEF ForeignRecord, ForeignForget, vars
<1>5. CASE UNCHANGED allVars
  BY <1>2, <1>5 DEF allVars, selVars, vars
<1>6. \/ Execute \/ Transact \/ UNCHANGED allVars
      \/ \E m \in Modes, tx \in Txs \ {Anchor} : \E d : ForeignRecord(m, tx, d) \/ ForeignForget(m, tx)
  BY ZenonT(30) DEF SelNext, SelectionStep, Begin, ReserveForAnchor, AnchorCommitted, ExecuteAnchor, AnchorFailed,
     PoolDrained, BudgetDrained, Ineligible, SkipRemembered, SkipRerun, NoRoom, Runnable, InLoop, Drop, Included,
     OverflowedAgain, OverflowedFirst, RejectedByEvm, FatalError, Cancelled, Stop, Return, EnterLoop
<1> QED
  BY <1>1, <1>2, <1>3, <1>4, <1>5, <1>6

(* The call's parameters stay while it is in its loop. *)
LEMMA SameRequest ==
  ASSUME UNCHANGED request
  PROVE  /\ GasPerList' = GasPerList /\ MaxLists' = MaxLists
         /\ Anchored' = Anchored /\ AnchorAllowance' = AnchorAllowance
BY DEF GasPerList, MaxLists, Anchored, AnchorAllowance

BlockInv == ListsAreTheBlock /\ GasInv

LEMMA NextBlock == Standing /\ AdmittedInv /\ BlockInv /\ [SelNext]_allVars => BlockInv'
<1> SUFFICES ASSUME Standing, AdmittedInv, BlockInv, [SelNext]_allVars, InCall' PROVE BlockInv'
  BY Zenon DEF BlockInv, ListsAreTheBlock, GasInv, InCall
<1> USE DEF Standing
<1>0. step' = "call" => result' # "gas_limit"
  BY NeverRefused DEF BlockInv
<1>1. TypeInv' /\ IInv'
  BY StandingNext
<1>2. Len(lists') \in Nat \ {0} /\ DOMAIN lists' = 1 .. Len(lists')
  BY <1>1 DEF TypeInv
<1>3. CASE EntersLoop
  <2>1. lists' = <<EmptyList>> /\ UNCHANGED request /\ step' = "loop"
    BY <1>3 DEF EntersLoop, CallInv
  <2>2. receipts' = Anchored' /\ gasUsed' \in Nat /\ gasUsed' <= AnchorAllowance'
        /\ (request'.mode = "payload" => AnchorGasLimit <= BlockGasLimit)
    BY Zenon, <1>3, <2>1, LoopEntered, SameRequest
  <2>3. /\ Listed(lists').txs = <<>> /\ Listed(lists').gas = 0 /\ Len(lists') = 1 /\ lists'[1] = EmptyList
        /\ Last(lists)' = EmptyList
    BY <2>1, FreshLists DEF Last
  <2>4. Anchored' \in Seq(Txs)
    BY SelectionAssumption DEF Anchored
  <2>5. Anchored' \o <<>> = Anchored' /\ AnchorAllowance' \in Nat
    BY <2>4, SelectionAssumption, ExecutorAssumption DEF AnchorAllowance
  <2>6. GasPerList' \in Nat /\ MaxLists' \in Nat /\ 1 <= MaxLists' /\ MaxDa \in Nat
    BY <2>1, SameRequest, GasPerListType, SelectionAssumption DEF MaxLists
  <2>7. EmptyList.gas = 0 /\ EmptyList.da = 0
    BY DEF EmptyList
  <2>8. ListsAreTheBlock'
    <3>1. receipts' = Anchored' \o Listed(lists').txs
      BY Zenon, <2>2, <2>3, <2>5
    <3>2. Listed(lists').gas <= gasUsed' /\ gasUsed' <= Listed(lists').gas + AnchorAllowance'
      <4> DEFINE g == gasUsed'
                 a == AnchorAllowance'
                 l == Listed(lists').gas
      <4>1. g \in Nat /\ a \in Nat /\ l = 0 /\ g <= a
        BY Zenon, <2>2, <2>3, <2>5
      <4> HIDE DEF g, a, l
      <4>2. l <= g /\ g <= l + a
        BY <4>1
      <4> QED
        BY <4>2 DEF g, a, l
    <3>3. \A i \in DOMAIN lists' : lists'[i].gas <= GasPerList' /\ lists'[i].da <= MaxDa
      BY <1>2, <2>3, <2>6, <2>7
    <3>4. Len(lists') <= MaxLists'
      BY ZenonT(30), <2>3, <2>6
    <3> QED
      BY ZenonT(40), <1>0, <3>1, <3>2, <3>3, <3>4 DEF ListsAreTheBlock
  <2>9. GasInv'
    BY <2>1, <2>2, <2>3, <2>6, <2>7 DEF GasInv
  <2> QED
    BY <2>8, <2>9 DEF BlockInv
<1>4. CASE KeepsLists
  <2>1. InCall /\ UNCHANGED <<lists, request, receipts, gasUsed>> /\ Last(lists)' = Last(lists)
    BY ZenonT(40), <1>4 DEF KeepsLists, Last
  <2>2. ListsAreTheBlock'
    BY Zenon, <1>0, <2>1, SameRequest DEF BlockInv, ListsAreTheBlock, InCall
  <2>3. GasInv'
    BY <2>1, SameRequest DEF BlockInv, GasInv
  <2> QED
    BY <2>2, <2>3 DEF BlockInv
<1>5. CASE OpensList
  <2>1. /\ InCall /\ lists' = Append(lists, EmptyList) /\ UNCHANGED <<request, receipts, gasUsed>>
        /\ Len(lists) < MaxLists /\ lists \in Seq(TxList)
    BY <1>5 DEF OpensList, MayOpen, TypeInv
  <2>2. Listed(lists') = Listed(lists) /\ Listed(lists).gas \in Nat
    BY Zenon, <2>1, ListedOpened DEF ListedState
  <2>3. /\ Len(lists') = Len(lists) + 1 /\ Last(lists)' = EmptyList /\ lists'[Len(lists) + 1] = EmptyList
        /\ \A i \in 1 .. Len(lists) : lists'[i] = lists[i]
    BY <2>1, OpenedLists DEF Last
  <2>4. /\ GasPerList \in Nat /\ MaxLists \in Nat /\ MaxDa \in Nat /\ Len(lists) \in Nat \ {0}
        /\ DOMAIN lists = 1 .. Len(lists) /\ Last(lists) \in TxList
    BY Zenon, GasPerListType, ListShape, SelectionAssumption DEF MaxLists
  <2>5. EmptyList.gas = 0 /\ EmptyList.da = 0
    BY DEF EmptyList
  <2>6. ASSUME NEW i \in DOMAIN lists' PROVE lists'[i].gas <= GasPerList' /\ lists'[i].da <= MaxDa
    <3>1. i \in 1 .. Len(lists) \/ i = Len(lists) + 1
      BY <1>2, <2>3, <2>4
    <3> QED
      BY <2>1, <2>3, <2>4, <2>5, <3>1, SameRequest DEF BlockInv, ListsAreTheBlock, InCall
  <2>7. Len(lists') <= MaxLists'
    BY <2>1, <2>3, <2>4, SameRequest
  <2>8. ListsAreTheBlock'
    BY <1>0, <2>1, <2>2, <2>6, <2>7, SameRequest DEF BlockInv, ListsAreTheBlock, InCall
  <2>9. Last(lists).gas \in Nat /\ Last(lists).gas <= GasPerList
    <3>1. Len(lists) \in DOMAIN lists /\ Last(lists) = lists[Len(lists)]
      BY <2>4 DEF Last
    <3>2. Last(lists).gas <= GasPerList
      BY <2>1, <3>1 DEF BlockInv, ListsAreTheBlock, InCall
    <3> QED
      BY <2>4, <3>2 DEF TxList
  <2>10. (Len(lists) - 1) * GasPerList + GasPerList = Len(lists) * GasPerList
         /\ (Len(lists) - 1) * GasPerList \in Nat
    BY <2>4
  <2>11. Listed(lists).gas <= Len(lists) * GasPerList + 0
    BY <2>1, <2>2, <2>4, <2>9, <2>10 DEF BlockInv, GasInv
  <2>12. Len(lists') - 1 = Len(lists)
    BY <2>3, <2>4
  <2>13. GasInv'
    BY Zenon, <2>1, <2>2, <2>3, <2>5, <2>11, <2>12, SameRequest DEF BlockInv, GasInv
  <2> QED
    BY <2>8, <2>13 DEF BlockInv
<1>6. CASE Included
  <2>1. /\ step = "call" /\ step' = "loop" /\ UNCHANGED request /\ todo # <<>> /\ cur = Candidate
        /\ Candidate \in Txs /\ Commit
    BY Zenon, <1>6, CandidateType DEF Included, CallInv
  <2>2. /\ lists' \in Seq(TxList) /\ Len(lists') = Len(lists) /\ Len(lists) \in Nat \ {0}
        /\ lists'[Len(lists)] = Extended(Last(lists)) /\ Last(lists) \in TxList
        /\ \A i \in 1 .. Len(lists) - 1 : lists'[i] = lists[i]
    BY <1>6, IncludedLists
  <2>3. /\ CurRun.gas \in Nat /\ CurRun.gas <= GasLimit[Candidate] /\ GasLimit[Candidate] \in Nat
        /\ DaSize[Candidate] \in Nat /\ MaxDa \in Nat /\ GasPerList \in Nat
    BY <2>1, CurRunType, GasPerListType, SelectionAssumption DEF IInv
  <2>4. /\ Extended(Last(lists)).txs = Append(Last(lists).txs, Candidate)
        /\ Extended(Last(lists)).gas = Last(lists).gas + CurRun.gas
        /\ Extended(Last(lists)).da = Last(lists).da + DaSize[Candidate]
    BY DEF Extended
  <2>5. Listed(lists').txs = Append(Listed(lists).txs, Candidate) /\ Listed(lists').gas = Listed(lists).gas + CurRun.gas
    <3>1. lists \in Seq(TxList) /\ lists # <<>> /\ Last(lists) = lists[Len(lists)]
      BY DEF TypeInv, Last
    <3>2. lists'[Len(lists)].txs = Append(lists[Len(lists)].txs, Candidate)
          /\ lists'[Len(lists)].gas = lists[Len(lists)].gas + CurRun.gas
      BY Zenon, <2>2, <2>4, <3>1
    <3> QED
      BY ZenonT(30), <2>1, <2>2, <2>3, <3>1, <3>2, ListedExtended
  <2>6. Listed(lists).txs \in Seq(Txs) /\ Listed(lists).gas \in Nat
    BY ListedLast DEF TypeInv, ListedState
  <2>7. receipts' = Append(receipts, Candidate) /\ gasUsed' = gasUsed + CurRun.gas /\ gasUsed \in Nat
    BY <2>1, CommitShape DEF IInv, TypeOK
  <2>8. receipts' = Anchored' \o Listed(lists').txs
    <3>1. Anchored \in Seq(Txs)
      BY SelectionAssumption DEF Anchored
    <3>2. \A s, t \in Seq(Txs) : Append(s \o t, Candidate) = s \o Append(t, Candidate)
      BY Zenon, <2>1, AppendOfConcat
    <3>3. receipts = Anchored \o Listed(lists).txs
      BY <2>1 DEF BlockInv, ListsAreTheBlock
    <3> QED
      BY ZenonT(30), <2>1, <2>5, <2>6, <2>7, <3>1, <3>2, <3>3, SameRequest
  <2>9. AnchorAllowance \in Nat
    BY SelectionAssumption, ExecutorAssumption DEF AnchorAllowance
  <2>10. Listed(lists').gas <= gasUsed' /\ gasUsed' <= Listed(lists').gas + AnchorAllowance'
    <3> DEFINE g == gasUsed
               a == AnchorAllowance
               l == Listed(lists).gas
               c == CurRun.gas
    <3>1. l <= g /\ g <= l + a
      BY ZenonT(30), <2>1 DEF BlockInv, ListsAreTheBlock, InCall
    <3>2. g \in Nat /\ a \in Nat /\ l \in Nat /\ c \in Nat
      BY Zenon, <2>3, <2>6, <2>7, <2>9
    <3>3. gasUsed' = g + c /\ Listed(lists').gas = l + c /\ AnchorAllowance' = a
      BY <2>1, <2>5, <2>7, SameRequest
    <3> HIDE DEF g, a, l, c
    <3>4. l + c <= g + c /\ g + c <= (l + c) + a
      BY <3>1, <3>2
    <3> QED
      BY <3>3, <3>4
  <2>11. Last(lists).gas \in Nat /\ Last(lists).da \in Nat
    BY ZenonT(30), <2>2 DEF TxList
  <2>12. Extended(Last(lists)).gas <= GasPerList /\ Extended(Last(lists)).da <= MaxDa
    <3>1. Last(lists).gas + GasLimit[Candidate] <= GasPerList /\ Last(lists).da + DaSize[Candidate] <= MaxDa
      BY ZenonT(30), <2>1 DEF AdmittedInv
    <3> QED
      BY <2>3, <2>4, <2>11, <3>1
  <2>13. ASSUME NEW i \in DOMAIN lists' PROVE lists'[i].gas <= GasPerList' /\ lists'[i].da <= MaxDa
    <3>1. i \in 1 .. Len(lists) - 1 \/ i = Len(lists)
      BY <1>2, <2>2
    <3>2. DOMAIN lists = 1 .. Len(lists)
      BY ListShape
    <3>3. \A j \in DOMAIN lists : lists[j].gas <= GasPerList /\ lists[j].da <= MaxDa
      BY Zenon, <2>1 DEF BlockInv, ListsAreTheBlock
    <3>4. GasPerList' = GasPerList
      BY <2>1, SameRequest
    <3>5. CASE i = Len(lists)
      BY ZenonT(40), <2>2, <2>12, <3>4, <3>5
    <3>6. CASE i \in 1 .. Len(lists) - 1
      BY <2>2, <3>2, <3>3, <3>4, <3>6
    <3> QED
      BY Zenon, <3>1, <3>5, <3>6
  <2>14. ListsAreTheBlock'
    BY Zenon, <2>1, <2>2, <2>8, <2>10, <2>13, SameRequest DEF BlockInv, ListsAreTheBlock
  <2>15. Last(lists)' = Extended(Last(lists)) /\ (Len(lists) - 1) * GasPerList \in Nat
    BY <2>2, <2>3 DEF Last
  <2>16. Listed(lists').gas <= (Len(lists') - 1) * GasPerList' + Last(lists)'.gas
    <3>1. Listed(lists).gas <= (Len(lists) - 1) * GasPerList + Last(lists).gas
      BY Zenon, <2>1 DEF BlockInv, GasInv, InCall
    <3>2. Listed(lists).gas + CurRun.gas <= (Len(lists) - 1) * GasPerList + (Last(lists).gas + CurRun.gas)
      BY <2>3, <2>6, <2>11, <2>15, <3>1
    <3>3. Last(lists)'.gas = Last(lists).gas + CurRun.gas /\ GasPerList' = GasPerList
      BY <2>1, <2>4, <2>15, SameRequest
    <3> QED
      BY <2>2, <2>5, <3>2, <3>3
  <2>17. GasInv'
    BY <2>1, <2>16 DEF BlockInv, GasInv, InCall
  <2> QED
    BY <2>14, <2>17 DEF BlockInv
<1> QED
  BY ZenonT(40), <1>3, <1>4, <1>5, <1>6, ListSteps

(* The invariant the next theorem needs: the lists are the block, and all   *)
(* but the last count at their gas limit (the per-list loop of mod.rs).     *)
THEOREM BlockHolds == SelSpec => []BlockInv
<1>1. SelInit => BlockInv
  BY DEF SelInit, BlockInv, ListsAreTheBlock, GasInv, InCall
<1> QED
  BY <1>1, NextBlock, StandingHolds, AdmittedHolds, PTL DEF SelSpec

(* The lists are the block: in order, their transactions are what the       *)
(* executor committed after the anchor, their gas what it used; no list is  *)
(* over its limits, and a candidate that fits a list never meets the        *)
(* executor's own gas check, whose error is fatal for selection.            *)
THEOREM ListsMakeTheBlock == SelSpec => []ListsAreTheBlock
<1>1. BlockInv => ListsAreTheBlock
  BY DEF BlockInv
<1> QED
  BY <1>1, BlockHolds, PTL

LEMMA SizeTypes ==
  ASSUME NEW list \in TxList, NEW tx \in Txs
  PROVE  /\ list.gas \in Nat /\ list.da \in Nat /\ GasLimit[tx] \in Nat
         /\ DaSize[tx] \in Nat /\ MaxDa \in Nat
BY SelectionAssumption, ExecutorAssumption DEF TxList

LEMMA SizesFit ==
  ASSUME NEW list \in TxList, NEW tx \in Txs, NEW gas \in Nat
  PROVE  /\ list.gas + GasLimit[tx] <= gas => ~(list.gas + GasLimit[tx] > gas)
         /\ list.da + DaSize[tx] <= MaxDa => ~(list.da + DaSize[tx] > MaxDa)
BY SizeTypes

(* Most leaves need no arithmetic: Zenon is tried unless one asks for SMT.  *)
USE Zenon

-----------------------------------------------------------------------------
(* Ratios.  Unless the state of the ratios changes, a measurement decides   *)
(* nothing.                                                                 *)

LEMMA QuotientIsSmall ==
  ASSUME NEW x \in Nat, NEW e \in Nat \ {0}
  PROVE  x \div e \in Nat /\ (x \div e <= 100 => x < 101 * e)
BY SMT

LEMMA HalfThreshold ==
  ASSUME NEW m \in Nat, NEW e \in Nat, e < (m * 50) \div 100, NEW x \in Nat, x * 100 < 101 * e
  PROVE  x <= m
BY SMT

LEMMA ZlibSizeType ==
  ASSUME NEW txs \in Seq(Txs)
  PROVE  ZlibTxListSize(txs) \in Nat
<1> DEFINE N == Len(txs)
           f == [n \in 1 .. N |-> [s \in Nat |-> s + ZlibSize[txs[n]]]]
           Defines(g) == g = [n \in 0 .. N |-> IF n = 0 THEN 0 ELSE g[n - 1] + ZlibSize[txs[n]]]
           w == CHOOSE g : Defines(g)
<1>1. N \in Nat /\ \A n \in 1 .. N : ZlibSize[txs[n]] \in Nat
  BY SMT, SelectionAssumption
<1>2. f \in [1 .. N -> [Nat -> Nat]]
  BY SMT, <1>1
<1>3. PICK g \in [0 .. N -> Nat] : Iterates(g, f, 0, N)
  <2>1. 0 \in Nat
    BY SMT
  <2> HIDE DEF f, N
  <2> QED
    BY <1>1, <1>2, <2>1, RecursionHasSolution
<1>4. g[0] = 0 /\ \A n \in 1 .. N : g[n] = g[n - 1] + ZlibSize[txs[n]]
  <2>1. ASSUME NEW n \in 1 .. N PROVE g[n - 1] \in Nat
    <3>1. n - 1 \in 0 .. N
      BY SMT, <1>1
    <3> QED
      BY <3>1
  <2> QED
    BY <1>3, <2>1 DEF Iterates
<1>5. Defines(g)
  BY SMT, <1>4
<1>6. Defines(w)
  <2> HIDE DEF Defines
  <2> QED
    BY <1>5
<1>7. w[0] = 0 /\ \A n \in 1 .. N : w[n] = w[n - 1] + ZlibSize[txs[n]]
  <2> HIDE DEF w
  <2> QED
    BY SMT, <1>1, <1>6
<1>8. StepAlike(w, g, N)
  <2> HIDE DEF w
  <2> QED
    BY SMT, <1>4, <1>7 DEF StepAlike
<1>9. Alike(w, g, N)
  <2> HIDE DEF w, N
  <2> QED
    BY <1>1, <1>8, RecursionIsUnique
<1>10. w[N] \in Nat
  <2> HIDE DEF w
  <2> QED
    BY SMT, <1>1, <1>9 DEF Alike
<1>11. ZlibTxListSize(txs) = w[N]
  BY DEF ZlibTxListSize
<1> HIDE DEF w
<1> QED
  BY <1>10, <1>11

RatioState == [max : {n \in Nat : RATIO_SCALE <= n}, mid : BOOLEAN, high : BOOLEAN]

(* An unremarkable ratio stays unremarkable only where no measurement       *)
(* decides: the list is refused for its gas or its estimate.                *)
LEMMA UpdatedRatio ==
  ASSUME NEW ratio \in RatioState, NEW est \in Nat \ {0}, NEW actual \in Nat
  PROVE  LET new == UpdateRatioState(ratio, est, actual)
         IN  /\ new \in RatioState
             /\ new = DefaultRatio => ratio = DefaultRatio /\ actual <= MaxDa
<1> DEFINE q == (actual * RATIO_SCALE) \div est
           new == UpdateRatioState(ratio, est, actual)
<1>1. /\ ratio.max \in Nat /\ 100 <= ratio.max /\ ratio.mid \in BOOLEAN /\ ratio.high \in BOOLEAN
      /\ ratio = [max |-> ratio.max, mid |-> ratio.mid, high |-> ratio.high]
  BY SMT DEF RatioState, RATIO_SCALE
<1>2. actual * RATIO_SCALE \in Nat
  BY SMT DEF RATIO_SCALE
<1>3. q \in Nat /\ (q <= 100 => actual * RATIO_SCALE < 101 * est)
  BY SMT, <1>2, QuotientIsSmall
<1> HIDE DEF q
<1>4. /\ Max({ratio.max, q}) \in Nat /\ ratio.max <= Max({ratio.max, q}) /\ q <= Max({ratio.max, q})
  <2>1. Max({ratio.max, q}) \in {ratio.max, q} /\ ratio.max <= Max({ratio.max, q}) /\ q <= Max({ratio.max, q})
    BY <1>1, <1>3, MaxOfTwo
  <2> QED
    BY <1>1, <1>3, <2>1
<1>5. new = [max |-> Max({ratio.max, q}), mid |-> ratio.mid \/ est >= RatioThreshold(50),
             high |-> ratio.high \/ est >= RatioThreshold(80)]
  <2>1. est > 0
    BY SMT
  <2> QED
    BY <2>1 DEF UpdateRatioState, q
<1> HIDE DEF new
<1>6. new \in RatioState
  BY SMT, <1>1, <1>4, <1>5 DEF RatioState, RATIO_SCALE
<1>7. ASSUME new = DefaultRatio PROVE ratio = DefaultRatio /\ actual <= MaxDa
  <2>1. Max({ratio.max, q}) = 100 /\ ~ratio.mid /\ ~ratio.high /\ ~(est >= RatioThreshold(50))
    <3>1. new.max = 100 /\ new.mid = FALSE /\ new.high = FALSE
      BY SMT, <1>7 DEF DefaultRatio, RATIO_SCALE
    <3>2. /\ new.max = Max({ratio.max, q})
          /\ new.mid = (ratio.mid \/ est >= RatioThreshold(50))
          /\ new.high = (ratio.high \/ est >= RatioThreshold(80))
      BY <1>5
    <3> QED
      BY <3>1, <3>2
  <2>2. ratio.max = 100 /\ q <= 100
    BY SMT, <1>1, <1>3, <1>4, <2>1
  <2>3. ratio = DefaultRatio
    BY SMT, <1>1, <2>1, <2>2 DEF DefaultRatio, RATIO_SCALE
  <2>4. est < (MaxDa * 50) \div 100 /\ MaxDa \in Nat
    BY SMT, <2>1, SelectionAssumption DEF RatioThreshold
  <2>5. actual * 100 < 101 * est
    BY SMT, <1>3, <2>2 DEF RATIO_SCALE
  <2> QED
    BY SMT, <2>3, <2>4, <2>5, HalfThreshold
<1> QED
  BY SMT, <1>6, <1>7 DEF new

LEMMA RatioKept ==
  ASSUME TypeInv, NEW list \in TxList, NEW ratio \in RatioState, NEW tx \in Txs
  PROVE  LET e == ExceedsListLimits(list, ratio, tx)
         IN  /\ e.ratio \in RatioState
             /\ e.ratio = DefaultRatio =>
                  /\ ratio = DefaultRatio
                  /\ e.exceeds => list.gas + GasLimit[tx] > GasPerList \/ list.da + DaSize[tx] > MaxDa
<1> DEFINE est == list.da + DaSize[tx]
           actual == ZlibTxListSize(Append(list.txs, tx))
           measured == est <= MaxDa /\ Guard > 0 /\ RunsZlib(ratio, est)
           e == ExceedsListLimits(list, ratio, tx)
<1>1. list.txs \in Seq(Txs) /\ list.da \in Nat /\ DaSize[tx] \in Nat \ {0} /\ MaxDa \in Nat
  BY SMT, SelectionAssumption DEF TxList
<1>2. est \in Nat \ {0} /\ actual \in Nat
  <2>1. est \in Nat \ {0} /\ Append(list.txs, tx) \in Seq(Txs)
    BY SMT, <1>1
  <2> QED
    BY <2>1, ZlibSizeType
<1>3. /\ e.exceeds = (\/ list.gas + GasLimit[tx] > GasPerList
                      \/ est > MaxDa
                      \/ measured /\ actual > MaxDa)
      /\ e.ratio = IF measured THEN UpdateRatioState(ratio, est, actual) ELSE ratio
  BY DEF ExceedsListLimits
<1>4. LET new == UpdateRatioState(ratio, est, actual)
      IN  /\ new \in RatioState
          /\ new = DefaultRatio => ratio = DefaultRatio /\ actual <= MaxDa
  BY <1>2, UpdatedRatio
<1>5. ~(actual <= MaxDa /\ actual > MaxDa)
  BY SMT, <1>1, <1>2
<1> HIDE DEF e, actual, measured
<1>6. CASE measured
  BY <1>3, <1>4, <1>5, <1>6 DEF e
<1>7. CASE ~measured
  BY <1>3, <1>7 DEF e
<1> QED
  BY <1>6, <1>7

RatioInv == ratios \in Seq(RatioState) /\ ratios # <<>>

LEMMA DefaultRatioType == DefaultRatio \in RatioState
BY SMT DEF DefaultRatio, RatioState, RATIO_SCALE

(* What measuring the candidate leaves of the ratios. *)
LEMMA MeasuredRatios ==
  ASSUME TypeInv, RatioInv, todo # <<>>
  PROVE  /\ Measured \in Seq(RatioState) /\ Measured # <<>>
         /\ Append(Measured, InFresh.ratio) \in Seq(RatioState)
         /\ Append(Measured, InFresh.ratio) # <<>> /\ Append(Measured, InFresh.ratio) # <<DefaultRatio>>
         /\ Measured = <<DefaultRatio>> =>
              /\ ratios = <<DefaultRatio>>
              /\ InCurrent.exceeds => \/ Last(lists).gas + GasLimit[Candidate] > GasPerList
                                      \/ Last(lists).da + DaSize[Candidate] > MaxDa
<1>1. Candidate \in Txs /\ Last(lists) \in TxList /\ EmptyList \in TxList
  BY CandidateType, ListShape, EmptyListType
<1>2. Last(ratios) \in RatioState /\ Len(ratios) \in Nat \ {0} /\ ratios \in Seq(RatioState)
  BY SMT DEF RatioInv, Last
<1>3. /\ InCurrent.ratio \in RatioState
      /\ InCurrent.ratio = DefaultRatio =>
           /\ Last(ratios) = DefaultRatio
           /\ InCurrent.exceeds => \/ Last(lists).gas + GasLimit[Candidate] > GasPerList
                                   \/ Last(lists).da + DaSize[Candidate] > MaxDa
  BY <1>1, <1>2, RatioKept DEF InCurrent
<1>4. InFresh.ratio \in RatioState
  BY <1>1, RatioKept, DefaultRatioType DEF InFresh
<1>5. ASSUME NEW c \in RatioState, NEW f \in RatioState, NEW m, m = [ratios EXCEPT ![Len(ratios)] = c]
      PROVE  /\ m \in Seq(RatioState) /\ m # <<>> /\ Append(m, f) \in Seq(RatioState) /\ Len(Append(m, f)) > 1
             /\ m = <<DefaultRatio>> => Len(ratios) = 1 /\ c = DefaultRatio
  <2>1. m \in Seq(RatioState) /\ Len(m) = Len(ratios) /\ m[Len(ratios)] = c
    BY SMT, <1>2, <1>5
  <2> QED
    BY SMT, <1>2, <2>1
<1>6. /\ Measured \in Seq(RatioState) /\ Measured # <<>>
      /\ Append(Measured, InFresh.ratio) \in Seq(RatioState) /\ Len(Append(Measured, InFresh.ratio)) > 1
      /\ Measured = <<DefaultRatio>> => Len(ratios) = 1 /\ InCurrent.ratio = DefaultRatio
  BY <1>3, <1>4, <1>5 DEF Measured
<1>7. Append(Measured, InFresh.ratio) # <<>> /\ Append(Measured, InFresh.ratio) # <<DefaultRatio>>
  <2>1. Len(<<>>) = 0 /\ Len(<<DefaultRatio>>) = 1 /\ ~(0 > 1) /\ ~(1 > 1)
    BY SMT
  <2> QED
    BY <1>6, <2>1
<1>8. Len(ratios) = 1 /\ Last(ratios) = DefaultRatio => ratios = <<DefaultRatio>>
  BY SMT, <1>2 DEF Last
<1> QED
  BY <1>3, <1>6, <1>7, <1>8

LEMMA NextRatio == Standing /\ RatioInv /\ [SelNext]_allVars => RatioInv'
<1> SUFFICES ASSUME Standing, RatioInv, [SelNext]_allVars PROVE RatioInv'
  BY SMT
<1>1. ASSUME UNCHANGED ratios PROVE RatioInv'
  BY <1>1 DEF RatioInv
<1>2. CASE \E r \in Requests : Begin(r)
  <2>1. ratios' = <<DefaultRatio>>
    BY <1>2 DEF Begin
  <2> QED
    BY SMT, <2>1, DefaultRatioType DEF RatioInv
<1>3. CASE NoRoom \/ Execute
  <2>1. todo # <<>> /\ ratios' \in {Measured, Append(Measured, InFresh.ratio)}
    BY <1>3 DEF NoRoom, Execute, Runnable, InLoop
  <2> QED
    BY <2>1, MeasuredRatios DEF RatioInv, Standing
<1>4. CASE \/ ReserveForAnchor \/ ExecuteAnchor \/ AnchorCommitted \/ AnchorFailed \/ PoolDrained
           \/ Cancelled \/ BudgetDrained \/ FatalError \/ Ineligible \/ SkipRemembered \/ SkipRerun
           \/ Transact \/ Included \/ OverflowedAgain \/ OverflowedFirst \/ RejectedByEvm
           \/ UNCHANGED allVars
  BY <1>1, <1>4 DEF ReserveForAnchor, ExecuteAnchor, AnchorCommitted, AnchorFailed, PoolDrained,
     Cancelled, BudgetDrained, FatalError, Stop, Return, EnterLoop, Ineligible, SkipRemembered,
     SkipRerun, Transact, Included, OverflowedAgain, OverflowedFirst, Record, RejectedByEvm,
     allVars, selVars
<1>5. ASSUME NEW m \in Modes, NEW tx \in Txs \ {Anchor}, NEW d,
             ForeignRecord(m, tx, d) \/ ForeignForget(m, tx)
      PROVE  RatioInv'
  BY <1>1, <1>5 DEF ForeignRecord, ForeignForget
<1> QED
  BY <1>2, <1>3, <1>4, <1>5 DEF SelNext, SelectionStep

-----------------------------------------------------------------------------
(* The reference walk over the pool.                                        *)

Walk == [state : States, zk : Nat, gas : Nat, da : Nat, txs : Seq(Txs), blocked : SUBSET Senders]

(* Where the walk ends that goes on from acc over txs. *)
WalkEnd(r, acc, txs) == GreedyFrom(r, acc, txs)[Len(txs)]

Blocks(acc, tx) == [acc EXCEPT !.blocked = @ \cup {Sender[tx]}]

Takes(acc, tx) ==
  [state |-> Run[tx][acc.state].next, zk |-> acc.zk + TxZkGas(tx, acc.state),
   gas |-> acc.gas + Run[tx][acc.state].gas, da |-> acc.da + DaSize[tx],
   txs |-> Append(acc.txs, tx), blocked |-> acc.blocked]

(* What the reference has against a transaction, whatever the EVM says. *)
Unfit(r, acc, tx) ==
  \/ r.locals # {} /\ Sender[tx] \notin r.locals
  \/ Tip[tx] < r.minTip \/ tx \notin Allowed
  \/ acc.gas + GasLimit[tx] > SaturatingSub(BlockGasLimit, AnchorGasLimit)
  \/ acc.da + DaSize[tx] > MaxDa
  \/ acc.zk + Cost(tx, acc.state) > BlockLimit

Skipped(acc, tx) == acc.zk + TxIntrinsic > BlockLimit \/ Sender[tx] \in acc.blocked

LEMMA TakeCases ==
  ASSUME NEW r, NEW acc, NEW tx
  PROVE  GreedyTake(r, acc, tx) =
           IF Skipped(acc, tx) THEN acc
           ELSE IF Unfit(r, acc, tx) THEN Blocks(acc, tx)
           ELSE IF ~Run[tx][acc.state].valid THEN (IF tx \in NonceTooLow THEN acc ELSE Blocks(acc, tx))
           ELSE Takes(acc, tx)
BY DEF GreedyTake, Skipped, Unfit, Blocks, Takes

(* One step keeps the type, and blocks more senders or the same. *)
LEMMA TakeType ==
  ASSUME NEW r, NEW acc \in Walk, NEW tx \in Txs
  PROVE  /\ GreedyTake(r, acc, tx) \in Walk
         /\ acc.blocked \subseteq GreedyTake(r, acc, tx).blocked
<1>1. /\ acc.state \in States /\ acc.zk \in Nat /\ acc.gas \in Nat /\ acc.da \in Nat
      /\ acc.txs \in Seq(Txs) /\ acc.blocked \in SUBSET Senders
  BY SMT DEF Walk
<1>2. Run[tx][acc.state].next \in States /\ Run[tx][acc.state].gas \in Nat
  <2>1. Run[tx][acc.state] \in RunResult
    BY Zenon, <1>1, ExecutorAssumption
  <2> QED
    BY SMT, <2>1 DEF RunResult
<1>3. TxZkGas(tx, acc.state) \in Nat /\ DaSize[tx] \in Nat /\ Sender[tx] \in Senders
  BY SMT, <1>1, TxZkGasType, SelectionAssumption
<1>4. Blocks(acc, tx) \in Walk /\ acc.blocked \subseteq Blocks(acc, tx).blocked
  <2>1. acc.blocked \cup {Sender[tx]} \in SUBSET Senders
    BY <1>1, <1>3
  <2>2. ASSUME NEW B \in SUBSET Senders
        PROVE  [acc EXCEPT !.blocked = B] \in Walk /\ [acc EXCEPT !.blocked = B].blocked = B
    BY SMT, <1>1 DEF Walk
  <2>3. Blocks(acc, tx) = [acc EXCEPT !.blocked = acc.blocked \cup {Sender[tx]}]
    BY DEF Blocks
  <2> QED
    BY <2>1, <2>2, <2>3
<1>5. Takes(acc, tx) \in Walk /\ Takes(acc, tx).blocked = acc.blocked
  <2>1. acc.zk + TxZkGas(tx, acc.state) \in Nat
    BY SMT, <1>1, <1>3
  <2>2. acc.gas + Run[tx][acc.state].gas \in Nat
    BY SMT, <1>1, <1>2
  <2>3. acc.da + DaSize[tx] \in Nat /\ Append(acc.txs, tx) \in Seq(Txs)
    BY SMT, <1>1, <1>3
  <2> QED
    BY ZenonT(30), <1>1, <1>2, <2>1, <2>2, <2>3 DEF Walk, Takes
<1> QED
  BY <1>4, <1>5, TakeCases

(* The walk is a recursion over the pool. *)
IsWalk(g, r, acc, txs) ==
  /\ g \in [0 .. Len(txs) -> Walk]
  /\ g[0] = acc
  /\ \A n \in 1 .. Len(txs) : g[n] = GreedyTake(r, g[n - 1], txs[n])

LEMMA WalkSteps ==
  ASSUME NEW r, NEW acc \in Walk, NEW txs \in Seq(Txs)
  PROVE  IsWalk(GreedyFrom(r, acc, txs), r, acc, txs)
<1> DEFINE N == Len(txs)
           f == [n \in 1 .. N |-> [at \in Walk |-> GreedyTake(r, at, txs[n])]]
           Defines(g) == g = [n \in 0 .. N |-> IF n = 0 THEN acc ELSE GreedyTake(r, g[n - 1], txs[n])]
           w == GreedyFrom(r, acc, txs)
<1>1. N \in Nat /\ \A n \in 1 .. N : txs[n] \in Txs
  BY SMT
<1>2. f \in [1 .. N -> [Walk -> Walk]]
  <2>1. \A n \in 1 .. N : [at \in Walk |-> GreedyTake(r, at, txs[n])] \in [Walk -> Walk]
    <3> HIDE DEF N
    <3> QED
      BY <1>1, TakeType
  <2> HIDE DEF N
  <2> QED
    BY <2>1
<1>3. PICK g \in [0 .. N -> Walk] : Iterates(g, f, acc, N)
  <2> HIDE DEF f, N
  <2> QED
    BY <1>1, <1>2, RecursionHasSolution
<1>4. g[0] = acc /\ \A n \in 1 .. N : g[n] = GreedyTake(r, g[n - 1], txs[n])
  <2>1. ASSUME NEW n \in 1 .. N PROVE g[n - 1] \in Walk
    BY SMT, <1>1
  <2> QED
    BY <1>3, <2>1 DEF Iterates
<1>5. Defines(g)
  BY SMT, <1>4
<1>6. w = CHOOSE h : Defines(h)
  BY DEF GreedyFrom
<1>7. Defines(w)
  <2> HIDE DEF Defines, w
  <2> QED
    BY <1>5, <1>6
<1> HIDE DEF w
<1>8. w[0] = acc /\ \A n \in 1 .. N : w[n] = GreedyTake(r, w[n - 1], txs[n])
  BY SMT, <1>1, <1>7
<1>9. StepAlike(w, g, N)
  BY SMT, <1>4, <1>8 DEF StepAlike
<1>10. Alike(w, g, N)
  <2> HIDE DEF N
  <2> QED
    BY SMT, <1>1, <1>9, RecursionIsUnique
<1>11. w \in [0 .. N -> Walk]
  <2>1. DOMAIN w = 0 .. N
    BY SMT, <1>7
  <2>2. w = [n \in 0 .. N |-> w[n]]
    BY SMT, <1>7, <2>1
  <2> QED
    BY SMT, <1>10, <2>2 DEF Alike
<1> QED
  BY <1>8, <1>11 DEF w, IsWalk

LEMMA WalkEndType ==
  ASSUME NEW r, NEW acc \in Walk, NEW txs \in Seq(Txs)
  PROVE  WalkEnd(r, acc, txs) \in Walk
<1>1. Len(txs) \in 0 .. Len(txs)
  BY SMT
<1>2. GreedyFrom(r, acc, txs) \in [0 .. Len(txs) -> Walk]
  BY WalkSteps DEF IsWalk
<1> QED
  BY <1>1, <1>2 DEF WalkEnd

(* One transaction more. *)
LEMMA WalkAppend ==
  ASSUME NEW r, NEW acc \in Walk, NEW txs \in Seq(Txs), NEW tx \in Txs
  PROVE  WalkEnd(r, acc, Append(txs, tx)) = GreedyTake(r, WalkEnd(r, acc, txs), tx)
<1> DEFINE N == Len(txs)
           more == Append(txs, tx)
           g == GreedyFrom(r, acc, txs)
           h == GreedyFrom(r, acc, more)
<1>1. /\ N \in Nat /\ more \in Seq(Txs) /\ Len(more) = N + 1
      /\ more[N + 1] = tx /\ \A n \in 1 .. N : more[n] = txs[n]
  BY SMT
<1>2. g[0] = acc /\ \A n \in 1 .. N : g[n] = GreedyTake(r, g[n - 1], txs[n])
  <2>1. IsWalk(g, r, acc, txs)
    BY WalkSteps
  <2> HIDE DEF g
  <2> QED
    BY <2>1 DEF IsWalk
<1>3. h[0] = acc /\ \A n \in 1 .. Len(more) : h[n] = GreedyTake(r, h[n - 1], more[n])
  <2>1. IsWalk(h, r, acc, more)
    <3> HIDE DEF more
    <3> QED
      BY <1>1, WalkSteps
  <2> HIDE DEF h, more
  <2> QED
    BY <2>1 DEF IsWalk
<1> HIDE DEF g, h, more
<1>4. h[N + 1] = GreedyTake(r, h[N], tx) /\ \A n \in 1 .. N : h[n] = GreedyTake(r, h[n - 1], txs[n])
  <2>1. N + 1 \in 1 .. Len(more) /\ (N + 1) - 1 = N /\ \A n \in 1 .. N : n \in 1 .. Len(more)
    BY Zenon, <1>1, NextIndex
  <2> HIDE DEF N
  <2> QED
    BY <1>1, <1>3, <2>1
<1>5. StepAlike(h, g, N)
  BY SMT, <1>2, <1>3, <1>4 DEF StepAlike
<1>6. Alike(h, g, N)
  <2> HIDE DEF N
  <2> QED
    BY <1>1, <1>5, RecursionIsUnique
<1>7. h[N] = g[N]
  BY SMT, <1>1, <1>6 DEF Alike
<1> QED
  BY SMT, <1>1, <1>4, <1>7 DEF WalkEnd, g, h, more

(* The first transaction, then the others. *)
LEMMA WalkCons ==
  ASSUME NEW r, NEW acc \in Walk, NEW txs \in Seq(Txs), txs # <<>>
  PROVE  WalkEnd(r, acc, txs) = WalkEnd(r, GreedyTake(r, acc, Head(txs)), Tail(txs))
<1> DEFINE N == Len(Tail(txs))
           next == GreedyTake(r, acc, Head(txs))
           g == GreedyFrom(r, acc, txs)
           h == GreedyFrom(r, next, Tail(txs))
           shifted == [n \in 0 .. N |-> g[n + 1]]
<1>1. /\ Head(txs) \in Txs /\ Tail(txs) \in Seq(Txs) /\ N \in Nat /\ Len(txs) = N + 1
      /\ txs[1] = Head(txs) /\ \A n \in 1 .. N : Tail(txs)[n] = txs[n + 1]
  BY SMT
<1>2. next \in Walk
  BY <1>1, TakeType
<1>3. g[0] = acc /\ \A n \in 1 .. Len(txs) : g[n] = GreedyTake(r, g[n - 1], txs[n])
  <2>1. IsWalk(g, r, acc, txs)
    BY WalkSteps
  <2> HIDE DEF g
  <2> QED
    BY <2>1 DEF IsWalk
<1>4. h[0] = next /\ \A n \in 1 .. N : h[n] = GreedyTake(r, h[n - 1], Tail(txs)[n])
  <2>1. IsWalk(h, r, next, Tail(txs))
    <3> HIDE DEF next
    <3> QED
      BY <1>1, <1>2, WalkSteps
  <2> HIDE DEF h, next
  <2> QED
    BY <2>1 DEF IsWalk
<1> HIDE DEF g, h, N
<1>5. shifted[0] = next
  <2>1. g[1] = GreedyTake(r, g[0], Head(txs))
    BY SMT, <1>1, <1>3
  <2> QED
    BY SMT, <1>1, <1>3, <2>1
<1>6. ASSUME NEW n \in 1 .. N PROVE shifted[n] = GreedyTake(r, shifted[n - 1], Tail(txs)[n])
  <2>1. g[n + 1] = GreedyTake(r, g[n], txs[n + 1])
    BY SMT, <1>1, <1>3
  <2>2. shifted[n] = g[n + 1] /\ shifted[n - 1] = g[n]
    BY SMT, <1>1
  <2> HIDE DEF shifted
  <2> QED
    BY <1>1, <2>1, <2>2
<1>7. StepAlike(shifted, h, N)
  <2> HIDE DEF shifted, next
  <2> QED
    BY <1>4, <1>5, <1>6 DEF StepAlike
<1>8. Alike(shifted, h, N)
  <2> HIDE DEF shifted
  <2> QED
    BY <1>1, <1>7, RecursionIsUnique
<1>9. g[N + 1] = h[N]
  BY SMT, <1>1, <1>8 DEF Alike
<1> QED
  BY SMT, <1>1, <1>9 DEF WalkEnd, g, h, N

(* A walk whose budget has no room for another transaction is over. *)
LEMMA WalkDrained ==
  ASSUME NEW r, NEW acc \in Walk, NEW txs \in Seq(Txs), acc.zk + TxIntrinsic > BlockLimit
  PROVE  WalkEnd(r, acc, txs) = acc
<1> DEFINE N == Len(txs)
           g == GreedyFrom(r, acc, txs)
           H == {n \in 0 .. N : g[n] = acc}
<1>1. N \in Nat /\ 0 \in 0 .. N
  BY SMT
<1>2. g[0] = acc /\ \A n \in 1 .. N : g[n] = GreedyTake(r, g[n - 1], txs[n])
  <2>1. IsWalk(g, r, acc, txs)
    BY WalkSteps
  <2> HIDE DEF g
  <2> QED
    BY <2>1 DEF IsWalk
<1> HIDE DEF g, N
<1>3. 0 \in H
  BY <1>1, <1>2
<1>4. \A n \in 0 .. N - 1 : n \in H => n + 1 \in H
  <2> SUFFICES ASSUME NEW n \in 0 .. N - 1, n \in H PROVE n + 1 \in H
    BY SMT
  <2>1. n + 1 \in 1 .. N /\ n + 1 \in 0 .. N /\ (n + 1) - 1 = n
    BY SMT, <1>1
  <2>2. g[n + 1] = GreedyTake(r, acc, txs[n + 1])
    BY <1>2, <2>1
  <2>3. GreedyTake(r, acc, txs[n + 1]) = acc
    BY TakeCases DEF Skipped
  <2> QED
    BY <2>1, <2>2, <2>3
<1>5. \A n \in 0 .. N : n \in H
  <2> HIDE DEF H
  <2> QED
    BY <1>1, <1>3, <1>4, IntervalInduction
<1> QED
  BY SMT, <1>1, <1>5 DEF WalkEnd, g, N

(* The walk skips the transactions of a blocked sender: whether best_txs    *)
(* still yields them makes no difference.                                   *)
LEMMA WalkFiltered ==
  ASSUME NEW r, NEW acc \in Walk, NEW txs \in Seq(Txs), NEW sender \in acc.blocked
  PROVE  WalkEnd(r, acc, WithoutSender(sender, txs)) = WalkEnd(r, acc, txs)
<1> DEFINE N == Len(txs)
           g == GreedyFrom(r, acc, txs)
<1>1. N \in Nat /\ 0 \in 0 .. N /\ \A n \in 1 .. N : txs[n] \in Txs
  BY SMT
<1>2. /\ g \in [0 .. N -> Walk] /\ g[0] = acc
      /\ \A n \in 1 .. N : g[n] = GreedyTake(r, g[n - 1], txs[n])
  <2>1. IsWalk(g, r, acc, txs)
    BY WalkSteps
  <2> HIDE DEF g
  <2> QED
    BY <2>1 DEF IsWalk
<1>3. PICK k \in [0 .. N -> Seq(Txs)] : Filters(k, sender, txs) /\ WithoutSender(sender, txs) = k[N]
  BY WithoutSenderSteps
<1>4. k[0] = <<>> /\ \A n \in 1 .. N : k[n] = Kept(sender, k[n - 1], txs[n])
  BY <1>3 DEF Filters
<1> DEFINE H == {n \in 0 .. N : WalkEnd(r, acc, k[n]) = g[n] /\ sender \in g[n].blocked}
<1> HIDE DEF g, N
<1>5. 0 \in H
  <2>1. WalkEnd(r, acc, <<>>) = acc
    <3>1. <<>> \in Seq(Txs) /\ Len(<<>>) = 0
      BY SMT
    <3> QED
      BY <3>1, WalkSteps DEF WalkEnd, IsWalk
  <2> QED
    BY <1>1, <1>2, <1>4, <2>1
<1>6. \A n \in 0 .. N - 1 : n \in H => n + 1 \in H
  <2> SUFFICES ASSUME NEW n \in 0 .. N - 1, n \in H PROVE n + 1 \in H
    BY Zenon
  <2>1. n + 1 \in 1 .. N /\ n + 1 \in 0 .. N /\ (n + 1) - 1 = n /\ n \in 0 .. N
    BY SMT, <1>1
  <2>2. PICK tx \in Txs : tx = txs[n + 1]
    BY <1>1, <2>1
  <2>3. k[n] \in Seq(Txs) /\ g[n] \in Walk /\ WalkEnd(r, acc, k[n]) = g[n] /\ sender \in g[n].blocked
    BY <1>2, <2>1
  <2>4. g[n + 1] = GreedyTake(r, g[n], tx) /\ k[n + 1] = Kept(sender, k[n], tx)
    BY <1>2, <1>4, <2>1, <2>2
  <2>5. sender \in g[n + 1].blocked
    BY <2>3, <2>4, TakeType
  <2>6. CASE Sender[tx] = sender
    <3>1. GreedyTake(r, g[n], tx) = g[n]
      BY <2>3, <2>6, TakeCases DEF Skipped
    <3> QED
      BY <2>1, <2>3, <2>4, <2>5, <2>6, <3>1 DEF Kept
  <2>7. CASE Sender[tx] # sender
    <3>1. WalkEnd(r, acc, Append(k[n], tx)) = GreedyTake(r, g[n], tx)
      BY ZenonT(30), <2>3, WalkAppend
    <3> QED
      BY <2>1, <2>4, <2>5, <2>7, <3>1 DEF Kept
  <2> QED
    BY <2>6, <2>7
<1>7. \A n \in 0 .. N : n \in H
  <2> HIDE DEF H
  <2> QED
    BY <1>1, <1>5, <1>6, IntervalInduction
<1>8. N \in 0 .. N
  BY SMT, <1>1
<1> QED
  BY <1>3, <1>7, <1>8 DEF WalkEnd, g, N

(* What is left of the others, and none of the sender's. *)
LEMMA FilteredSenders ==
  ASSUME NEW sender, NEW txs \in Seq(Txs), NEW B,
         \A i \in 1 .. Len(txs) : Sender[txs[i]] \notin B
  PROVE  \A i \in 1 .. Len(WithoutSender(sender, txs)) :
           Sender[WithoutSender(sender, txs)[i]] \notin B \cup {sender}
<1> DEFINE N == Len(txs)
           Clean(s) == \A i \in 1 .. Len(s) : Sender[s[i]] \notin B \cup {sender}
<1>1. N \in Nat /\ 0 \in 0 .. N /\ N \in 0 .. N
  BY SMT
<1>3. PICK k \in [0 .. N -> Seq(Txs)] : Filters(k, sender, txs) /\ WithoutSender(sender, txs) = k[N]
  BY WithoutSenderSteps
<1>4. k[0] = <<>> /\ \A n \in 1 .. N : k[n] = Kept(sender, k[n - 1], txs[n])
  BY <1>3 DEF Filters
<1>5. ASSUME NEW s \in Seq(Txs), NEW tx, Clean(s), Sender[tx] \notin B \cup {sender} PROVE Clean(Append(s, tx))
  BY SMT, <1>5
<1>6. Clean(<<>>)
  BY SMT
<1> DEFINE H == {n \in 0 .. N : Clean(k[n])}
<1> HIDE DEF N, Clean
<1>7. 0 \in H
  BY <1>1, <1>4, <1>6
<1>8. \A n \in 0 .. N - 1 : n \in H => n + 1 \in H
  <2> SUFFICES ASSUME NEW n \in 0 .. N - 1, n \in H PROVE n + 1 \in H
    BY SMT
  <2>1. n + 1 \in 1 .. N /\ n + 1 \in 0 .. N /\ (n + 1) - 1 = n /\ n \in 0 .. N
    BY SMT, <1>1
  <2>2. k[n] \in Seq(Txs) /\ k[n + 1] = Kept(sender, k[n], txs[n + 1]) /\ Clean(k[n])
    BY <1>4, <2>1
  <2>3. Sender[txs[n + 1]] \notin B
    BY <2>1 DEF N
  <2> QED
    BY <1>5, <2>1, <2>2, <2>3 DEF Kept
<1>9. \A n \in 0 .. N : n \in H
  <2> HIDE DEF H
  <2> QED
    BY <1>1, <1>7, <1>8, IntervalInduction
<1> QED
  BY <1>1, <1>3, <1>9 DEF Clean

-----------------------------------------------------------------------------
(* Selection and the reference walk.                                        *)

(* A payload whose call met no cap and no telling measurement. *)
Plain == request.mode = "payload" /\ ~capped /\ ratios = <<DefaultRatio>>

(* Where the reference stands when selection has got to here, B being the   *)
(* senders it no longer considers.                                          *)
Reached(B) ==
  [state |-> state, zk |-> meter.block, gas |-> lists[1].gas, da |-> lists[1].da,
   txs |-> lists[1].txs, blocked |-> B]

(* Going on from here over what is left of the pool, the reference arrives  *)
(* where it does over the whole pool.                                       *)
Finishes(B) ==
  /\ \A i \in 1 .. Len(todo) : Sender[todo[i]] \notin B
  /\ WalkEnd(request, Reached(B), todo).txs = GreedyPacking(request)

WalkInv == Plain /\ InCall => \E B \in SUBSET Senders : Finishes(B)

(* The candidate being executed passed the checks, and the EVM's verdict on *)
(* it is the one on this state.                                             *)
CandidateInv ==
  step = "call" =>
    /\ CanFitAnother /\ Eligible(Candidate)
    /\ phase = "ready" /\ result = "invalid_tx" => ~Run[Candidate][state].valid
    /\ phase = "executed" => Run[Candidate][state].valid

AnswerInv == step # "idle" => answer = "none"

LEMMA NextCandidate == Standing /\ CandidateInv /\ [SelNext]_allVars => CandidateInv'
<1> SUFFICES ASSUME Standing, CandidateInv, [SelNext]_allVars PROVE CandidateInv'
  BY SMT
<1> USE DEF Standing
<1>1. ASSUME step' # "call" PROVE CandidateInv'
  BY <1>1 DEF CandidateInv
<1>2. ASSUME UNCHANGED <<request, todo, state>>, meter'.block = meter.block
      PROVE  /\ CanFitAnother' = CanFitAnother /\ Candidate' = Candidate
             /\ Eligible(Candidate)' = Eligible(Candidate)
             /\ Run[Candidate][state]' = Run[Candidate][state]
  BY <1>2 DEF CanFitAnother, Candidate, Eligible, GasPerList
<1>3. ASSUME UNCHANGED <<request, todo, step, vars>> PROVE CandidateInv'
  <2>1. UNCHANGED <<request, todo, state>> /\ meter'.block = meter.block /\ UNCHANGED <<step, phase, result>>
    BY <1>3 DEF vars
  <2> QED
    BY <1>2, <2>1 DEF CandidateInv
<1>4. CASE Execute
  <2>1. /\ CanFitAnother /\ Eligible(Candidate) /\ UNCHANGED <<request, todo>>
        /\ step = "loop"
        /\ RefuseExhausted \/ RefuseGasLimit(Candidate) \/ StartTransact(Candidate)
    BY <1>4 DEF Execute, Runnable, InLoop
  <2>2. ~RefuseExhausted
    BY <2>1 DEF CallInv, RefuseExhausted
  <2>3. /\ UNCHANGED state /\ meter'.block = meter.block /\ phase' \in {"ready", "running"}
        /\ phase' = "ready" => result' \in {"gas_limit", "zk_limit"}
    BY <2>1, <2>2, StartShape
  <2>4. ~(phase' = "ready" /\ result' = "invalid_tx") /\ phase' # "executed"
    BY SMT, <2>3
  <2> QED
    BY <1>2, <2>1, <2>3, <2>4 DEF CandidateInv
<1>5. CASE Transact
  <2>1. UNCHANGED <<request, todo, step>>
    BY <1>5 DEF Transact, selVars
  <2>2. TransactStep
    BY <1>5, TransactShape DEF Transact
  <2>3. UNCHANGED state /\ meter'.block = meter.block /\ phase = "running"
    BY <2>2 DEF TransactStep
  <2> SUFFICES ASSUME step = "call" PROVE CandidateInv'
    BY <2>1 DEF CandidateInv
  <2>4. cur = Candidate
    BY <2>3 DEF CallInv
  <2>5. phase' = "ready" /\ result' = "invalid_tx" => ~Run[Candidate][state].valid
    <3>1. CASE TransactInvalid
      BY <2>4, <3>1 DEF TransactInvalid, CurRun
    <3>2. CASE TransactFatal
      BY Zenon, <3>2 DEF TransactFatal, ReturnTo
    <3>3. CASE TransactCharge \/ TransactDone
      BY SMT, <2>3, <3>3 DEF TransactCharge, TransactDone, Overflow, ReturnTo
    <3> QED
      BY <1>5, <3>1, <3>2, <3>3 DEF Transact
  <2>6. phase' = "executed" => Run[Candidate][state].valid
    <3>1. CASE TransactInvalid \/ TransactFatal
      BY SMT, <3>1 DEF TransactInvalid, TransactFatal, ReturnTo
    <3>2. CASE TransactCharge \/ TransactDone
      BY <2>4, <3>2 DEF TransactCharge, TransactDone, CurRun
    <3> QED
      BY <1>5, <3>1, <3>2 DEF Transact
  <2> QED
    BY <1>2, <2>1, <2>3, <2>5, <2>6 DEF CandidateInv
<1>6. CASE \/ \E r \in Requests : Begin(r)
           \/ ReserveForAnchor \/ ExecuteAnchor \/ AnchorCommitted \/ AnchorFailed \/ PoolDrained
           \/ Cancelled \/ BudgetDrained \/ FatalError
           \/ Included \/ OverflowedAgain \/ OverflowedFirst \/ RejectedByEvm
  BY <1>1, <1>6 DEF Begin, ReserveForAnchor, ExecuteAnchor, AnchorCommitted, AnchorFailed,
     PoolDrained, Cancelled, BudgetDrained, FatalError, Stop, Return, EnterLoop, Included,
     OverflowedAgain, OverflowedFirst, RejectedByEvm
<1>7. CASE Ineligible \/ SkipRemembered \/ SkipRerun \/ NoRoom
  BY <1>1, <1>7 DEF Ineligible, SkipRemembered, SkipRerun, NoRoom, Runnable, InLoop, Drop
<1>8. ASSUME NEW m \in Modes, NEW tx \in Txs \ {Anchor}, NEW d,
             ForeignRecord(m, tx, d) \/ ForeignForget(m, tx)
      PROVE  CandidateInv'
  BY <1>3, <1>8 DEF ForeignRecord, ForeignForget
<1>9. CASE UNCHANGED allVars
  BY <1>3, <1>9 DEF allVars, selVars
<1> QED
  BY <1>4, <1>5, <1>6, <1>7, <1>8, <1>9 DEF SelNext, SelectionStep

LEMMA NextAnswer == AnswerInv /\ [SelNext]_allVars => AnswerInv'
<1> SUFFICES ASSUME AnswerInv, [SelNext]_allVars PROVE AnswerInv'
  BY SMT
<1>1. ASSUME step' = "idle" PROVE AnswerInv'
  BY <1>1 DEF AnswerInv
<1>2. ASSUME step # "idle", UNCHANGED answer PROVE AnswerInv'
  BY <1>2 DEF AnswerInv
<1>3. CASE \E r \in Requests : Begin(r)
  BY <1>3 DEF Begin, AnswerInv
<1>4. CASE ReserveForAnchor \/ ExecuteAnchor \/ AnchorCommitted \/ AnchorFailed
  BY SMT, <1>1, <1>2, <1>4 DEF ReserveForAnchor, ExecuteAnchor, AnchorCommitted, AnchorFailed,
     Return, EnterLoop
<1>5. CASE PoolDrained \/ Cancelled \/ BudgetDrained \/ FatalError
  BY <1>1, <1>5 DEF PoolDrained, Cancelled, BudgetDrained, FatalError, Stop, Return
<1>6. CASE Ineligible \/ SkipRemembered \/ SkipRerun \/ NoRoom \/ Execute
  <2>1. step = "loop" /\ UNCHANGED answer
    BY <1>6 DEF Ineligible, SkipRemembered, SkipRerun, NoRoom, Execute, Runnable, InLoop, Drop
  <2> QED
    BY SMT, <1>2, <2>1
<1>7. CASE Included \/ OverflowedAgain \/ RejectedByEvm
  <2>1. step = "call" /\ UNCHANGED answer
    BY <1>7 DEF Included, OverflowedAgain, Overran, RejectedByEvm
  <2> QED
    BY SMT, <1>2, <2>1
<1>8. CASE OverflowedFirst
  <2>1. step = "call" /\ (step' = "idle" \/ UNCHANGED answer)
    BY <1>8 DEF OverflowedFirst, Overran
  <2> QED
    BY SMT, <1>1, <1>2, <2>1
<1>9. CASE Transact \/ UNCHANGED allVars
  BY <1>9 DEF Transact, allVars, selVars, AnswerInv
<1>10. ASSUME NEW m \in Modes, NEW tx \in Txs \ {Anchor}, NEW d,
              ForeignRecord(m, tx, d) \/ ForeignForget(m, tx)
       PROVE  AnswerInv'
  BY <1>10 DEF ForeignRecord, ForeignForget, AnswerInv
<1> QED
  BY <1>3, <1>4, <1>5, <1>6, <1>7, <1>8, <1>9, <1>10 DEF SelNext, SelectionStep

(* A payload has one list, within its limits. *)
LEMMA OneList ==
  ASSUME Standing, BlockInv, InCall, request.mode = "payload"
  PROVE  /\ Len(lists) = 1 /\ Last(lists) = lists[1] /\ lists[1] \in TxList
         /\ GasPerList = SaturatingSub(BlockGasLimit, AnchorGasLimit) /\ GasPerList \in Nat
<1>1. Len(lists) <= MaxLists
  BY DEF BlockInv, ListsAreTheBlock, InCall
<1>2. MaxLists = 1 /\ GasPerList = SaturatingSub(BlockGasLimit, AnchorGasLimit)
  BY SMT DEF MaxLists, GasPerList
<1>3. Len(lists) \in Nat \ {0} /\ Last(lists) \in TxList /\ GasPerList \in Nat
  BY ListShape, GasPerListType DEF Standing
<1>4. Len(lists) = 1
  <2>1. Len(lists) <= 1 /\ Len(lists) \in Nat \ {0}
    BY <1>1, <1>2, <1>3
  <2>2. \A n \in Nat \ {0} : n <= 1 => n = 1
    BY SMT, Z3
  <2> QED
    BY <2>1, <2>2
<1> QED
  BY <1>2, <1>3, <1>4 DEF Last

LEMMA ReachedType ==
  ASSUME Standing, lists[1] \in TxList, NEW B \in SUBSET Senders
  PROVE  Reached(B) \in Walk
<1>1. lists[1].txs \in Seq(Txs) /\ lists[1].gas \in Nat /\ lists[1].da \in Nat
  BY SMT DEF TxList
<1>2. state \in States /\ meter.block \in Nat
  BY SMT, Z3, MeterAssumption DEF Standing, IInv, TypeOK, Meter, U64
<1> QED
  BY <1>1, <1>2 DEF Reached, Walk

(* can_fit_another is the reference's own test of the budget. *)
LEMMA FitsAnother ==
  ASSUME Standing
  PROVE  CanFitAnother <=> ~(meter.block + TxIntrinsic > BlockLimit)
<1>1. meter.block \in Nat /\ meter.block <= BlockLimit /\ BlockLimit \in Nat /\ TxIntrinsic \in Nat
  BY SMT, Z3, MeterAssumption DEF Standing, IInv, TypeOK, BudgetExact, Meter, U64
<1> QED
  BY SMT, Z3, <1>1 DEF CanFitAnother, SaturatingSub

(* The reference meets the candidate next, and does not skip it. *)
LEMMA MeetsCandidate ==
  ASSUME Standing, lists[1] \in TxList, todo # <<>>, NEW B \in SUBSET Senders, Finishes(B), CanFitAnother
  PROVE  /\ Candidate \in Txs /\ Tail(todo) \in Seq(Txs) /\ Sender[Candidate] \in Senders
         /\ ~Skipped(Reached(B), Candidate)
         /\ \A i \in 1 .. Len(Tail(todo)) : Sender[Tail(todo)[i]] \notin B
         /\ WalkEnd(request, GreedyTake(request, Reached(B), Candidate), Tail(todo)).txs = GreedyPacking(request)
<1>1. Candidate \in Txs /\ Tail(todo) \in Seq(Txs) /\ todo \in Seq(Txs)
  BY CandidateType DEF Standing, TypeInv
<1>2. Sender[Candidate] \in Senders
  BY SMT, <1>1, SelectionAssumption
<1>3. /\ Candidate = todo[1] /\ 1 \in 1 .. Len(todo)
      /\ \A i \in 1 .. Len(Tail(todo)) : Tail(todo)[i] = todo[i + 1] /\ i + 1 \in 1 .. Len(todo)
  BY SMT, Z3, <1>1 DEF Candidate
<1>4. Sender[Candidate] \notin B /\ \A i \in 1 .. Len(Tail(todo)) : Sender[Tail(todo)[i]] \notin B
  BY <1>3 DEF Finishes
<1>5. Reached(B).zk = meter.block /\ Reached(B).blocked = B
  BY DEF Reached
<1>6. ~Skipped(Reached(B), Candidate)
  BY <1>4, <1>5, FitsAnother DEF Skipped
<1>7. WalkEnd(request, Reached(B), todo) = WalkEnd(request, GreedyTake(request, Reached(B), Candidate), Tail(todo))
  BY <1>1, ReachedType, WalkCons DEF Candidate
<1> QED
  BY <1>1, <1>2, <1>4, <1>6, <1>7 DEF Finishes

(* Both drop the candidate and its sender. *)
LEMMA DropsCandidate ==
  ASSUME Standing, lists[1] \in TxList, todo # <<>>, NEW B \in SUBSET Senders, Finishes(B), CanFitAnother,
         \/ Unfit(request, Reached(B), Candidate)
         \/ ~Run[Candidate][state].valid /\ Candidate \notin NonceTooLow,
         todo' = MarkInvalid(Candidate), UNCHANGED <<state, lists, request>>, meter'.block = meter.block
  PROVE  \E C \in SUBSET Senders : Finishes(C)'
<1>1. /\ Candidate \in Txs /\ Tail(todo) \in Seq(Txs) /\ Sender[Candidate] \in Senders
      /\ ~Skipped(Reached(B), Candidate)
      /\ \A i \in 1 .. Len(Tail(todo)) : Sender[Tail(todo)[i]] \notin B
      /\ WalkEnd(request, GreedyTake(request, Reached(B), Candidate), Tail(todo)).txs = GreedyPacking(request)
  BY MeetsCandidate
<1>2. PICK s \in Senders : s = Sender[Candidate]
  BY <1>1
<1>3. PICK C \in SUBSET Senders : C = B \cup {s}
  BY <1>2
<1>4. Reached(B).state = state /\ Reached(B).blocked = B
  BY DEF Reached
<1>5. GreedyTake(request, Reached(B), Candidate) = Blocks(Reached(B), Candidate)
  BY <1>1, <1>4, TakeCases
<1>6. Blocks(Reached(B), Candidate) = Reached(C)
  <2>1. Blocks(Reached(B), Candidate) = [Reached(B) EXCEPT !.blocked = C]
    BY <1>2, <1>3, <1>4 DEF Blocks
  <2>2. [Reached(B) EXCEPT !.blocked = C] = Reached(C)
    BY SMT, Z3 DEF Reached
  <2> QED
    BY <2>1, <2>2
<1>7. Reached(C) \in Walk /\ s \in Reached(C).blocked
  <2>1. Reached(C).blocked = C
    BY DEF Reached
  <2> QED
    BY <1>3, <2>1, ReachedType
<1>8. WalkEnd(request, Reached(C), WithoutSender(s, Tail(todo))).txs = GreedyPacking(request)
  BY ZenonT(30), <1>1, <1>5, <1>6, <1>7, WalkFiltered
<1>9. \A i \in 1 .. Len(WithoutSender(s, Tail(todo))) : Sender[WithoutSender(s, Tail(todo))[i]] \notin C
  BY <1>1, <1>3, FilteredSenders
<1>10. todo' = WithoutSender(s, Tail(todo)) /\ Reached(C)' = Reached(C)
  BY <1>2 DEF MarkInvalid, Reached
<1>11. Finishes(C)'
  BY <1>8, <1>9, <1>10 DEF Finishes
<1> QED
  BY <1>11

(* Both pass over an outdated candidate. *)
LEMMA SkipsOutdated ==
  ASSUME Standing, lists[1] \in TxList, todo # <<>>, NEW B \in SUBSET Senders, Finishes(B), CanFitAnother,
         ~Unfit(request, Reached(B), Candidate), ~Run[Candidate][state].valid, Candidate \in NonceTooLow,
         todo' = Tail(todo), UNCHANGED <<state, lists, request>>, meter'.block = meter.block
  PROVE  Finishes(B)'
<1>1. /\ ~Skipped(Reached(B), Candidate)
      /\ \A i \in 1 .. Len(Tail(todo)) : Sender[Tail(todo)[i]] \notin B
      /\ WalkEnd(request, GreedyTake(request, Reached(B), Candidate), Tail(todo)).txs = GreedyPacking(request)
  BY MeetsCandidate
<1>2. Reached(B).state = state /\ Reached(B)' = Reached(B)
  BY DEF Reached
<1>3. GreedyTake(request, Reached(B), Candidate) = Reached(B)
  BY <1>1, <1>2, TakeCases
<1> QED
  BY <1>1, <1>2, <1>3 DEF Finishes

(* Both take the candidate. *)
LEMMA TakesCandidate ==
  ASSUME Standing, lists[1] \in TxList, todo # <<>>, NEW B \in SUBSET Senders, Finishes(B), CanFitAnother,
         ~Unfit(request, Reached(B), Candidate), Run[Candidate][state].valid,
         todo' = Tail(todo), UNCHANGED request, state' = Run[Candidate][state].next,
         meter'.block = meter.block + TxZkGas(Candidate, state),
         lists'[1].txs = Append(lists[1].txs, Candidate),
         lists'[1].gas = lists[1].gas + Run[Candidate][state].gas,
         lists'[1].da = lists[1].da + DaSize[Candidate]
  PROVE  Finishes(B)'
<1>1. /\ ~Skipped(Reached(B), Candidate)
      /\ \A i \in 1 .. Len(Tail(todo)) : Sender[Tail(todo)[i]] \notin B
      /\ WalkEnd(request, GreedyTake(request, Reached(B), Candidate), Tail(todo)).txs = GreedyPacking(request)
  BY MeetsCandidate
<1>2. /\ Reached(B).state = state /\ Reached(B).zk = meter.block /\ Reached(B).gas = lists[1].gas
      /\ Reached(B).da = lists[1].da /\ Reached(B).txs = lists[1].txs /\ Reached(B).blocked = B
  BY DEF Reached
<1>3. GreedyTake(request, Reached(B), Candidate) = Takes(Reached(B), Candidate)
  BY <1>1, <1>2, TakeCases
<1>4. Takes(Reached(B), Candidate) = Reached(B)'
  BY <1>2 DEF Takes, Reached
<1> QED
  BY <1>1, <1>3, <1>4 DEF Finishes

(* A plain call was plain before, and its candidate exceeds only limits the *)
(* reference knows.                                                         *)
LEMMA StaysPlain ==
  ASSUME Standing, RatioInv, [SelNext]_allVars, InCall, InCall', Plain'
  PROVE  Plain /\ UNCHANGED request
<1> USE DEF InCall
<1>0. ASSUME UNCHANGED <<request, capped, ratios>> PROVE Plain /\ UNCHANGED request
  BY SMT, <1>0 DEF Plain
<1>1. CASE \E r \in Requests : Begin(r)
  BY <1>1 DEF Begin
<1>2. CASE \/ ReserveForAnchor \/ ExecuteAnchor \/ AnchorCommitted \/ AnchorFailed
  BY SMT, <1>2 DEF ReserveForAnchor, ExecuteAnchor, AnchorCommitted, AnchorFailed
<1>3. CASE PoolDrained \/ Cancelled \/ BudgetDrained \/ FatalError
  BY SMT, <1>3 DEF PoolDrained, Cancelled, BudgetDrained, FatalError, Stop, Return
<1>4. CASE NoRoom \/ Execute
  <2>1. /\ todo # <<>> /\ ratios' \in {Measured, Append(Measured, InFresh.ratio)}
        /\ UNCHANGED <<request, capped>>
    BY <1>4 DEF NoRoom, Execute, Runnable, InLoop, Drop
  <2> QED
    BY <2>1, MeasuredRatios DEF Plain, Standing
<1>5. CASE SkipRerun
  BY <1>5 DEF SkipRerun, Plain
<1>6. CASE Ineligible \/ SkipRemembered \/ Transact \/ Included \/ RejectedByEvm \/ UNCHANGED allVars
  BY <1>0, <1>6 DEF Ineligible, SkipRemembered, Drop, Transact, Included, RejectedByEvm, allVars,
     selVars
<1>7. CASE OverflowedAgain \/ OverflowedFirst
  <2>1. UNCHANGED <<ratios, request>> /\ (UNCHANGED capped \/ capped')
    BY <1>7 DEF OverflowedAgain, OverflowedFirst, Record
  <2> QED
    BY <1>0, <2>1 DEF Plain
<1>8. ASSUME NEW m \in Modes, NEW tx \in Txs \ {Anchor}, NEW d,
             ForeignRecord(m, tx, d) \/ ForeignForget(m, tx)
      PROVE  Plain /\ UNCHANGED request
  BY <1>0, <1>8 DEF ForeignRecord, ForeignForget
<1> QED
  BY <1>1, <1>2, <1>3, <1>4, <1>5, <1>6, <1>7, <1>8 DEF SelNext, SelectionStep

(* The anchor is committed: both stand at the start of the pool. *)
LEMMA StartsWalk ==
  ASSUME Standing, Standing', AnchorCommitted
  PROVE  Finishes({})'
<1>1. /\ step = "anchor" /\ phase = "executed" /\ Commit /\ step' = "loop"
      /\ todo' = request.pool /\ UNCHANGED <<lists, request>>
  BY DEF AnchorCommitted, EnterLoop
<1>2. receipts = <<>> /\ lists = <<EmptyList>> /\ cur = Anchor /\ reserved = 0
  BY <1>1 DEF Standing, CallInv
<1>3. receipts' = Append(<<>>, Anchor) /\ reserved' = 0
  BY <1>1, <1>2, CommitShape DEF Standing
<1>4. PICK s \in States : s = Start /\ s = Start'
  BY <1>1, RequestFacts DEF Standing, TypeInv, Start
<1>5. WorkFrom(s)'
  BY <1>1, <1>4 DEF Standing, CallInv, WorkFrom, CommittedFrom
<1>6. ReplayFrom(s, <<>>) = [state |-> s, zkGas |-> 0]
  <2>1. <<>> \in Seq(Txs) /\ Len(<<>>) = 0
    BY SMT, Z3
  <2> QED
    BY <2>1, ReplaySteps DEF ReplayFrom
<1>7. ReplayFrom(s, receipts') = Replayed([state |-> s, zkGas |-> 0], Anchor)
  <2>1. <<>> \in Seq(Txs) /\ Anchor \in Txs
    BY SMT, Z3, SelectionAssumption
  <2> QED
    BY <1>3, <1>6, <2>1, ReplayAppend
<1>8. state' = Run[Anchor][s].next /\ meter'.block = TxZkGas(Anchor, s)
  <2>1. /\ Replayed([state |-> s, zkGas |-> 0], Anchor).state = Run[Anchor][s].next
        /\ Replayed([state |-> s, zkGas |-> 0], Anchor).zkGas = 0 + TxZkGas(Anchor, s)
    BY DEF Replayed
  <2>2. TxZkGas(Anchor, s) \in Nat
    BY TxZkGasType, SelectionAssumption
  <2>3. /\ meter'.block = reserved' + ReplayFrom(s, receipts').zkGas
        /\ state' = ReplayFrom(s, receipts').state
    BY <1>5 DEF WorkFrom, CommittedFrom
  <2>4. 0 + (0 + TxZkGas(Anchor, s)) = TxZkGas(Anchor, s)
    BY SMT, Z3, <2>2
  <2> QED
    BY <1>3, <1>7, <2>1, <2>3, <2>4
<1>9. lists'[1].txs = <<>> /\ lists'[1].gas = 0 /\ lists'[1].da = 0
  <2>1. lists'[1] = EmptyList
    BY SMT, <1>1, <1>2
  <2>2. EmptyList.txs = <<>> /\ EmptyList.gas = 0 /\ EmptyList.da = 0
    BY DEF EmptyList
  <2> QED
    BY <2>1, <2>2
<1>10. Reached({})' = GreedyStart(request)
  BY <1>4, <1>8, <1>9 DEF Reached, GreedyStart, Start
<1> QED
  BY <1>1, <1>10 DEF Finishes, WalkEnd, GreedyPacking

(* A candidate the executor let through is nothing the reference refuses,   *)
(* unless it overflows.                                                     *)
LEMMA AdmittedIsFit ==
  ASSUME Standing, BlockInv, AdmittedInv, CandidateInv, step = "call", request.mode = "payload", NEW B
  PROVE  Unfit(request, Reached(B), Candidate) <=> Overflowing(Candidate)
<1>1. /\ GasPerList = SaturatingSub(BlockGasLimit, AnchorGasLimit) /\ Last(lists) = lists[1]
      /\ GasPerList \in Nat /\ lists[1] \in TxList
  BY OneList DEF InCall
<1>2. Candidate \in Txs
  BY CandidateType DEF Standing, CallInv
<1>3. /\ lists[1].gas + GasLimit[Candidate] <= GasPerList /\ lists[1].da + DaSize[Candidate] <= MaxDa
      /\ Eligible(Candidate)
  BY <1>1 DEF AdmittedInv, CandidateInv
<1>4. /\ lists[1].gas \in Nat /\ lists[1].da \in Nat /\ GasLimit[Candidate] \in Nat
      /\ DaSize[Candidate] \in Nat /\ MaxDa \in Nat
  BY <1>1, <1>2, SizeTypes
<1>5. ~(lists[1].gas + GasLimit[Candidate] > GasPerList) /\ ~(lists[1].da + DaSize[Candidate] > MaxDa)
  BY <1>1, <1>2, <1>3, SizesFit
<1>6. ~(Tip[Candidate] < request.minTip)
  <2>1. Tip[Candidate] \in Nat /\ request.minTip \in Nat
    BY SMT, <1>2, SelectionAssumption DEF Standing, TypeInv
  <2>2. Tip[Candidate] >= request.minTip
    BY <1>3 DEF Eligible
  <2> QED
    BY SMT, Z3, <2>1, <2>2
<1>7. ~(request.locals # {} /\ Sender[Candidate] \notin request.locals) /\ ~(Candidate \notin Allowed)
  BY <1>3 DEF Eligible
<1>8. /\ Reached(B).state = state /\ Reached(B).zk = meter.block /\ Reached(B).gas = lists[1].gas
      /\ Reached(B).da = lists[1].da
  BY DEF Reached
<1> QED
  BY <1>1, <1>5, <1>6, <1>7, <1>8 DEF Unfit, Overflowing

(* A candidate that is not eligible is nothing for the reference either. *)
LEMMA IneligibleIsUnfit ==
  ASSUME Standing, BlockInv, InCall, request.mode = "payload", todo # <<>>, ~Eligible(Candidate), NEW B
  PROVE  Unfit(request, Reached(B), Candidate)
<1>1. /\ GasPerList = SaturatingSub(BlockGasLimit, AnchorGasLimit)
      /\ GasPerList \in Nat /\ lists[1] \in TxList
  BY OneList
<1>2. Candidate \in Txs
  BY CandidateType DEF Standing
<1>3. /\ lists[1].gas \in Nat /\ lists[1].da \in Nat /\ GasLimit[Candidate] \in Nat
      /\ DaSize[Candidate] \in Nat /\ MaxDa \in Nat
  BY <1>1, <1>2, SizeTypes
<1>4. /\ ~(GasLimit[Candidate] <= GasPerList) => lists[1].gas + GasLimit[Candidate] > GasPerList
      /\ ~(DaSize[Candidate] <= MaxDa) => lists[1].da + DaSize[Candidate] > MaxDa
  BY SMT, Z3, <1>1, <1>3
<1>5. ~(Tip[Candidate] >= request.minTip) => Tip[Candidate] < request.minTip
  <2>1. Tip[Candidate] \in Nat /\ request.minTip \in Nat
    BY SMT, <1>2, SelectionAssumption DEF Standing, TypeInv
  <2> QED
    BY SMT, Z3, <2>1
<1>6. Reached(B).gas = lists[1].gas /\ Reached(B).da = lists[1].da
  BY DEF Reached
<1> QED
  BY <1>1, <1>4, <1>5, <1>6 DEF Unfit, Eligible

LEMMA OverflowIsUnfit ==
  ASSUME NEW B, Overflowing(Candidate)
  PROVE  Unfit(request, Reached(B), Candidate)
<1>1. Reached(B).state = state /\ Reached(B).zk = meter.block
  BY DEF Reached
<1> QED
  BY <1>1 DEF Unfit, Overflowing

(* What the memory says of this very state is true of it. *)
LEMMA RememberedOverflows ==
  ASSUME Standing, MemorySound, InCall, todo # <<>>, overflows[request.mode][Candidate] = digest
  PROVE  Overflowing(Candidate)
<1>1. Candidate \in Txs /\ request.mode \in Modes
  BY CandidateType, RequestFacts DEF Standing, TypeInv
<1>2. digest # NoDigest
  <2>1. digest = <<request.seed>> \o receipts /\ receipts \in Seq(Txs)
    BY DEF Standing, CallInv, IInv, TypeOK
  <2>2. \A d : \A txs \in Seq(Txs) : <<d>> \o txs # <<>>
    BY SMT, Z3
  <2> QED
    BY <2>1, <2>2 DEF NoDigest
<1>3. OverflowsAt(request.mode, Candidate, digest)
  BY <1>1, <1>2 DEF MemorySound
<1> QED
  BY <1>1, <1>3, DigestStandsForState DEF Standing

(* What a commit does to the state and the meter. *)
LEMMA CommitsCandidate ==
  ASSUME Standing, Standing', step = "call", step' = "loop", UNCHANGED request, Commit, cur = Candidate
  PROVE  state' = Run[Candidate][state].next /\ meter'.block = meter.block + TxZkGas(Candidate, state)
<1>1. PICK s \in States : s = Start /\ s = Start'
  BY ZenonT(30), RequestFacts DEF Standing, TypeInv, Start
<1>2. CommittedFrom(s) /\ CommittedFrom(s)'
  BY SMT, <1>1 DEF Standing, CallInv, WorkFrom, CommittedFrom
<1>3. receipts' = Append(receipts, Candidate) /\ Candidate \in Txs /\ receipts \in Seq(Txs) /\ UNCHANGED reserved
  BY CommitShape DEF Standing
<1>4. /\ ReplayFrom(s, receipts) \in ReplayState
      /\ ReplayFrom(s, receipts') = Replayed(ReplayFrom(s, receipts), Candidate)
  BY <1>3, ReplayAppend
<1>5. /\ meter.block = reserved + ReplayFrom(s, receipts).zkGas /\ state = ReplayFrom(s, receipts).state
      /\ meter'.block = reserved + ReplayFrom(s, receipts').zkGas /\ state' = ReplayFrom(s, receipts').state
  BY <1>2, <1>3 DEF CommittedFrom
<1>6. /\ ReplayFrom(s, receipts').state = Run[Candidate][state].next
      /\ ReplayFrom(s, receipts').zkGas = ReplayFrom(s, receipts).zkGas + TxZkGas(Candidate, state)
  <2>1. /\ Replayed(ReplayFrom(s, receipts), Candidate).state = Run[Candidate][ReplayFrom(s, receipts).state].next
        /\ Replayed(ReplayFrom(s, receipts), Candidate).zkGas =
             ReplayFrom(s, receipts).zkGas + TxZkGas(Candidate, ReplayFrom(s, receipts).state)
    BY DEF Replayed
  <2> QED
    BY <1>4, <1>5, <2>1
<1>7. ReplayFrom(s, receipts).zkGas \in Nat /\ reserved \in Nat /\ TxZkGas(Candidate, state) \in Nat
  BY Zenon, <1>3, <1>4, TxZkGasType DEF ReplayState, Standing, IInv, TypeOK
<1>8. reserved + (ReplayFrom(s, receipts).zkGas + TxZkGas(Candidate, state))
        = (reserved + ReplayFrom(s, receipts).zkGas) + TxZkGas(Candidate, state)
  BY SMT, Z3, <1>7
<1> QED
  BY <1>5, <1>6, <1>8

(* Everything that holds of a call besides. *)
SelInv ==
  Standing /\ BlockInv /\ AdmittedInv /\ MemorySound /\ RatioInv /\ CandidateInv /\ AnswerInv

(* Inside the loop, each step is one of the reference's, or none. *)
LEMMA WalksOn ==
  ASSUME SelInv, Standing', [SelNext]_allVars, InCall, InCall', Plain, Plain',
         NEW B \in SUBSET Senders, Finishes(B)
  PROVE  \E C \in SUBSET Senders : Finishes(C)'
<1> USE DEF SelInv, InCall
<1>1. /\ lists[1] \in TxList /\ Len(lists) = 1 /\ Last(lists) = lists[1] /\ request.mode = "payload"
      /\ GasPerList = SaturatingSub(BlockGasLimit, AnchorGasLimit)
  BY OneList DEF Plain
<1>2. ASSUME UNCHANGED <<state, lists, request, todo>>, meter'.block = meter.block
      PROVE  \E C \in SUBSET Senders : Finishes(C)'
  <2>1. Reached(B)' = Reached(B)
    BY <1>2 DEF Reached
  <2>2. Finishes(B)'
    BY <1>2, <2>1 DEF Finishes
  <2> QED
    BY <2>2
<1>3. ASSUME todo # <<>>, CanFitAnother, Unfit(request, Reached(B), Candidate), todo' = MarkInvalid(Candidate),
             UNCHANGED <<state, lists, request>>, meter'.block = meter.block
      PROVE  \E C \in SUBSET Senders : Finishes(C)'
  BY <1>1, <1>3, DropsCandidate
<1>4. CASE Ineligible
  <2>1. /\ todo # <<>> /\ CanFitAnother /\ ~Eligible(Candidate) /\ todo' = MarkInvalid(Candidate)
        /\ UNCHANGED <<state, lists, request>> /\ meter'.block = meter.block
    BY <1>4 DEF Ineligible, InLoop, Drop, vars
  <2> QED
    BY <1>1, <1>3, <2>1, IneligibleIsUnfit
<1>5. CASE SkipRemembered
  <2>1. /\ todo # <<>> /\ CanFitAnother /\ overflows[request.mode][Candidate] = digest
        /\ todo' = MarkInvalid(Candidate)
        /\ UNCHANGED <<state, lists, request>> /\ meter'.block = meter.block
    BY <1>5 DEF SkipRemembered, SkipsAsRemembered, InLoop, Drop, vars
  <2>2. Overflowing(Candidate)
    BY <2>1, RememberedOverflows
  <2> QED
    BY <1>3, <2>1, <2>2, OverflowIsUnfit
<1>6. CASE NoRoom
  <2>1. /\ todo # <<>> /\ CanFitAnother /\ InCurrent.exceeds /\ todo' = MarkInvalid(Candidate)
        /\ UNCHANGED <<state, request>> /\ meter'.block = meter.block
        /\ \/ ratios' = Measured /\ UNCHANGED lists
           \/ ratios' = Append(Measured, InFresh.ratio)
    BY <1>6 DEF NoRoom, Runnable, InLoop, Drop, vars
  <2>2. ratios' = <<DefaultRatio>>
    BY DEF Plain
  <2>3. /\ UNCHANGED lists
        /\ lists[1].gas + GasLimit[Candidate] > GasPerList \/ lists[1].da + DaSize[Candidate] > MaxDa
    BY <1>1, <2>1, <2>2, MeasuredRatios DEF Standing
  <2>4. Reached(B).gas = lists[1].gas /\ Reached(B).da = lists[1].da
    BY DEF Reached
  <2>5. Unfit(request, Reached(B), Candidate)
    BY <1>1, <2>3, <2>4 DEF Unfit
  <2> QED
    BY <1>3, <2>1, <2>3, <2>5
<1>7. CASE Execute
  <2>1. /\ todo # <<>> /\ UNCHANGED <<request, todo>> /\ step = "loop"
        /\ RefuseExhausted \/ RefuseGasLimit(Candidate) \/ StartTransact(Candidate)
        /\ \/ ratios' = Measured /\ UNCHANGED lists
           \/ ratios' = Append(Measured, InFresh.ratio)
    BY <1>7 DEF Execute, Runnable, InLoop
  <2>2. ratios' = <<DefaultRatio>>
    BY DEF Plain
  <2>3. UNCHANGED lists
    BY <2>1, <2>2, MeasuredRatios DEF Standing
  <2>4. ~RefuseExhausted
    BY <2>1 DEF Standing, CallInv, RefuseExhausted
  <2>5. UNCHANGED state /\ meter'.block = meter.block
    BY <2>1, <2>4, StartShape
  <2> QED
    BY <1>2, <2>1, <2>3, <2>5
<1>8. CASE Transact
  <2>1. UNCHANGED <<lists, request, todo>>
    BY <1>8 DEF Transact, selVars
  <2>2. UNCHANGED state /\ meter'.block = meter.block
    BY <1>8, TransactShape DEF Transact, TransactStep, Standing
  <2> QED
    BY <1>2, <2>1, <2>2
<1>9. ASSUME step = "call" PROVE CanFitAnother /\ todo # <<>> /\ Candidate \in Txs
  BY <1>9, CandidateType DEF CandidateInv, Standing, CallInv
<1>10. CASE OverflowedAgain \/ OverflowedFirst
  <2>1. /\ step = "call" /\ phase = "ready" /\ result = "zk_limit" /\ todo' = MarkInvalid(Candidate)
        /\ UNCHANGED <<lists, request>> /\ ClearZkGasExhaustion
    BY <1>10 DEF OverflowedAgain, OverflowedFirst, Overran, Record, Unexhaust
  <2>2. UNCHANGED state /\ meter'.block = meter.block
    BY SMT, <2>1 DEF ClearZkGasExhaustion, ReturnTo, ResetCurrentTransactionZkGas, ResetTransaction
  <2>3. Overflowing(Candidate)
    BY <2>1 DEF Standing, CallInv
  <2> QED
    BY <1>3, <1>9, <2>1, <2>2, <2>3, OverflowIsUnfit
<1>11. CASE RejectedByEvm
  <2>1. /\ step = "call" /\ phase = "ready" /\ result = "invalid_tx" /\ todo' = AfterInvalid(Candidate)
        /\ UNCHANGED <<state, lists, request>> /\ meter'.block = meter.block
    BY <1>11 DEF RejectedByEvm, vars
  <2>2. ~Run[Candidate][state].valid
    BY <2>1 DEF CandidateInv
  <2>3. CASE Candidate \notin NonceTooLow
    <3>1. todo' = MarkInvalid(Candidate)
      BY <2>1, <2>3 DEF AfterInvalid
    <3> QED
      BY <1>1, <1>9, <2>1, <2>2, <2>3, <3>1, DropsCandidate
  <2>4. CASE Candidate \in NonceTooLow
    <3>1. todo' = Tail(todo)
      BY <2>1, <2>4 DEF AfterInvalid
    <3>2. ~Overflowing(Candidate)
      <4>1. Cost(Candidate, state) = TxIntrinsic
        BY <2>2 DEF Cost
      <4> QED
        BY <1>9, <2>1, <4>1, FitsAnother DEF Overflowing
    <3>3. ~Unfit(request, Reached(B), Candidate)
      BY <1>1, <2>1, <3>2, AdmittedIsFit
    <3> QED
      BY <1>1, <1>9, <2>1, <2>2, <2>4, <3>1, <3>3, SkipsOutdated
  <2> QED
    BY <2>3, <2>4
<1>12. CASE Included
  <2>1. /\ step = "call" /\ phase = "executed" /\ Commit /\ todo' = Tail(todo) /\ UNCHANGED request
        /\ cur = Candidate /\ step' = "loop"
    BY <1>12 DEF Included, Standing, CallInv
  <2>2. Run[Candidate][state].valid
    BY <2>1 DEF CandidateInv
  <2>3. lists'[1] = Extended(lists[1])
    BY ZenonT(30), <1>1, <1>12, IncludedLists DEF Standing
  <2>4. /\ lists'[1].txs = Append(lists[1].txs, Candidate)
        /\ lists'[1].gas = lists[1].gas + Run[Candidate][state].gas
        /\ lists'[1].da = lists[1].da + DaSize[Candidate]
    BY SMT, Z3, <2>1, <2>3 DEF Extended, CurRun
  <2>5. state' = Run[Candidate][state].next /\ meter'.block = meter.block + TxZkGas(Candidate, state)
    BY <1>9, <1>12, <2>1, CommitsCandidate
  <2>6. ~Overflowing(Candidate)
    <3>1. Cost(Candidate, state) = TxZkGas(Candidate, state)
      BY <2>2 DEF Cost
    <3>2. meter'.block <= BlockLimit /\ meter'.block \in Nat /\ BlockLimit \in Nat
      <4>1. meter' \in Meter /\ meter'.block + meter'.tx + meter'.remaining = BlockLimit
        BY DEF Standing, IInv, TypeOK, BudgetExact
      <4> QED
        BY SMT, Z3, <4>1, MeterAssumption DEF Meter, U64
    <3>3. ~(meter'.block > BlockLimit)
      BY SMT, Z3, <3>2
    <3> QED
      BY <2>5, <3>1, <3>3 DEF Overflowing
  <2>7. ~Unfit(request, Reached(B), Candidate)
    BY <1>1, <2>1, <2>6, AdmittedIsFit
  <2>8. Finishes(B)'
    BY <1>1, <1>9, <2>1, <2>2, <2>4, <2>5, <2>7, TakesCandidate
  <2> QED
    BY <2>8
<1>13. CASE \/ \E r \in Requests : Begin(r)
            \/ ReserveForAnchor \/ ExecuteAnchor \/ AnchorCommitted \/ AnchorFailed
            \/ PoolDrained \/ Cancelled \/ BudgetDrained \/ FatalError
  <2>1. ASSUME NEW r \in Requests, Begin(r) PROVE step' = "setup"
    BY <2>1 DEF Begin
  <2>2. ASSUME ReserveForAnchor \/ ExecuteAnchor \/ AnchorCommitted \/ AnchorFailed
        PROVE  step \in {"setup", "anchor"}
    BY <2>2 DEF ReserveForAnchor, ExecuteAnchor, AnchorCommitted, AnchorFailed
  <2>3. ASSUME PoolDrained \/ Cancelled \/ BudgetDrained \/ FatalError PROVE step' = "idle"
    BY <2>3 DEF PoolDrained, Cancelled, BudgetDrained, FatalError, Stop, Return
  <2> QED
    BY <1>13, <2>1, <2>2, <2>3
<1>14. CASE SkipRerun
  BY <1>14 DEF SkipRerun, Plain
<1>15. ASSUME NEW m \in Modes, NEW tx \in Txs \ {Anchor}, NEW d,
              ForeignRecord(m, tx, d) \/ ForeignForget(m, tx)
       PROVE  \E C \in SUBSET Senders : Finishes(C)'
  BY <1>2, <1>15 DEF ForeignRecord, ForeignForget, vars
<1>16. CASE UNCHANGED allVars
  BY <1>2, <1>16 DEF allVars, selVars, vars
<1> QED
  BY <1>4, <1>5, <1>6, <1>7, <1>8, <1>10, <1>11, <1>12, <1>13, <1>14, <1>15, <1>16 DEF SelNext,
     SelectionStep

LEMMA NextWalk == SelInv /\ Standing' /\ WalkInv /\ [SelNext]_allVars => WalkInv'
<1> SUFFICES ASSUME SelInv, Standing', WalkInv, [SelNext]_allVars, Plain', InCall'
             PROVE  \E C \in SUBSET Senders : Finishes(C)'
  BY DEF WalkInv
<1>1. CASE InCall
  <2>1. Plain
    BY <1>1, StaysPlain DEF SelInv
  <2>2. PICK B \in SUBSET Senders : Finishes(B)
    BY <1>1, <2>1 DEF WalkInv
  <2> QED
    BY <1>1, <2>1, <2>2, WalksOn
<1>2. CASE ~InCall
  <2>1. ReserveForAnchor \/ AnchorCommitted
    <3>1. step # step' /\ step' \in {"loop", "call"} /\ step \notin {"loop", "call"}
      BY <1>2 DEF InCall
    <3>2. ~(\E r \in Requests : Begin(r)) /\ ~UNCHANGED allVars /\ ~Transact
      <4>1. ASSUME NEW r \in Requests, Begin(r) PROVE step' = "setup"
        BY <4>1 DEF Begin
      <4>2. ASSUME UNCHANGED allVars \/ Transact PROVE step' = step
        BY <4>2 DEF allVars, selVars, Transact
      <4> QED
        BY <3>1, <4>1, <4>2
    <3>3. ~(ExecuteAnchor \/ AnchorFailed \/ PoolDrained \/ Cancelled \/ BudgetDrained \/ FatalError)
      <4>1. ASSUME ExecuteAnchor PROVE step' = "anchor"
        BY <4>1 DEF ExecuteAnchor
      <4>2. ASSUME AnchorFailed \/ PoolDrained \/ Cancelled \/ BudgetDrained \/ FatalError PROVE step' = "idle"
        BY <4>2 DEF AnchorFailed, PoolDrained, Cancelled, BudgetDrained, FatalError, Stop, Return
      <4> QED
        BY <3>1, <4>1, <4>2
    <3>4. ~(Ineligible \/ SkipRemembered \/ SkipRerun \/ NoRoom \/ Execute)
      <4>1. ASSUME Ineligible \/ SkipRemembered \/ SkipRerun \/ NoRoom \/ Execute PROVE step = "loop"
        BY <4>1 DEF Ineligible, SkipRemembered, SkipRerun, NoRoom, Execute, Runnable, InLoop
      <4> QED
        BY <3>1, <4>1
    <3>5. ~(Included \/ OverflowedAgain \/ OverflowedFirst \/ RejectedByEvm)
      <4>1. ASSUME Included \/ OverflowedAgain \/ OverflowedFirst \/ RejectedByEvm PROVE step = "call"
        BY <4>1 DEF Included, OverflowedAgain, OverflowedFirst, Overran, RejectedByEvm
      <4> QED
        BY <3>1, <4>1
    <3>6. ASSUME NEW m \in Modes, NEW tx \in Txs \ {Anchor}, NEW d,
                 ForeignRecord(m, tx, d) \/ ForeignForget(m, tx)
          PROVE  FALSE
      BY <3>1, <3>6 DEF ForeignRecord, ForeignForget
    <3> QED
      BY <3>2, <3>3, <3>4, <3>5, <3>6 DEF SelNext, SelectionStep
  <2>2. ~ReserveForAnchor
    <3> SUFFICES ASSUME ReserveForAnchor PROVE FALSE
      BY SMT
    <3>1. request.mode = "rpc" /\ UNCHANGED request
      BY DEF ReserveForAnchor, EnterLoop, Return
    <3> QED
      BY SMT, <3>1 DEF Plain
  <2>3. Finishes({})'
    BY <2>1, <2>2, StartsWalk DEF SelInv
  <2> QED
    BY <2>3
<1> QED
  BY <1>1, <1>2

(* Where a call completes, the reference has nothing left to take. *)
LEMMA NextTransparent ==
  SelInv /\ WalkInv /\ MemoryIsTransparent /\ [SelNext]_allVars => MemoryIsTransparent'
<1> SUFFICES ASSUME SelInv, WalkInv, MemoryIsTransparent, [SelNext]_allVars PROVE MemoryIsTransparent'
  BY SMT
<1> USE DEF SelInv
<1>1. ASSUME answer' # "completed" PROVE MemoryIsTransparent'
  BY <1>1 DEF MemoryIsTransparent
<1>2. ASSUME UNCHANGED <<answer, request, capped, ratios, lists>> PROVE MemoryIsTransparent'
  BY SMT, <1>2 DEF MemoryIsTransparent
<1>3. ASSUME step # "idle", UNCHANGED answer PROVE MemoryIsTransparent'
  <2>1. answer' # "completed"
    BY SMT, <1>3 DEF AnswerInv
  <2> QED
    BY <1>1, <2>1
<1>4. CASE PoolDrained \/ BudgetDrained
  <2>1. InCall /\ UNCHANGED <<request, capped, ratios, lists, todo>>
    BY <1>4 DEF PoolDrained, BudgetDrained, InLoop, Stop, Return, InCall
  <2> SUFFICES ASSUME Plain PROVE lists[1].txs = GreedyPacking(request)
    BY SMT, <2>1 DEF MemoryIsTransparent, Plain
  <2>2. PICK B \in SUBSET Senders : Finishes(B)
    BY <2>1 DEF WalkInv
  <2>3. lists[1] \in TxList
    BY <2>1, OneList DEF Plain
  <2>4. Reached(B) \in Walk /\ todo \in Seq(Txs)
    BY <2>3, ReachedType DEF Standing, TypeInv
  <2>5. Reached(B).txs = lists[1].txs /\ Reached(B).zk = meter.block
    BY DEF Reached
  <2>6. WalkEnd(request, Reached(B), todo) = Reached(B)
    <3>1. CASE PoolDrained
      <4>1. todo = <<>> /\ Len(<<>>) = 0
        BY SMT, <3>1 DEF PoolDrained
      <4> QED
        BY <2>4, <4>1, WalkSteps DEF WalkEnd, IsWalk
    <3>2. CASE BudgetDrained
      <4>1. Reached(B).zk + TxIntrinsic > BlockLimit
        BY <2>5, <3>2, FitsAnother DEF BudgetDrained
      <4> QED
        BY <2>4, <4>1, WalkDrained
    <3> QED
      BY <1>4, <3>1, <3>2
  <2> QED
    BY <2>2, <2>5, <2>6 DEF Finishes
<1>5. CASE \E r \in Requests : Begin(r)
  <2>1. answer' = "none"
    BY <1>5 DEF Begin
  <2> QED
    BY SMT, <1>1, <2>1
<1>6. CASE ReserveForAnchor \/ AnchorCommitted \/ ExecuteAnchor \/ AnchorFailed
  <2>1. answer' = "error" \/ (step # "idle" /\ UNCHANGED answer)
    BY SMT, <1>6 DEF ReserveForAnchor, AnchorCommitted, ExecuteAnchor, AnchorFailed, EnterLoop,
       Return
  <2> QED
    BY Zenon, <1>1, <1>3, <2>1
<1>7. CASE Cancelled \/ FatalError
  <2>1. answer' \in {"cancelled", "error"}
    BY <1>7 DEF Cancelled, FatalError, Stop, Return
  <2> QED
    BY SMT, <1>1, <2>1
<1>8. CASE Ineligible \/ SkipRemembered \/ SkipRerun \/ NoRoom \/ Execute
  <2>1. step = "loop" /\ UNCHANGED answer
    BY <1>8 DEF Ineligible, SkipRemembered, SkipRerun, NoRoom, Execute, Runnable, InLoop, Drop
  <2> QED
    BY SMT, <1>3, <2>1
<1>9. CASE Included \/ OverflowedAgain \/ RejectedByEvm
  <2>1. step = "call" /\ UNCHANGED answer
    BY <1>9 DEF Included, OverflowedAgain, Overran, RejectedByEvm
  <2> QED
    BY SMT, <1>3, <2>1
<1>10. CASE OverflowedFirst
  <2>1. step = "call" /\ (capped' \/ UNCHANGED answer)
    BY <1>10 DEF OverflowedFirst, Overran
  <2>2. step # "idle"
    BY SMT, <2>1
  <2> QED
    BY <1>3, <2>1, <2>2 DEF MemoryIsTransparent
<1>11. CASE Transact \/ UNCHANGED allVars
  BY <1>2, <1>11 DEF Transact, allVars, selVars
<1>12. ASSUME NEW m \in Modes, NEW tx \in Txs \ {Anchor}, NEW d,
              ForeignRecord(m, tx, d) \/ ForeignForget(m, tx)
       PROVE  MemoryIsTransparent'
  BY <1>2, <1>12 DEF ForeignRecord, ForeignForget
<1> QED
  BY <1>4, <1>5, <1>6, <1>7, <1>8, <1>9, <1>10, <1>11, <1>12 DEF SelNext, SelectionStep

(* The overflow memory and the retries change nothing the builder selects:  *)
(* unless a cap was hit or a compressed size was measured, a pool-mode      *)
(* payload holds what one pass over the pool without any memory selects,    *)
(* for every pool, whatever earlier calls remembered and other calls        *)
(* write meanwhile (select_and_execute_pool_transactions).                  *)
THEOREM SelectionIsTransparent == SelSpec => []MemoryIsTransparent
<1>1. SelInit => RatioInv /\ CandidateInv /\ AnswerInv /\ WalkInv /\ MemoryIsTransparent
  <2> SUFFICES ASSUME SelInit PROVE RatioInv /\ CandidateInv /\ AnswerInv /\ WalkInv /\ MemoryIsTransparent
    BY SMT
  <2>1. step = "idle" /\ answer = "none" /\ ratios = <<DefaultRatio>>
    BY DEF SelInit
  <2>2. RatioInv
    BY SMT, Z3, <2>1, DefaultRatioType DEF RatioInv
  <2>3. step # "call" /\ ~InCall /\ answer # "completed"
    BY SMT, <2>1 DEF InCall
  <2> QED
    BY <2>1, <2>2, <2>3 DEF CandidateInv, AnswerInv, WalkInv, MemoryIsTransparent
<1>2. SelSpec => []RatioInv
  BY PTL, <1>1, NextRatio, StandingHolds DEF SelSpec
<1>3. SelSpec => []CandidateInv
  BY PTL, <1>1, NextCandidate, StandingHolds DEF SelSpec
<1>4. SelSpec => []AnswerInv
  BY PTL, <1>1, NextAnswer DEF SelSpec
<1>5. SelSpec => []SelInv
  BY PTL, <1>2, <1>3, <1>4, StandingHolds, BlockHolds, AdmittedHolds, MemoryIsSound DEF SelInv
<1>6. SelSpec => []WalkInv
  BY PTL, <1>1, <1>5, NextWalk, StandingHolds DEF SelSpec
<1> QED
  BY PTL, <1>1, <1>5, <1>6, NextTransparent DEF SelSpec
=============================================================================
