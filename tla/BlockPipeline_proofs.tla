------------------------ MODULE BlockPipeline_proofs ------------------------
(***************************************************************************)
(* Proofs about the four drivers of the block executor, for every list,     *)
(* every received block and every behaviour of the EVM.                     *)
(***************************************************************************)
EXTENDS BlockPipeline, TaikoBlockExecutor_proofs

-----------------------------------------------------------------------------
(* The reference selection.                                                 *)

TakeState == [body : Seq(Txs), state : States, zk : Nat, gas : Nat, stop : BOOLEAN]

LEMMA NothingTakenType == NothingTaken \in TakeState
BY ExecutorAssumption DEF NothingTaken, TakeState

(* Taken in the order the executor decides: what is passed over, what ends  *)
(* the block, what the EVM rejects, what is committed.                      *)
Passed(at, tx) ==
  \/ at.stop
  \/ tx \in Disallowed \cup Unrecoverable
  \/ at.gas + GasLimit[tx] > BlockGasLimit

Needs(at, tx) ==
  at.zk + (IF Run[tx][at.state].valid THEN TxZkGas(tx, at.state) ELSE TxIntrinsic)

LEMMA TakenCases ==
  ASSUME NEW at, NEW tx
  PROVE  /\ Passed(at, tx) => Taken(at, tx) = at
         /\ ~Passed(at, tx) /\ Needs(at, tx) > BlockLimit =>
              Taken(at, tx) = [at EXCEPT !.stop = TRUE]
         /\ ~Passed(at, tx) /\ ~(Needs(at, tx) > BlockLimit) /\ ~Run[tx][at.state].valid =>
              Taken(at, tx) = at
         /\ ~Passed(at, tx) /\ ~(Needs(at, tx) > BlockLimit) /\ Run[tx][at.state].valid =>
              Taken(at, tx) =
                [body |-> Append(at.body, tx), state |-> Run[tx][at.state].next,
                 zk |-> at.zk + TxZkGas(tx, at.state),
                 gas |-> at.gas + Run[tx][at.state].gas, stop |-> FALSE]
BY Zenon DEF Taken, Passed, Needs

LEMMA TakenType ==
  ASSUME NEW at \in TakeState, NEW tx \in Txs
  PROVE  Taken(at, tx) \in TakeState
<1>1. /\ at.body \in Seq(Txs) /\ at.state \in States /\ at.zk \in Nat /\ at.gas \in Nat
      /\ at.stop \in BOOLEAN
  BY DEF TakeState
<1>2. Run[tx][at.state] \in RunResult
  BY <1>1, ExecutorAssumption
<1>3. Run[tx][at.state].next \in States /\ Run[tx][at.state].gas \in Nat
  BY <1>2 DEF RunResult
<1>4. TxZkGas(tx, at.state) \in Nat
  BY <1>1, TxZkGasType
<1>5. [at EXCEPT !.stop = TRUE] \in TakeState
  BY Zenon, <1>1 DEF TakeState
<1>6. [body |-> Append(at.body, tx), state |-> Run[tx][at.state].next,
       zk |-> at.zk + TxZkGas(tx, at.state),
       gas |-> at.gas + Run[tx][at.state].gas, stop |-> FALSE] \in TakeState
  BY <1>1, <1>3, <1>4 DEF TakeState
<1> QED
  BY Zenon, <1>5, <1>6, TakenCases

(* The conditions under which a transaction is taken. *)
Fits(at, tx) == ~Passed(at, tx) /\ ~(Needs(at, tx) > BlockLimit) /\ Run[tx][at.state].valid

(* A transaction grows the body by itself or not at all. *)
LEMMA TakenBody ==
  ASSUME NEW at \in TakeState, NEW tx \in Txs
  PROVE  /\ Fits(at, tx) => Taken(at, tx).body = Append(at.body, tx)
         /\ ~Fits(at, tx) => Taken(at, tx).body = at.body
<1>1. [at EXCEPT !.stop = TRUE].body = at.body
  BY DEF TakeState
<1>2. CASE Fits(at, tx)
  BY <1>2, TakenCases DEF Fits
<1>3. CASE ~Fits(at, tx)
  <2>1. Taken(at, tx) \in {at, [at EXCEPT !.stop = TRUE]}
    BY Zenon, <1>3, TakenCases DEF Fits
  <2> QED
    BY Zenon, <1>1, <1>3, <2>1
<1> QED
  BY <1>2, <1>3

(* The selection obeys its recursive definition. *)
LEMMA TakenSteps ==
  ASSUME NEW txs \in Seq(Txs)
  PROVE  /\ TakenOf(txs) \in [0 .. Len(txs) -> TakeState]
         /\ TakenOf(txs)[0] = NothingTaken
         /\ \A n \in 1 .. Len(txs) : TakenOf(txs)[n] = Taken(TakenOf(txs)[n - 1], txs[n])
<1> DEFINE N == Len(txs)
           f == [n \in 1 .. N |-> [at \in TakeState |-> Taken(at, txs[n])]]
           Defines(g) == g = [n \in 0 .. N |-> IF n = 0 THEN NothingTaken
                                               ELSE Taken(g[n - 1], txs[n])]
           r == TakenOf(txs)
<1>1. N \in Nat /\ NothingTaken \in TakeState
  BY NothingTakenType
<1>2. \A n \in 1 .. N : txs[n] \in Txs
  OBVIOUS
<1>3. f \in [1 .. N -> [TakeState -> TakeState]]
  BY <1>2, TakenType
<1>4. PICK g \in [0 .. N -> TakeState] : Iterates(g, f, NothingTaken, N)
  <2> HIDE DEF f, N
  <2> QED
    BY Zenon, <1>1, <1>3, RecursionHasSolution
<1>5. g[0] = NothingTaken /\ \A n \in 1 .. N : g[n] = Taken(g[n - 1], txs[n])
  <2>1. ASSUME NEW n \in 1 .. N PROVE g[n - 1] \in TakeState
    BY <1>1
  <2> QED
    BY Zenon, <1>4, <2>1 DEF Iterates
<1>6. Defines(g)
  BY <1>5
<1>7. r = CHOOSE s : Defines(s)
  BY DEF TakenOf
<1>8. Defines(r)
  <2> HIDE DEF Defines, r
  <2> QED
    BY <1>6, <1>7
<1>9. r[0] = NothingTaken
  <2> HIDE DEF r
  <2> QED
    BY <1>1, <1>8
<1>10. \A n \in 1 .. N : r[n] = Taken(r[n - 1], txs[n])
  <2> HIDE DEF r
  <2> QED
    BY <1>1, <1>8
<1>11. StepAlike(r, g, N)
  <2> HIDE DEF r
  <2> QED
    BY <1>5, <1>9, <1>10 DEF StepAlike
<1>12. Alike(r, g, N)
  <2> HIDE DEF r, N
  <2> QED
    BY <1>1, <1>11, RecursionIsUnique
<1>13. r \in [0 .. N -> TakeState]
  <2> HIDE DEF r
  <2> QED
    BY <1>8, <1>12 DEF Alike
<1> QED
  BY <1>9, <1>10, <1>13

(* What is taken of a whole list. *)
Reached(txs) == TakenOf(txs)[Len(txs)]

LEMMA ReachedNothing == Reached(<<>>) = NothingTaken
<1>1. <<>> \in Seq(Txs) /\ Len(<<>>) = 0
  OBVIOUS
<1> QED
  BY Zenon, <1>1, TakenSteps DEF Reached

LEMMA ReachedType ==
  ASSUME NEW txs \in Seq(Txs)
  PROVE  Reached(txs) \in TakeState
<1>1. Len(txs) \in 0 .. Len(txs)
  OBVIOUS
<1> QED
  BY <1>1, TakenSteps DEF Reached

(* Selecting from one more transaction is one more step. *)
LEMMA ReachedAppend ==
  ASSUME NEW txs \in Seq(Txs), NEW tx \in Txs
  PROVE  Reached(Append(txs, tx)) = Taken(Reached(txs), tx)
<1> DEFINE N == Len(txs)
           more == Append(txs, tx)
           g == TakenOf(txs)
           h == TakenOf(more)
<1>1. /\ N \in Nat /\ more \in Seq(Txs) /\ Len(more) = N + 1
      /\ more[N + 1] = tx /\ \A n \in 1 .. N : more[n] = txs[n]
  OBVIOUS
<1>2. g[0] = NothingTaken /\ \A n \in 1 .. N : g[n] = Taken(g[n - 1], txs[n])
  BY TakenSteps
<1>3. h[0] = NothingTaken /\ \A n \in 1 .. N + 1 : h[n] = Taken(h[n - 1], more[n])
  <2> HIDE DEF more
  <2> QED
    BY <1>1, TakenSteps
<1> HIDE DEF g, h, more
<1>4. StepAlike(h, g, N)
  BY <1>1, <1>2, <1>3 DEF StepAlike
<1>5. Alike(h, g, N)
  BY <1>1, <1>4, RecursionIsUnique
<1>6. h[N] = g[N]
  BY <1>1, <1>5 DEF Alike
<1>7. h[N + 1] = Taken(h[N], tx)
  BY <1>1, <1>3
<1> QED
  BY <1>1, <1>6, <1>7 DEF Reached, g, h, more

(* Once the zk gas has run out nothing more is taken. *)
LEMMA StopIsFinal ==
  ASSUME NEW txs \in Seq(Txs), NEW k \in 0 .. Len(txs), TakenOf(txs)[k].stop
  PROVE  Reached(txs) = TakenOf(txs)[k]
<1> DEFINE r == TakenOf(txs)
           N == Len(txs)
           H == {n \in Nat : r[n] = r[k]}
<1>1. N \in Nat /\ k \in Nat /\ k \in H /\ r[k].stop
  OBVIOUS
<1>2. ASSUME NEW n \in k .. N - 1, n \in H PROVE n + 1 \in H
  <2>1. n + 1 \in 1 .. N /\ n + 1 \in Nat /\ (n + 1) - 1 = n
    OBVIOUS
  <2>2. r[n + 1] = Taken(r[n], txs[n + 1])
    <3> HIDE DEF r, H
    <3> QED
      BY <2>1, TakenSteps DEF r
  <2>3. r[n] = r[k]
    BY <1>2
  <2>4. Passed(r[n], txs[n + 1])
    BY <1>1, <2>3 DEF Passed
  <2>5. r[n + 1] = r[n]
    <3> HIDE DEF r, H
    <3> QED
      BY <2>2, <2>4, TakenCases
  <2> QED
    BY <2>1, <2>3, <2>5
<1>3. N \in k .. N
  OBVIOUS
<1>4. N \in H
  <2> HIDE DEF H, r
  <2> QED
    BY Zenon, <1>1, <1>2, <1>3, IntervalInduction
<1> QED
  BY <1>4 DEF Reached

(* A list that loses a transaction on the way is not its own body. *)
LEMMA LossIsFinal ==
  ASSUME NEW txs \in Seq(Txs), NEW k \in 0 .. Len(txs), Len(TakenOf(txs)[k].body) < k
  PROVE  Reached(txs).body # txs
<1> DEFINE r == TakenOf(txs)
           N == Len(txs)
           H == {n \in Nat : Len(r[n].body) < n}
<1>1. N \in Nat /\ k \in Nat /\ k \in H
  OBVIOUS
<1>2. ASSUME NEW n \in k .. N - 1, n \in H PROVE n + 1 \in H
  <2>1. n + 1 \in 1 .. N /\ n + 1 \in Nat /\ (n + 1) - 1 = n /\ n \in 0 .. N
    OBVIOUS
  <2>2. r[n + 1] = Taken(r[n], txs[n + 1]) /\ r[n] \in TakeState
    <3> HIDE DEF r, H
    <3> QED
      BY Zenon, <2>1, TakenSteps DEF r
  <2>3. r[n].body \in Seq(Txs) /\ txs[n + 1] \in Txs
    <3> HIDE DEF r, H
    <3> QED
      BY <2>1, <2>2 DEF TakeState
  <2>4. Len(r[n].body) < n
    BY <1>2
  <2> HIDE DEF r, H
  <2>5. r[n + 1].body \in {r[n].body, Append(r[n].body, txs[n + 1])}
    BY Zenon, <2>2, <2>3, TakenBody
  <2>6. Len(r[n + 1].body) < n + 1
    BY <2>1, <2>3, <2>4, <2>5
  <2> QED
    BY <2>1, <2>6 DEF H
<1>3. N \in k .. N
  OBVIOUS
<1>4. N \in H
  <2> HIDE DEF H, r
  <2> QED
    BY Zenon, <1>1, <1>2, <1>3, IntervalInduction
<1> QED
  BY <1>4 DEF Reached

(* Only acceptable transactions are taken. *)
Acceptable(txs) == \A i \in DOMAIN txs : txs[i] \notin Disallowed \cup Unrecoverable

LEMMA TakenAcceptable ==
  ASSUME NEW txs \in Seq(Txs)
  PROVE  Acceptable(Reached(txs).body)
<1> DEFINE r == TakenOf(txs)
           N == Len(txs)
           H == {n \in Nat : Acceptable(r[n].body)}
<1>1. N \in Nat /\ 0 \in Nat /\ 0 \in H
  <2>1. r[0] = NothingTaken
    BY TakenSteps
  <2>2. Acceptable(NothingTaken.body)
    BY DEF Acceptable, NothingTaken
  <2> QED
    BY <2>1, <2>2
<1>2. ASSUME NEW n \in 0 .. N - 1, n \in H PROVE n + 1 \in H
  <2>1. n + 1 \in 1 .. N /\ n + 1 \in Nat /\ (n + 1) - 1 = n /\ n \in 0 .. N
    OBVIOUS
  <2>2. r[n + 1] = Taken(r[n], txs[n + 1]) /\ r[n] \in TakeState
    <3> HIDE DEF r, H
    <3> QED
      BY <2>1, TakenSteps DEF r
  <2>3. r[n].body \in Seq(Txs) /\ txs[n + 1] \in Txs
    <3> HIDE DEF r, H
    <3> QED
      BY <2>1, <2>2 DEF TakeState
  <2>4. Acceptable(r[n].body)
    BY <1>2
  <2> HIDE DEF r, H
  <2>5. CASE Passed(r[n], txs[n + 1])
    BY <2>1, <2>2, <2>4, <2>5, TakenCases DEF H
  <2>6. CASE ~Passed(r[n], txs[n + 1])
    <3>1. txs[n + 1] \notin Disallowed \cup Unrecoverable
      BY Zenon, <2>6 DEF Passed
    <3>2. Acceptable(Append(r[n].body, txs[n + 1]))
      BY <2>3, <2>4, <3>1 DEF Acceptable
    <3>3. r[n + 1].body \in {r[n].body, Append(r[n].body, txs[n + 1])}
      BY <2>2, <2>3, TakenBody
    <3> QED
      BY Zenon, <2>1, <2>4, <3>2, <3>3 DEF H
  <2> QED
    BY <2>5, <2>6
<1>3. N \in 0 .. N
  OBVIOUS
<1>4. N \in H
  <2> HIDE DEF H, r
  <2> QED
    BY Zenon, <1>1, <1>2, <1>3, IntervalInduction
<1> QED
  BY <1>4 DEF Reached

(* Selecting from a selected body takes all of it and ends where the        *)
(* selection from the list ended, but for the stop mark.                    *)
Unstopped(at) == [at EXCEPT !.stop = FALSE]

LEMMA UnstoppedSame ==
  ASSUME NEW at \in TakeState
  PROVE  /\ ~at.stop => Unstopped(at) = at
         /\ Unstopped([at EXCEPT !.stop = TRUE]) = Unstopped(at)
BY Zenon DEF TakeState, Unstopped

LEMMA BodyIsItsOwn ==
  ASSUME NEW txs \in Seq(Txs)
  PROVE  Reached(Reached(txs).body) = Unstopped(Reached(txs))
<1> DEFINE r == TakenOf(txs)
           N == Len(txs)
           H == {n \in Nat : Reached(r[n].body) = Unstopped(r[n])}
<1>1. N \in Nat /\ 0 \in Nat /\ 0 \in H
  <2>1. r[0] = NothingTaken
    BY TakenSteps
  <2>2. NothingTaken.body = <<>> /\ ~NothingTaken.stop
    BY DEF NothingTaken
  <2>3. Reached(NothingTaken.body) = Unstopped(NothingTaken)
    BY Zenon, <2>2, ReachedNothing, NothingTakenType, UnstoppedSame
  <2> QED
    BY <2>1, <2>3
<1>2. ASSUME NEW n \in 0 .. N - 1, n \in H PROVE n + 1 \in H
  <2>1. n + 1 \in 1 .. N /\ n + 1 \in Nat /\ (n + 1) - 1 = n /\ n \in 0 .. N
    OBVIOUS
  <2>2. r[n + 1] = Taken(r[n], txs[n + 1]) /\ r[n] \in TakeState /\ r[n + 1] \in TakeState
    <3> HIDE DEF r, H
    <3> QED
      BY <2>1, TakenSteps DEF r
  <2>3. r[n].body \in Seq(Txs) /\ txs[n + 1] \in Txs
    <3> HIDE DEF r, H
    <3> QED
      BY <2>1, <2>2 DEF TakeState
  <2>4. Reached(r[n].body) = Unstopped(r[n])
    BY <1>2
  <2> DEFINE at == r[n]
             tx == txs[n + 1]
  <2> HIDE DEF r, H, at, tx
  <2>5. Reached(Taken(at, tx).body) = Unstopped(Taken(at, tx))
    <3>1. at \in TakeState /\ tx \in Txs /\ at.body \in Seq(Txs) /\ Reached(at.body) = Unstopped(at)
      BY <2>2, <2>3, <2>4 DEF at, tx
    <3>2. CASE Fits(at, tx)
      <4>1. ~at.stop
        BY <3>2 DEF Fits, Passed
      <4>2. Reached(Append(at.body, tx)) = Taken(at, tx)
        BY Zenon, <3>1, <4>1, ReachedAppend, UnstoppedSame
      <4>3. ~Taken(at, tx).stop
        BY <3>2, TakenCases DEF Fits
      <4>4. Unstopped(Taken(at, tx)) = Taken(at, tx)
        BY Zenon, <3>1, <4>3, TakenType, UnstoppedSame
      <4> QED
        BY Zenon, <3>1, <3>2, <4>2, <4>4, TakenBody
    <3>3. CASE ~Fits(at, tx)
      <4>1. Taken(at, tx) \in {at, [at EXCEPT !.stop = TRUE]}
        BY Zenon, <3>3, TakenCases DEF Fits
      <4>2. Unstopped(Taken(at, tx)) = Unstopped(at)
        BY <3>1, <4>1, UnstoppedSame
      <4> QED
        BY <3>1, <3>3, <4>2, TakenBody
    <3> QED
      BY <3>2, <3>3
  <2> QED
    BY <2>1, <2>2, <2>5 DEF H, at, tx
<1>3. N \in 0 .. N
  OBVIOUS
<1>4. N \in H
  <2> HIDE DEF H, r
  <2> QED
    BY Zenon, <1>1, <1>2, <1>3, IntervalInduction
<1> QED
  BY <1>4 DEF Reached

-----------------------------------------------------------------------------
(* decode_recovered_transactions.                                           *)

Kept(before, tx) == IF tx \in Unrecoverable THEN before ELSE Append(before, tx)

KeptOf(txs) ==
  LET kept[n \in 0 .. Len(txs)] ==
        IF n = 0 THEN <<>>
        ELSE IF txs[n] \in Unrecoverable THEN kept[n - 1]
        ELSE Append(kept[n - 1], txs[n])
  IN  kept

LEMMA KeptSteps ==
  ASSUME NEW txs \in Seq(Txs)
  PROVE  /\ KeptOf(txs) \in [0 .. Len(txs) -> Seq(Txs)]
         /\ KeptOf(txs)[0] = <<>>
         /\ \A n \in 1 .. Len(txs) : KeptOf(txs)[n] = Kept(KeptOf(txs)[n - 1], txs[n])
<1> DEFINE N == Len(txs)
           f == [n \in 1 .. N |-> [at \in Seq(Txs) |-> Kept(at, txs[n])]]
           Defines(g) == g = [n \in 0 .. N |-> IF n = 0 THEN <<>> ELSE Kept(g[n - 1], txs[n])]
           r == KeptOf(txs)
<1>1. N \in Nat /\ <<>> \in Seq(Txs)
  OBVIOUS
<1>2. \A n \in 1 .. N : txs[n] \in Txs
  OBVIOUS
<1>3. f \in [1 .. N -> [Seq(Txs) -> Seq(Txs)]]
  BY <1>2 DEF Kept
<1>4. PICK g \in [0 .. N -> Seq(Txs)] : Iterates(g, f, <<>>, N)
  <2> HIDE DEF f, N
  <2> QED
    BY Zenon, <1>1, <1>3, RecursionHasSolution
<1>5. g[0] = <<>> /\ \A n \in 1 .. N : g[n] = Kept(g[n - 1], txs[n])
  <2>1. ASSUME NEW n \in 1 .. N PROVE g[n - 1] \in Seq(Txs)
    BY <1>1
  <2> QED
    BY Zenon, <1>4, <2>1 DEF Iterates
<1>6. Defines(g)
  BY <1>5
<1>7. r = CHOOSE s : Defines(s)
  BY DEF KeptOf, Kept
<1>8. Defines(r)
  <2> HIDE DEF Defines, r
  <2> QED
    BY <1>6, <1>7
<1>9. r[0] = <<>>
  <2> HIDE DEF r
  <2> QED
    BY <1>1, <1>8
<1>10. \A n \in 1 .. N : r[n] = Kept(r[n - 1], txs[n])
  <2> HIDE DEF r
  <2> QED
    BY <1>1, <1>8
<1>11. StepAlike(r, g, N)
  <2> HIDE DEF r
  <2> QED
    BY <1>5, <1>9, <1>10 DEF StepAlike
<1>12. Alike(r, g, N)
  <2> HIDE DEF r, N
  <2> QED
    BY <1>1, <1>11, RecursionIsUnique
<1>13. r \in [0 .. N -> Seq(Txs)]
  <2> HIDE DEF r
  <2> QED
    BY <1>8, <1>12 DEF Alike
<1> QED
  BY <1>9, <1>10, <1>13

LEMMA DecodeIsKept ==
  ASSUME NEW txs
  PROVE  DecodeRecovered(txs) = KeptOf(txs)[Len(txs)]
BY DEF DecodeRecovered, KeptOf

(* What decoding keeps is recoverable, still starts with a leading anchor,  *)
(* and yields the same selection: the reference skips what decoding drops.  *)
Recovered(txs) == \A i \in DOMAIN txs : txs[i] \notin Unrecoverable

LEMMA Decoded ==
  ASSUME NEW txs \in Seq(Txs)
  PROVE  /\ DecodeRecovered(txs) \in Seq(Txs)
         /\ Recovered(DecodeRecovered(txs))
         /\ Reached(DecodeRecovered(txs)) = Reached(txs)
         /\ (txs # <<>> => txs[1] \in Anchors) =>
              (DecodeRecovered(txs) # <<>> => DecodeRecovered(txs)[1] \in Anchors)
<1> DEFINE k == KeptOf(txs)
           r == TakenOf(txs)
           N == Len(txs)
           Leads(n, s) == n > 0 /\ txs[1] \in Anchors => s # <<>> /\ s[1] = txs[1]
           H == {n \in Nat : Recovered(k[n]) /\ Reached(k[n]) = r[n] /\ Leads(n, k[n])}
<1>1. N \in Nat /\ 0 \in Nat /\ 0 \in H
  <2>1. k[0] = <<>> /\ r[0] = NothingTaken
    BY KeptSteps, TakenSteps
  <2>2. Recovered(<<>>) /\ Leads(0, <<>>)
    BY DEF Recovered
  <2> HIDE DEF k, r, Leads
  <2> QED
    BY <2>1, <2>2, ReachedNothing
<1>2. ASSUME NEW n \in 0 .. N - 1, n \in H PROVE n + 1 \in H
  <2>1. n + 1 \in 1 .. N /\ n + 1 \in Nat /\ (n + 1) - 1 = n /\ n \in 0 .. N
    OBVIOUS
  <2>2. txs[n + 1] \in Txs
    BY <2>1
  <2>3. Recovered(k[n]) /\ Reached(k[n]) = r[n] /\ Leads(n, k[n])
    BY <1>2
  <2>4. r[n + 1] = Taken(r[n], txs[n + 1])
    <3> HIDE DEF k, r, H, Leads
    <3> QED
      BY <2>1, TakenSteps DEF r
  <2>5. k[n + 1] = Kept(k[n], txs[n + 1]) /\ k[n] \in Seq(Txs)
    <3> HIDE DEF k, r, H, Leads
    <3> QED
      BY <2>1, KeptSteps DEF k
  <2> HIDE DEF k, r, H
  <2>6. CASE txs[n + 1] \in Unrecoverable
    <3>1. Passed(r[n], txs[n + 1])
      BY <2>6 DEF Passed
    <3>2. r[n + 1] = r[n] /\ k[n + 1] = k[n]
      BY <2>4, <2>5, <2>6, <3>1, TakenCases DEF Kept
    <3>3. n = 0 => txs[1] \notin Anchors
      BY <2>6, PipelineAssumption
    <3>4. Leads(n + 1, k[n + 1])
      BY <2>1, <2>3, <3>2, <3>3
    <3> HIDE DEF Leads
    <3> QED
      BY <2>1, <2>3, <3>2, <3>4 DEF H
  <2>7. CASE txs[n + 1] \notin Unrecoverable
    <3>1. k[n + 1] = Append(k[n], txs[n + 1])
      BY <2>5, <2>7 DEF Kept
    <3>2. Recovered(Append(k[n], txs[n + 1]))
      BY <2>2, <2>3, <2>5, <2>7 DEF Recovered
    <3>3. Reached(Append(k[n], txs[n + 1])) = r[n + 1]
      BY <2>2, <2>3, <2>4, <2>5, ReachedAppend
    <3>4. n = 0 => k[n] = <<>>
      BY KeptSteps DEF k
    <3>5. Leads(n + 1, Append(k[n], txs[n + 1]))
      <4>1. CASE n = 0
        <5>1. n + 1 = 1 /\ k[n] = <<>>
          BY <3>4, <4>1
        <5>2. Append(<<>>, txs[1]) # <<>> /\ Append(<<>>, txs[1])[1] = txs[1]
          OBVIOUS
        <5>3. Append(k[n], txs[n + 1]) = Append(<<>>, txs[1])
          BY <5>1
        <5>4. Append(k[n], txs[n + 1]) # <<>> /\ Append(k[n], txs[n + 1])[1] = txs[1]
          BY <5>2, <5>3
        <5> QED
          BY <5>4
      <4>2. CASE n > 0
        BY <2>2, <2>3, <2>5, <4>2
      <4> QED
        BY <4>1, <4>2
    <3> HIDE DEF Leads
    <3> QED
      BY Zenon, <2>1, <3>1, <3>2, <3>3, <3>5 DEF H
  <2> QED
    BY <2>6, <2>7
<1>3. N \in 0 .. N
  OBVIOUS
<1>4. N \in H
  <2> HIDE DEF H, r, k
  <2> QED
    BY Zenon, <1>1, <1>2, <1>3, IntervalInduction
<1>5. Recovered(k[N]) /\ Reached(k[N]) = r[N] /\ Leads(N, k[N])
  BY <1>4
<1>6. k[N] \in Seq(Txs)
  BY <1>3, KeptSteps
<1>7. N = 0 => k[N] = <<>>
  BY Zenon, KeptSteps
<1>8. txs # <<>> => N > 0
  OBVIOUS
<1> HIDE DEF r, k
<1>9. (txs # <<>> => txs[1] \in Anchors) => (k[N] # <<>> => k[N][1] \in Anchors)
  BY <1>5, <1>7, <1>8
<1> QED
  BY Zenon, <1>5, <1>6, <1>9, DecodeIsKept DEF Reached, r, k

-----------------------------------------------------------------------------
(* One call of the executor against one step of the reference.              *)

(* A transaction costs at least what it has cost so far. *)
LEMMA RunningGrows ==
  ASSUME NEW work \in Seq(WorkItem), NEW p \in 0 .. Len(work)
  PROVE  /\ RunningZkGas(work)[p] \in Nat
         /\ RunningZkGas(work)[Len(work)] \in Nat
         /\ RunningZkGas(work)[p] <= RunningZkGas(work)[Len(work)]
<1> DEFINE r == RunningZkGas(work)
           N == Len(work)
           H == {n \in 0 .. N : r[p] <= r[n]}
<1>1. N \in Nat /\ p \in Nat /\ p <= N
  OBVIOUS
<1>2. \A n \in 0 .. N : r[n] \in Nat
  <2> HIDE DEF r
  <2> QED
    BY RunningZkGasSteps DEF r
<1>3. p \in H
  <2> HIDE DEF r
  <2> QED
    BY <1>2
<1>4. ASSUME NEW n \in p .. N - 1, n \in H PROVE n + 1 \in H
  <2>1. n + 1 \in 1 .. N /\ n + 1 \in 0 .. N /\ (n + 1) - 1 = n /\ n \in 0 .. N
    BY <1>1
  <2>2. work[n + 1] \in WorkItem
    BY <2>1
  <2>3. work[n + 1].raw \in Nat /\ work[n + 1].multiplier \in Nat
    BY <2>2, MeterAssumption DEF WorkItem, U64
  <2>4. WorkAmount(work[n + 1]) \in Nat
    BY <2>3 DEF WorkAmount
  <2>5. r[n + 1] = r[n] + WorkAmount(work[n + 1])
    <3> HIDE DEF r, N, H
    <3> QED
      BY <2>1, RunningZkGasSteps DEF r, N
  <2>6. r[p] <= r[n] /\ r[p] \in Nat /\ r[n] \in Nat
    <3> HIDE DEF r
    <3> QED
      BY <1>1, <1>2, <1>4, <2>1
  <2>7. r[p] <= r[n + 1]
    <3> HIDE DEF r, N, H
    <3> QED
      BY <2>4, <2>5, <2>6
  <2> HIDE DEF r
  <2> QED
    BY <2>1, <2>7
<1>5. N \in p .. N
  BY <1>1
<1>6. N \in H
  <2> HIDE DEF H, r, N
  <2> QED
    BY Zenon, <1>1, <1>3, <1>4, <1>5, IntervalInduction
<1> QED
  BY <1>2, <1>6

(* The executor stands where the reference stands. *)
Matches(at) ==
  /\ receipts = at.body
  /\ state = at.state
  /\ meter.block = at.zk
  /\ gasUsed = at.gas

(* A transaction is between its start and its commit. *)
Running(at, tx) ==
  /\ phase \in {"running", "executed"}
  /\ cur = tx
  /\ ~exhausted
  /\ Matches(at)
  /\ pos > 0 \/ phase = "executed" => CurRun.valid

(* The call has returned; but for an internal error of the EVM the executor *)
(* stands where the reference stands after the transaction.                 *)
Answered(at, tx) ==
  /\ phase = "ready"
  /\ result = "fatal" \/
       /\ result \in {"committed", "invalid_tx", "gas_limit", "zk_limit"}
       /\ Matches(Taken(at, tx))
       /\ exhausted <=> Taken(at, tx).stop
       /\ exhausted <=> result = "zk_limit"
       /\ result = "committed" <=> Fits(at, tx)

(* What the reference decides about a transaction that would have to fit. *)
Acceptance(at, tx) ==
  /\ at \in TakeState /\ ~at.stop
  /\ tx \in Txs /\ tx \notin Disallowed \cup Unrecoverable

(* The answer of a transaction that is not committed. *)
LEMMA NotTaken ==
  ASSUME NEW at, NEW tx, Acceptance(at, tx), Matches(at)',
         phase' = "ready", ~exhausted', result' \in {"invalid_tx", "gas_limit"},
         Passed(at, tx) \/ (~(Needs(at, tx) > BlockLimit) /\ ~Run[tx][at.state].valid)
  PROVE  Answered(at, tx)'
<1>1. Taken(at, tx) = at /\ ~Fits(at, tx)
  BY Zenon, TakenCases DEF Fits
<1>2. ~Taken(at, tx).stop
  BY <1>1 DEF Acceptance
<1>3. Matches(Taken(at, tx))'
  BY <1>1
<1>4. result' # "committed" /\ result' # "zk_limit" /\ result' # "fatal"
  OBVIOUS
<1> QED
  BY <1>1, <1>2, <1>3, <1>4 DEF Answered

(* The answer of a transaction that runs out of zk gas. *)
LEMMA OverLimit ==
  ASSUME NEW at, NEW tx, Acceptance(at, tx), Matches(at)',
         phase' = "ready", exhausted' = TRUE, result' = "zk_limit",
         ~Passed(at, tx), Needs(at, tx) > BlockLimit
  PROVE  Answered(at, tx)'
<1>1. Taken(at, tx) = [at EXCEPT !.stop = TRUE] /\ ~Fits(at, tx)
  BY Zenon, TakenCases DEF Fits
<1>2. /\ Taken(at, tx).stop
      /\ Taken(at, tx).body = at.body /\ Taken(at, tx).state = at.state
      /\ Taken(at, tx).zk = at.zk /\ Taken(at, tx).gas = at.gas
  BY <1>1 DEF Acceptance, TakeState
<1>3. Matches(Taken(at, tx))'
  BY <1>2 DEF Matches
<1> QED
  BY <1>1, <1>2, <1>3 DEF Answered

(* The types behind a decision. *)
LEMMA AcceptanceTypes ==
  ASSUME NEW at, NEW tx, Acceptance(at, tx)
  PROVE  /\ at.zk \in Nat /\ at.gas \in Nat /\ at.state \in States
         /\ GasLimit[tx] \in Nat /\ TxZkGas(tx, at.state) \in Nat /\ TxIntrinsic \in Nat
         /\ Run[tx][at.state].work \in Seq(WorkItem)
         /\ TxIntrinsic <= TxZkGas(tx, at.state)
<1>1. at.zk \in Nat /\ at.gas \in Nat /\ at.state \in States /\ tx \in Txs
  BY DEF Acceptance, TakeState
<1>2. GasLimit[tx] \in Nat /\ TxIntrinsic \in Nat /\ Run[tx][at.state] \in RunResult
  BY <1>1, ExecutorAssumption, MeterAssumption
<1>3. Run[tx][at.state].work \in Seq(WorkItem)
  BY <1>2 DEF RunResult
<1>4. TxZkGas(tx, at.state) \in Nat
  BY <1>1, TxZkGasType
<1>5. 0 \in 0 .. Len(Run[tx][at.state].work)
  BY <1>3
<1>6. TxIntrinsic <= TxZkGas(tx, at.state)
  BY <1>3, <1>5, RunningGrows, RunningZkGasSteps DEF TxZkGas
<1> QED
  BY <1>1, <1>2, <1>3, <1>4, <1>6

(* execute_transaction begins. *)
LEMMA CallAnswers ==
  ASSUME IInv, NEW at, NEW tx, Acceptance(at, tx), Matches(at), ~exhausted, phase = "ready",
         RefuseExhausted \/ RefuseGasLimit(tx) \/ StartTransact(tx)
  PROVE  Running(at, tx)' \/ Answered(at, tx)'
<1>1. /\ Exact(meter) /\ meter.block \in Nat /\ gasUsed \in Nat /\ BlockGasLimit \in Nat
      /\ exhausted = FALSE /\ BlockLimit \in Nat
  BY ExecutorAssumption, MeterAssumption
  DEF IInv, TypeOK, BudgetExact, Exact, Meter, U64
<1>2. /\ at.zk \in Nat /\ at.gas \in Nat /\ GasLimit[tx] \in Nat
      /\ TxZkGas(tx, at.state) \in Nat /\ TxIntrinsic \in Nat
      /\ TxIntrinsic <= TxZkGas(tx, at.state)
  BY AcceptanceTypes
<1>3. meter.block = at.zk /\ gasUsed = at.gas
  BY DEF Matches
<1>4. CASE RefuseExhausted
  BY <1>4 DEF RefuseExhausted
<1>5. CASE RefuseGasLimit(tx)
  <2>1. Passed(at, tx)
    BY <1>1, <1>2, <1>3, <1>5 DEF RefuseGasLimit, Passed
  <2>2. /\ Matches(at)' /\ phase' = "ready" /\ ~exhausted'
        /\ result' \in {"invalid_tx", "gas_limit"}
    BY <1>5 DEF RefuseGasLimit, ReturnTo, Matches
  <2> QED
    BY <2>1, <2>2, NotTaken
<1>6. CASE StartTransact(tx)
  <2>1. ~Passed(at, tx)
    BY <1>1, <1>2, <1>3, <1>6 DEF StartTransact, Passed, Acceptance
  <2>2. /\ ResetTransaction(meter).block = meter.block
        /\ ResetTransaction(meter).tx = 0
        /\ ResetTransaction(meter).remaining = BlockLimit - meter.block
    BY <1>1, ResetExact
  <2>3. CASE ChargeExceeds(ResetTransaction(meter), TxIntrinsic)
    <3>1. Overflow
      BY <1>6, <2>3 DEF StartTransact
    <3>2. at.zk + TxIntrinsic > BlockLimit
      BY <1>1, <1>2, <1>3, <2>2, <2>3, MeterAssumption DEF ChargeExceeds
    <3>3. Needs(at, tx) > BlockLimit
      BY <1>1, <1>2, <3>2 DEF Needs
    <3>4. /\ meter'.block = meter.block /\ exhausted' = TRUE /\ phase' = "ready"
          /\ result' = "zk_limit"
      BY <2>2, <3>1 DEF Overflow, ResetCurrentTransactionZkGas, ReturnTo
    <3>5. Matches(at)'
      BY <3>1, <3>4 DEF Overflow, ReturnTo, Matches
    <3> QED
      BY <2>1, <3>3, <3>4, <3>5, OverLimit
  <2>4. CASE ~ChargeExceeds(ResetTransaction(meter), TxIntrinsic)
    <3>1. /\ meter' = ChargeAmount(ResetTransaction(meter), TxIntrinsic)
          /\ phase' = "running" /\ cur' = tx /\ pos' = 0
          /\ UNCHANGED <<exhausted, gasUsed, state, receipts>>
      BY <1>6, <2>4 DEF StartTransact
    <3>2. meter'.block = meter.block
      BY <2>2, <3>1 DEF ChargeAmount
    <3>3. Matches(at)'
      BY <3>1, <3>2 DEF Matches
    <3>4. Running(at, tx)'
      BY <3>1, <3>3 DEF Running
    <3> QED
      BY <3>4
  <2> QED
    BY <2>3, <2>4
<1> QED
  BY <1>4, <1>5, <1>6

(* A running transaction was admitted, so the reference does not pass it. *)
LEMMA RunningAdmitted ==
  ASSUME IInv, NEW at, NEW tx, Acceptance(at, tx), Running(at, tx)
  PROVE  /\ ~Passed(at, tx)
         /\ CurRun = Run[tx][at.state]
<1>1. gasUsed + GasLimit[cur] <= BlockGasLimit
  BY DEF IInv, AdmittedGasFits, Running
<1>2. at.gas + GasLimit[tx] <= BlockGasLimit
  BY <1>1 DEF Running, Matches
<1>3. at.gas \in Nat /\ GasLimit[tx] \in Nat /\ BlockGasLimit \in Nat
  BY AcceptanceTypes, ExecutorAssumption
<1>4. ~(at.gas + GasLimit[tx] > BlockGasLimit)
  BY <1>2, <1>3
<1>5. cur = tx /\ state = at.state
  BY DEF Running, Matches
<1> QED
  BY <1>4, <1>5 DEF Passed, Acceptance, CurRun

(* The EVM rejects the transaction, which had paid its intrinsic zk gas. *)
LEMMA InvalidAnswers ==
  ASSUME IInv, WorkFrom(GenesisState), NEW at, NEW tx, Acceptance(at, tx), Running(at, tx),
         TransactInvalid
  PROVE  Answered(at, tx)'
<1>1. ~Run[tx][at.state].valid /\ pos = 0 /\ phase = "running"
  BY RunningAdmitted DEF TransactInvalid
<1>2. Run[tx][at.state].work \in Seq(WorkItem) /\ at.zk \in Nat /\ TxIntrinsic \in Nat
  BY AcceptanceTypes
<1>3. meter.tx = TxIntrinsic
  <2>1. meter.tx = RunningZkGas(Run[tx][at.state].work)[0]
    BY <1>1, RunningAdmitted DEF WorkFrom
  <2> QED
    BY <1>2, <2>1, RunningZkGasSteps
<1>4. /\ Exact(meter) /\ BlockLimit \in Nat /\ meter.remaining \in Nat
      /\ meter.block + meter.tx + meter.remaining = BlockLimit
  BY MeterAssumption DEF IInv, TypeOK, BudgetExact, Exact, Meter, U64
<1>5. meter.block = at.zk
  BY DEF Running, Matches
<1>6. ~(at.zk + TxIntrinsic > BlockLimit)
  BY <1>2, <1>3, <1>4, <1>5
<1>7. ~(Needs(at, tx) > BlockLimit)
  BY <1>1, <1>6 DEF Needs
<1>8. meter'.block = meter.block
  BY <1>4, ResetExact DEF TransactInvalid, ResetCurrentTransactionZkGas
<1>9. /\ Matches(at)' /\ phase' = "ready" /\ ~exhausted'
      /\ result' \in {"invalid_tx", "gas_limit"}
  BY <1>8 DEF TransactInvalid, ReturnTo, Running, Matches
<1> QED
  BY <1>1, <1>7, <1>9, NotTaken

(* A charge that fits keeps the transaction running; one that does not fit  *)
(* shows that the whole transaction does not.                               *)
LEMMA ChargeAnswers ==
  ASSUME IInv, WorkFrom(GenesisState), NEW at, NEW tx, Acceptance(at, tx), Running(at, tx),
         TransactCharge
  PROVE  Running(at, tx)' \/ Answered(at, tx)'
<1> DEFINE work == Run[tx][at.state].work
           w == work[pos + 1]
<1>1. /\ ~Passed(at, tx) /\ CurRun = Run[tx][at.state]
      /\ Run[tx][at.state].valid /\ pos < Len(work) /\ phase = "running"
  BY RunningAdmitted DEF TransactCharge
<1>2. /\ work \in Seq(WorkItem) /\ at.zk \in Nat /\ pos \in Nat
      /\ TxZkGas(tx, at.state) \in Nat
  BY AcceptanceTypes DEF IInv, TypeOK
<1>3. pos + 1 \in 1 .. Len(work) /\ pos + 1 \in 0 .. Len(work) /\ (pos + 1) - 1 = pos
  <2> HIDE DEF work
  <2> QED
    BY <1>1, <1>2
<1>4. w \in WorkItem
  <2> HIDE DEF work
  <2> QED
    BY <1>2, <1>3
<1>5. meter.block = at.zk
  BY DEF Running, Matches
<1>6. IF WorkExceeds(meter, w) THEN Overflow
      ELSE /\ meter' = ChargeWork(meter, w)
           /\ pos' = pos + 1
           /\ UNCHANGED <<exhausted, gasUsed, state, receipts, phase, cur>>
  BY <1>1 DEF TransactCharge
<1>7. /\ Exact(meter) /\ BlockLimit \in Nat /\ meter.remaining \in Nat /\ meter.tx \in Nat
      /\ meter.block \in Nat /\ MaxU64 \in Nat /\ BlockLimit <= MaxU64
      /\ meter.block + meter.tx + meter.remaining = BlockLimit
  BY MeterAssumption DEF IInv, TypeOK, BudgetExact, Exact, Meter, U64
<1>8. CASE WorkExceeds(meter, w)
  <2>1. Overflow
    BY <1>6, <1>8
  <2>2. meter.tx = RunningZkGas(work)[pos]
    BY <1>1 DEF WorkFrom
  <2>3. RunningZkGas(work)[pos + 1] = meter.tx + WorkAmount(w)
    <3> HIDE DEF work
    <3> QED
      BY <1>2, <1>3, <2>2, RunningZkGasSteps
  <2>4. /\ RunningZkGas(work)[pos + 1] \in Nat
        /\ RunningZkGas(work)[pos + 1] <= TxZkGas(tx, at.state)
    BY Zenon, <1>2, <1>3, RunningGrows DEF TxZkGas
  <2>5. WorkAmount(w) \in Nat
    <3>1. w.raw \in Nat /\ w.multiplier \in Nat
      BY <1>4, MeterAssumption DEF WorkItem, U64
    <3> QED
      BY <3>1 DEF WorkAmount
  <2>6. \/ WorkAmount(w) > MaxU64
        \/ WorkAmount(w) > meter.remaining
        \/ meter.tx + WorkAmount(w) > MaxU64
    BY <1>8 DEF WorkExceeds, ChargeExceeds
  <2>7. meter.block + (meter.tx + WorkAmount(w)) > BlockLimit
    <3> HIDE DEF w
    <3> QED
      BY <1>7, <2>5, <2>6
  <2>8. at.zk + TxZkGas(tx, at.state) > BlockLimit
    <3> HIDE DEF w, work
    <3> QED
      BY <1>2, <1>5, <1>7, <2>3, <2>4, <2>7
  <2>9. Needs(at, tx) > BlockLimit
    BY <1>1, <2>8 DEF Needs
  <2>10. /\ meter'.block = meter.block /\ exhausted' = TRUE /\ phase' = "ready"
         /\ result' = "zk_limit"
    BY <1>7, <2>1, ResetExact DEF Overflow, ResetCurrentTransactionZkGas, ReturnTo
  <2>11. Matches(at)'
    BY <2>1, <2>10 DEF Overflow, ReturnTo, Running, Matches
  <2> QED
    BY <1>1, <2>9, <2>10, <2>11, OverLimit
<1>9. CASE ~WorkExceeds(meter, w)
  <2>1. meter'.block = meter.block
    <3> HIDE DEF w
    <3> QED
      BY Zenon, <1>4, <1>6, <1>7, <1>9, WorkExact
  <2>2. UNCHANGED <<exhausted, gasUsed, state, receipts, phase, cur>>
    BY <1>6, <1>9
  <2>3. CurRun' = CurRun /\ CurRun.valid
    BY <1>1, <2>2 DEF CurRun
  <2>4. Matches(at)'
    BY <2>1, <2>2 DEF Running, Matches
  <2>5. Running(at, tx)'
    BY <2>2, <2>3, <2>4 DEF Running
  <2> QED
    BY <2>5
<1> QED
  BY <1>8, <1>9

(* The pre-check after transact never fails. *)
LEMMA DoneAnswers ==
  ASSUME IInv, NEW at, NEW tx, Acceptance(at, tx), Running(at, tx), TransactDone
  PROVE  Running(at, tx)'
<1>1. ~CommitWouldExceed(meter)
  BY CommitFits DEF IInv, TypeOK, BudgetExact, Exact
<1>2. /\ phase' = "executed" /\ CurRun.valid
      /\ UNCHANGED <<meter, exhausted, gasUsed, state, receipts, cur>>
  BY <1>1 DEF TransactDone
<1>3. CurRun' = CurRun
  BY <1>2 DEF CurRun
<1> QED
  BY <1>2, <1>3 DEF Running, Matches

(* A commit is exactly what the reference takes. *)
LEMMA CommitAnswers ==
  ASSUME IInv, WorkFrom(GenesisState), NEW at, NEW tx, Acceptance(at, tx), Running(at, tx),
         Commit
  PROVE  Answered(at, tx)'
<1>1. /\ ~Passed(at, tx) /\ CurRun = Run[tx][at.state]
      /\ phase = "executed" /\ Run[tx][at.state].valid
  BY RunningAdmitted DEF Commit, Running
<1>2. /\ Exact(meter) /\ BlockLimit \in Nat /\ meter.remaining \in Nat /\ meter.tx \in Nat
      /\ meter.block \in Nat
      /\ meter.block + meter.tx + meter.remaining = BlockLimit
  BY MeterAssumption DEF IInv, TypeOK, BudgetExact, Exact, Meter, U64
<1>3. meter.tx = TxZkGas(tx, at.state)
  BY <1>1 DEF WorkFrom, TxZkGas
<1>4. receipts = at.body /\ state = at.state /\ meter.block = at.zk /\ gasUsed = at.gas /\ cur = tx
  BY DEF Running, Matches
<1>5. ~(at.zk + TxZkGas(tx, at.state) > BlockLimit)
  BY <1>2, <1>3, <1>4
<1>6. ~(Needs(at, tx) > BlockLimit)
  BY <1>1, <1>5 DEF Needs
<1>7. Fits(at, tx)
  BY <1>1, <1>6 DEF Fits
<1>8. /\ meter' = CommitTransaction(meter)
      /\ gasUsed' = gasUsed + CurRun.gas
      /\ state' = CurRun.next
      /\ receipts' = Append(receipts, cur)
      /\ phase' = "ready" /\ result' = "committed" /\ exhausted' = exhausted
  BY <1>2, CommitFits DEF Commit
<1>9. meter'.block = at.zk + TxZkGas(tx, at.state)
  BY <1>3, <1>4, <1>8 DEF CommitTransaction
<1>10. /\ Taken(at, tx).body = Append(at.body, tx)
       /\ Taken(at, tx).state = Run[tx][at.state].next
       /\ Taken(at, tx).zk = at.zk + TxZkGas(tx, at.state)
       /\ Taken(at, tx).gas = at.gas + Run[tx][at.state].gas
       /\ ~Taken(at, tx).stop
  BY <1>7, TakenCases DEF Fits
<1>11. Matches(Taken(at, tx))'
  BY <1>1, <1>4, <1>8, <1>9, <1>10 DEF Matches
<1>12. ~exhausted'
  BY <1>8 DEF Running
<1> QED
  BY Zenon, <1>7, <1>8, <1>10, <1>11, <1>12 DEF Answered

(* execute_transaction goes on to its answer. *)
LEMMA ExecuteAnswers ==
  ASSUME IInv, WorkFrom(GenesisState), NEW at, NEW tx, Acceptance(at, tx), Running(at, tx),
         TransactInvalid \/ TransactFatal \/ TransactCharge \/ TransactDone \/ Commit
  PROVE  Running(at, tx)' \/ Answered(at, tx)'
<1>1. CASE TransactFatal
  BY <1>1 DEF TransactFatal, ReturnTo, Answered
<1> QED
  BY <1>1, InvalidAnswers, ChargeAnswers, DoneAnswers, CommitAnswers

-----------------------------------------------------------------------------
(* The drivers.                                                             *)

(* What each driver loops over, how much of it is behind it, and what the   *)
(* reference has taken of that part.                                        *)
Input ==
  IF driver = "import" THEN block.body
  ELSE IF driver = "prove" THEN list
  ELSE DecodeRecovered(list)

Done == Len(Input) - Len(todo)

At == TakenOf(Input)[Done]

(* Import and the prover execute disallowed types, the reference does not.  *)
Comparable ==
  driver \in {"import", "prove"} => \A i \in DOMAIN Input : Input[i] \notin Disallowed

Anchored(txs) == txs # <<>> => txs[1] \in Anchors

ExecutorInv == IInv /\ WorkFrom(GenesisState) /\ reserved = 0

(* The loop's bookkeeping. *)
PositionInv ==
  /\ Input \in Seq(Txs) /\ todo \in Seq(Txs) /\ Len(todo) <= Len(Input)
  /\ \A i \in 1 .. Len(todo) : todo[i] = Input[Done + i]
  /\ awaiting => todo # <<>>
  /\ ~awaiting => phase \in {"ready", "finished"}
  /\ phase = "finished" => todo = <<>> /\ ~awaiting
  /\ atAnchor => Done = 0
  /\ driver # "import" => Anchored(Input)
  /\ driver # "prove" => Recovered(Input)

(* The driver follows the reference; an import has lost nothing so far. *)
FollowInv ==
  Comparable =>
    /\ ~awaiting => /\ Matches(At)
                    /\ exhausted <=> At.stop
                    /\ todo # <<>> => ~At.stop
    /\ awaiting => /\ Acceptance(At, Head(todo))
                   /\ Running(At, Head(todo)) \/ Answered(At, Head(todo))
    /\ driver = "import" => /\ Len(At.body) = Done
                            /\ \A i \in 1 .. Done : At.body[i] = Input[i]

EndInv ==
  phase = "finished" =>
    (result = "difficulty_mismatch" <=>
       driver \in {"import", "witness"} /\ block.difficulty # meter.block)

LEMMA FreshExecutor == Init => ExecutorInv
BY InitIInv, FreshWork, ExecutorAssumption DEF Init, NewMeter, ExecutorInv

LEMMA NewExecutorInv == NewExecutor => ExecutorInv'
<1>1. Init' => ExecutorInv'
  BY FreshExecutor, PTL
<1>2. NewExecutor => Init'
  BY DEF NewExecutor, Init
<1> QED
  BY <1>1, <1>2

LEMMA ExecutorSteps ==
  ASSUME ExecutorInv, [Next]_vars, reserved' = reserved
  PROVE  ExecutorInv'
BY NextIInv, NextWork, ExecutorAssumption DEF ExecutorInv

LEMMA AtType ==
  ASSUME PositionInv
  PROVE  Done \in 0 .. Len(Input) /\ At \in TakeState
<1>1. Done \in 0 .. Len(Input) /\ Input \in Seq(Txs)
  BY DEF PositionInv, Done
<1> QED
  BY <1>1, TakenSteps DEF At

(* The head of what is left is the next transaction of the input. *)
LEMMA HeadIsNext ==
  ASSUME PositionInv, todo # <<>>
  PROVE  /\ Done + 1 \in 1 .. Len(Input)
         /\ Head(todo) = Input[Done + 1]
         /\ Head(todo) \in Txs
         /\ TakenOf(Input)[Done + 1] = Taken(At, Head(todo))
<1>1. /\ Input \in Seq(Txs) /\ todo \in Seq(Txs) /\ Len(todo) <= Len(Input)
      /\ \A i \in 1 .. Len(todo) : todo[i] = Input[Done + i]
  BY DEF PositionInv
<1>2. Len(todo) > 0 /\ Head(todo) = todo[1] /\ 1 \in 1 .. Len(todo) /\ Head(todo) \in Txs
  BY <1>1
<1>3. Done + 1 \in 1 .. Len(Input) /\ (Done + 1) - 1 = Done
  BY <1>1, <1>2 DEF Done
<1>4. Head(todo) = Input[Done + 1]
  BY <1>1, <1>2
<1>5. TakenOf(Input)[Done + 1] = Taken(TakenOf(Input)[Done], Input[Done + 1])
  BY <1>1, <1>3, TakenSteps
<1> QED
  BY <1>2, <1>3, <1>4, <1>5 DEF At

LEMMA SameInput ==
  ASSUME UNCHANGED <<list, driver, block>>
  PROVE  /\ Input' = Input
         /\ Comparable' <=> Comparable
<1>1. Input' = Input
  BY DEF Input
<1> QED
  BY <1>1 DEF Comparable

(* The loop goes on to the next transaction. *)
LEMMA Advanced ==
  ASSUME PositionInv, todo # <<>>, Advance, phase' = "ready"
  PROVE  PositionInv' /\ Done' = Done + 1 /\ At' = Taken(At, Head(todo))
<1>1. /\ Input' = Input /\ todo' = Tail(todo) /\ atAnchor' = FALSE /\ awaiting' = FALSE
      /\ driver' = driver
  BY SameInput DEF Advance
<1>2. /\ Input \in Seq(Txs) /\ todo \in Seq(Txs) /\ Len(todo) <= Len(Input)
      /\ \A i \in 1 .. Len(todo) : todo[i] = Input[Done + i]
  BY DEF PositionInv
<1>3. /\ Len(todo) \in Nat /\ Len(todo) > 0 /\ Len(Tail(todo)) = Len(todo) - 1
      /\ Tail(todo) \in Seq(Txs)
      /\ \A i \in 1 .. Len(todo) - 1 : Tail(todo)[i] = todo[i + 1]
  BY <1>2
<1>4. Done' = Done + 1 /\ Done \in Nat
  BY <1>1, <1>2, <1>3 DEF Done
<1>5. \A i \in 1 .. Len(todo)' : todo'[i] = Input'[Done' + i]
  <2> SUFFICES ASSUME NEW i \in 1 .. Len(todo) - 1
               PROVE  Tail(todo)[i] = Input[(Done + 1) + i]
    BY <1>1, <1>3, <1>4
  <2>1. i + 1 \in 1 .. Len(todo) /\ Done + (i + 1) = (Done + 1) + i
    BY <1>3, <1>4
  <2> QED
    BY <1>2, <1>3, <2>1
<1>6. PositionInv'
  BY <1>1, <1>2, <1>3, <1>5 DEF PositionInv
<1>7. At' = TakenOf(Input)[Done + 1]
  BY <1>1, <1>4 DEF At
<1> QED
  BY <1>4, <1>6, <1>7, HeadIsNext

(* The loop is left. *)
LEMMA Stopped ==
  ASSUME PositionInv, StopLoop, phase' = "ready"
  PROVE  PositionInv' /\ At' = Reached(Input) /\ Done' = Len(Input) /\ todo' = <<>>
<1>1. /\ Input' = Input /\ todo' = <<>> /\ atAnchor' = FALSE /\ awaiting' = FALSE
      /\ driver' = driver
  BY SameInput DEF StopLoop
<1>2. Input \in Seq(Txs) /\ <<>> \in Seq(Txs) /\ Len(<<>>) = 0 /\ Len(Input) \in Nat
  BY DEF PositionInv
<1>3. Done' = Len(Input)
  BY <1>1, <1>2 DEF Done
<1>4. At' = Reached(Input)
  BY <1>1, <1>3 DEF At, Reached
<1>5. PositionInv'
  BY <1>1, <1>2 DEF PositionInv
<1> QED
  BY <1>1, <1>3, <1>4, <1>5

LoopInv == PositionInv /\ FollowInv /\ EndInv

(* The answer of a call is taken and the loop goes on. *)
LEMMA AnswerAdvances ==
  ASSUME LoopInv, Returned, result # "fatal", result # "zk_limit" \/ ~exhausted,
         driver = "import" => result = "committed", Advance, UNCHANGED vars
  PROVE  LoopInv'
<1>1. PositionInv /\ FollowInv /\ awaiting /\ phase = "ready" /\ todo # <<>>
  BY DEF LoopInv, Returned, PositionInv
<1>2. /\ phase' = "ready" /\ exhausted' = exhausted /\ awaiting' = FALSE /\ driver' = driver
      /\ Input' = Input /\ (Comparable' <=> Comparable)
  BY <1>1, SameInput DEF Advance, vars
<1>3. PositionInv' /\ Done' = Done + 1 /\ At' = Taken(At, Head(todo))
  BY <1>1, <1>2, Advanced
<1>4. EndInv'
  BY <1>2 DEF EndInv
<1>5. FollowInv'
  <2> SUFFICES ASSUME Comparable
               PROVE  /\ Matches(At)' /\ (exhausted' <=> At'.stop) /\ ~At'.stop
                      /\ driver = "import" => /\ Len(At'.body) = Done'
                                              /\ \A i \in 1 .. Done' : At'.body[i] = Input[i]
    BY Zenon, <1>2 DEF FollowInv
  <2>1. Answered(At, Head(todo)) /\ Acceptance(At, Head(todo))
    BY <1>1 DEF FollowInv, Running
  <2>2. /\ Matches(Taken(At, Head(todo)))
        /\ exhausted <=> Taken(At, Head(todo)).stop
        /\ exhausted <=> result = "zk_limit"
        /\ result = "committed" <=> Fits(At, Head(todo))
    BY <2>1 DEF Answered
  <2>3. Matches(At)'
    BY <1>3, <2>2 DEF Matches, vars
  <2>4. (exhausted' <=> At'.stop) /\ ~At'.stop
    BY <1>2, <1>3, <2>2
  <2>5. ASSUME driver = "import"
        PROVE  Len(At'.body) = Done' /\ \A i \in 1 .. Done' : At'.body[i] = Input[i]
    <3>1. At \in TakeState /\ Head(todo) \in Txs
      BY <2>1 DEF Acceptance
    <3>2. At'.body = Append(At.body, Head(todo))
      BY <1>3, <2>2, <2>5, <3>1, TakenBody
    <3>3. /\ At.body \in Seq(Txs) /\ Len(At.body) = Done
          /\ \A i \in 1 .. Done : At.body[i] = Input[i]
      BY <1>1, <2>5, <3>1 DEF FollowInv, TakeState
    <3>4. Done \in Nat /\ Head(todo) = Input[Done + 1]
      BY <1>1, AtType, HeadIsNext
    <3> HIDE DEF At, Done, Input
    <3> QED
      BY <1>3, <3>1, <3>2, <3>3, <3>4
  <2> QED
    BY <2>3, <2>4, <2>5
<1> QED
  BY <1>3, <1>4, <1>5 DEF LoopInv

(* The answer of a call ends the loop. *)
LEMMA AnswerStops ==
  ASSUME LoopInv, Returned, result # "fatal", result = "zk_limit" \/ exhausted,
         driver # "import", StopLoop, UNCHANGED vars
  PROVE  LoopInv'
<1>1. PositionInv /\ FollowInv /\ awaiting /\ phase = "ready" /\ todo # <<>>
  BY DEF LoopInv, Returned, PositionInv
<1>2. /\ phase' = "ready" /\ exhausted' = exhausted /\ awaiting' = FALSE /\ driver' = driver
      /\ Input' = Input /\ (Comparable' <=> Comparable)
  BY <1>1, SameInput DEF StopLoop, vars
<1>3. PositionInv' /\ At' = Reached(Input) /\ todo' = <<>>
  BY <1>1, <1>2, Stopped
<1>4. EndInv'
  BY <1>2 DEF EndInv
<1>5. FollowInv'
  <2> SUFFICES ASSUME Comparable PROVE Matches(At)' /\ (exhausted' <=> At'.stop)
    BY ZenonT(30), <1>2, <1>3 DEF FollowInv
  <2>1. Answered(At, Head(todo))
    BY <1>1 DEF FollowInv, Running
  <2>2. /\ Matches(Taken(At, Head(todo)))
        /\ exhausted <=> Taken(At, Head(todo)).stop
        /\ exhausted <=> result = "zk_limit"
    BY <2>1 DEF Answered
  <2>3. /\ Input \in Seq(Txs) /\ Done + 1 \in 0 .. Len(Input)
        /\ TakenOf(Input)[Done + 1] = Taken(At, Head(todo))
    <3>1. Done + 1 \in 1 .. Len(Input) /\ TakenOf(Input)[Done + 1] = Taken(At, Head(todo))
      BY <1>1, HeadIsNext
    <3> QED
      BY <1>1, <3>1 DEF PositionInv
  <2>4. TakenOf(Input)[Done + 1].stop
    BY <2>2, <2>3
  <2>5. At' = Taken(At, Head(todo))
    BY <1>3, <2>3, <2>4, StopIsFinal
  <2> QED
    BY <1>2, <2>2, <2>5 DEF Matches, vars
<1> QED
  BY <1>3, <1>4, <1>5 DEF LoopInv

(* What a driver skips the reference passes over. *)
LEMMA SkipFollows ==
  ASSUME LoopInv, Skip
  PROVE  LoopInv'
<1>1. /\ PositionInv /\ FollowInv /\ ~awaiting /\ phase = "ready" /\ todo # <<>>
      /\ SkipsSilently(Head(todo)) /\ Advance /\ UNCHANGED vars
  BY DEF LoopInv, Skip, Working
<1>2. /\ phase' = "ready" /\ exhausted' = exhausted /\ awaiting' = FALSE /\ driver' = driver
      /\ Input' = Input /\ (Comparable' <=> Comparable)
  BY <1>1, SameInput DEF Advance, vars
<1>3. PositionInv' /\ Done' = Done + 1 /\ At' = Taken(At, Head(todo))
  BY <1>1, <1>2, Advanced
<1>4. driver # "import" /\ Head(todo) \in Disallowed \cup Unrecoverable
  BY <1>1 DEF SkipsSilently
<1>5. Passed(At, Head(todo))
  BY <1>4 DEF Passed
<1>6. At' = At
  BY <1>3, <1>5, TakenCases
<1>7. EndInv'
  BY <1>2 DEF EndInv
<1>8. FollowInv'
  <2> SUFFICES ASSUME Comparable PROVE Matches(At)' /\ (exhausted' <=> At'.stop) /\ ~At'.stop
    BY Zenon, <1>2, <1>4 DEF FollowInv
  <2>1. Matches(At) /\ (exhausted <=> At.stop) /\ ~At.stop
    BY <1>1 DEF FollowInv
  <2> QED
    BY <1>1, <1>6, <2>1 DEF Matches, vars
<1> QED
  BY <1>3, <1>7, <1>8 DEF LoopInv

(* What a driver submits the reference does not pass over for its type or   *)
(* signer: the filters agree because the lists start with an anchor.        *)
LEMMA SubmittedIsAcceptable ==
  ASSUME PositionInv, Comparable, driver \in Drivers, todo # <<>>, ~SkipsSilently(Head(todo))
  PROVE  Head(todo) \notin Disallowed \cup Unrecoverable
<1> DEFINE tx == Head(todo)
<1>1. tx = Input[Done + 1] /\ Done + 1 \in DOMAIN Input /\ Input # <<>>
  <2>1. Input \in Seq(Txs)
    BY DEF PositionInv
  <2>2. Done + 1 \in 1 .. Len(Input) /\ tx = Input[Done + 1]
    BY HeadIsNext
  <2> QED
    BY <2>1, <2>2
<1>2. driver \in {"import", "prove"} => tx \notin Disallowed
  BY <1>1 DEF Comparable
<1>3. driver # "prove" => tx \notin Unrecoverable
  BY <1>1 DEF PositionInv, Recovered
<1>4. atAnchor /\ driver # "import" => tx \notin Disallowed \cup Unrecoverable
  <2> SUFFICES ASSUME atAnchor, driver # "import" PROVE tx \in Anchors
    BY PipelineAssumption
  <2>1. Done + 1 = 1 /\ Anchored(Input)
    BY DEF PositionInv
  <2> QED
    BY <1>1, <2>1 DEF Anchored
<1>5. driver = "build" => tx \notin Disallowed
  BY DEF SkipsSilently
<1>6. driver = "witness" => tx \notin Disallowed \/ atAnchor
  BY DEF SkipsSilently
<1>7. driver = "prove" => tx \notin Unrecoverable \/ atAnchor
  BY DEF SkipsSilently
<1> QED
  BY Zenon, <1>2, <1>3, <1>4, <1>5, <1>6, <1>7 DEF Drivers

(* A step inside a call leaves the loop where it is. *)
LEMMA InsideCall ==
  ASSUME PositionInv, UNCHANGED <<list, driver, block, todo, atAnchor>>, awaiting',
         phase' # "finished", todo # <<>>
  PROVE  PositionInv' /\ At' = At /\ Done' = Done /\ Head(todo)' = Head(todo)
<1>1. Input' = Input
  BY SameInput
<1>2. Done' = Done
  BY <1>1 DEF Done
<1>3. At' = At
  BY <1>1, <1>2 DEF At
<1>4. PositionInv'
  BY <1>1, <1>2 DEF PositionInv
<1> QED
  BY <1>2, <1>3, <1>4

LEMMA CallFollows ==
  ASSUME ExecutorInv, LoopInv, Call
  PROVE  ExecutorInv' /\ LoopInv'
<1> DEFINE tx == Head(todo)
           Starts == RefuseExhausted \/ RefuseGasLimit(tx) \/ StartTransact(tx)
<1>1. /\ PositionInv /\ FollowInv /\ ~awaiting /\ phase = "ready" /\ todo # <<>>
      /\ driver \in Drivers /\ ~SkipsSilently(tx) /\ Starts
      /\ awaiting' = TRUE /\ UNCHANGED <<list, driver, block, todo, atAnchor>>
  BY DEF LoopInv, Call, Working
<1>2. tx \in Txs /\ At \in TakeState
  BY <1>1, HeadIsNext, AtType
<1>3. Next /\ reserved' = reserved /\ phase' # "finished"
  BY <1>1, <1>2 DEF Next, RefuseExhausted, RefuseGasLimit, StartTransact, Overflow, ReturnTo
<1>4. ExecutorInv'
  BY <1>3, ExecutorSteps
<1>5. PositionInv' /\ At' = At /\ Done' = Done /\ Head(todo)' = tx
  BY <1>1, <1>3, InsideCall
<1>6. Input' = Input /\ (Comparable' <=> Comparable) /\ driver' = driver
  BY <1>1, SameInput
<1>7. EndInv'
  BY <1>3 DEF EndInv
<1>8. FollowInv'
  <2> SUFFICES ASSUME Comparable
               PROVE  /\ Acceptance(At, tx) /\ (Running(At, tx) \/ Answered(At, tx))'
                      /\ driver = "import" => /\ Len(At.body) = Done
                                              /\ \A i \in 1 .. Done : At.body[i] = Input[i]
    <3>1. Acceptance(At, tx)' <=> Acceptance(At, tx)
      BY <1>5 DEF Acceptance
    <3> HIDE DEF tx
    <3> QED
      BY Zenon, <1>1, <1>5, <1>6, <3>1 DEF FollowInv, tx
  <2>1. Matches(At) /\ (exhausted <=> At.stop) /\ ~At.stop
    BY <1>1 DEF FollowInv
  <2>2. Acceptance(At, tx)
    BY <1>1, <1>2, <2>1, SubmittedIsAcceptable DEF Acceptance
  <2>3. Running(At, tx)' \/ Answered(At, tx)'
    <3>1. ASSUME NEW a, NEW t, a = At, t = tx PROVE Running(a, t)' \/ Answered(a, t)'
      BY <1>1, <2>1, <2>2, <3>1, CallAnswers DEF ExecutorInv
    <3> QED
      BY <3>1, <1>5
  <2>4. driver = "import" => /\ Len(At.body) = Done
                             /\ \A i \in 1 .. Done : At.body[i] = Input[i]
    BY Zenon, <1>1 DEF FollowInv
  <2> QED
    BY <2>2, <2>3, <2>4
<1> QED
  BY <1>4, <1>5, <1>7, <1>8 DEF LoopInv

LEMMA ExecuteFollows ==
  ASSUME ExecutorInv, LoopInv, driver \in Drivers, Execute
  PROVE  ExecutorInv' /\ LoopInv'
<1> DEFINE tx == Head(todo)
           Goes == TransactInvalid \/ TransactFatal \/ TransactCharge \/ TransactDone \/ Commit
<1>1. /\ PositionInv /\ FollowInv /\ awaiting /\ todo # <<>> /\ Goes
      /\ awaiting' = awaiting /\ UNCHANGED <<list, driver, block, todo, atAnchor>>
  BY DEF LoopInv, Execute, PositionInv, driverVars
<1>2. Next /\ reserved' = reserved /\ phase' # "finished" /\ phase # "ready"
  BY Zenon, <1>1 DEF Next, TransactInvalid, TransactFatal, TransactCharge, TransactDone, Commit,
     Overflow, ReturnTo
<1>3. ExecutorInv'
  BY <1>2, ExecutorSteps
<1>4. PositionInv' /\ At' = At /\ Done' = Done /\ Head(todo)' = tx
  BY <1>1, <1>2, InsideCall
<1>5. Input' = Input /\ (Comparable' <=> Comparable) /\ driver' = driver
  BY <1>1, SameInput
<1>6. EndInv'
  BY Zenon, <1>2 DEF EndInv
<1>7. FollowInv'
  <2> SUFFICES ASSUME Comparable
               PROVE  /\ Acceptance(At, tx) /\ (Running(At, tx) \/ Answered(At, tx))'
                      /\ driver = "import" => /\ Len(At.body) = Done
                                              /\ \A i \in 1 .. Done : At.body[i] = Input[i]
    <3>1. Acceptance(At, tx)' <=> Acceptance(At, tx)
      BY Zenon, <1>4 DEF Acceptance
    <3> HIDE DEF tx
    <3> QED
      BY ZenonT(30), <1>1, <1>4, <1>5, <3>1 DEF FollowInv, tx
  <2>1. Acceptance(At, tx) /\ Running(At, tx)
    BY <1>1, <1>2 DEF FollowInv, Answered
  <2>2. Running(At, tx)' \/ Answered(At, tx)'
    <3>1. ASSUME NEW a, NEW t, a = At, t = tx PROVE Running(a, t)' \/ Answered(a, t)'
      BY Zenon, <1>1, <2>1, <3>1, ExecuteAnswers DEF ExecutorInv
    <3> QED
      BY <3>1, <1>4
  <2>3. driver = "import" => /\ Len(At.body) = Done
                             /\ \A i \in 1 .. Done : At.body[i] = Input[i]
    BY <1>1 DEF FollowInv
  <2> QED
    BY <2>1, <2>2, <2>3
<1> QED
  BY <1>3, <1>4, <1>6, <1>7 DEF LoopInv

(* finish compares the committed total with the header of the block. *)
LEMMA FinishFollows ==
  ASSUME ExecutorInv, LoopInv, driver \in {"import", "witness"} => block.difficulty \in U64,
         FinishBlock
  PROVE  ExecutorInv' /\ LoopInv'
<1>1. /\ PositionInv /\ FollowInv /\ ~awaiting /\ todo = <<>>
      /\ Finish(ExpectedDifficulty) /\ phase = "ready"
      /\ UNCHANGED <<list, driver, block, todo, atAnchor, awaiting>>
  BY DEF LoopInv, FinishBlock, Finish, driverVars
<1>2. ExpectedDifficulty \in U64 \cup {NoExpectation}
  BY DEF ExpectedDifficulty
<1>3. Next /\ reserved' = reserved /\ phase' = "finished"
  BY <1>1, <1>2 DEF Next, Finish
<1>4. ExecutorInv'
  BY <1>3, ExecutorSteps
<1>5. Input' = Input /\ (Comparable' <=> Comparable) /\ driver' = driver
  BY <1>1, SameInput
<1>6. Done' = Done /\ At' = At
  BY <1>1, <1>5 DEF Done, At
<1>7. PositionInv'
  BY <1>1, <1>3, <1>5, <1>6 DEF PositionInv
<1>8. UNCHANGED <<meter, exhausted, gasUsed, state, receipts>>
  BY <1>1 DEF Finish
<1>9. Matches(At)' <=> Matches(At)
  BY <1>6, <1>8 DEF Matches
<1>10. FollowInv'
  BY Zenon, <1>1, <1>5, <1>6, <1>8, <1>9 DEF FollowInv
<1>11. EndInv'
  <2>1. result' = IF ExpectedDifficulty \in {NoExpectation, meter.block}
                  THEN "finished" ELSE "difficulty_mismatch"
    BY <1>1 DEF Finish
  <2>2. block.difficulty \in U64 => block.difficulty # NoExpectation
    BY DEF U64, NoExpectation
  <2>3. CASE driver \in {"import", "witness"}
    BY <1>1, <1>8, <2>1, <2>2, <2>3 DEF EndInv, ExpectedDifficulty
  <2>4. CASE driver \notin {"import", "witness"}
    BY <1>1, <2>1, <2>4 DEF EndInv, ExpectedDifficulty
  <2> QED
    BY <2>3, <2>4
<1> QED
  BY <1>4, <1>7, <1>10, <1>11 DEF LoopInv

-----------------------------------------------------------------------------
(* Where the blocks come from and how the drivers end.                      *)

OutcomeRecord == [verdict : Verdicts, txs : Seq(Txs), zkGas : U64, state : States]

(* The sealed block is what the reference takes of the list. *)
Sealed ==
  LET r == Reached(DecodeRecovered(list))
  IN  /\ list \in Lists
      /\ block.body = r.body
      /\ block.difficulty = r.zk
      /\ r.zk \in U64
      /\ r.zk = Replay(r.body).zkGas
      /\ outcome["build"] = [verdict |-> "ok", txs |-> r.body, zkGas |-> r.zk, state |-> r.state]

OriginInv ==
  /\ driver \in Drivers \cup {"done"}
  /\ outcome \in [Drivers -> OutcomeRecord]
  /\ driver = "build" => list \in Lists /\ outcome = [d \in Drivers |-> Pending]
  /\ driver = "import" => Built \/ block \in ForeignBlocks
  /\ driver \in {"witness", "prove"} => Built
  /\ Built => Sealed

(* An accepted import ends where the reference ends. *)
ImportInv ==
  /\ ImportIsExact
  /\ outcome["import"].verdict = "ok" =>
       outcome["import"] = [verdict |-> "ok", txs |-> block.body,
                            zkGas |-> Reached(block.body).zk,
                            state |-> Reached(block.body).state]

ReplayInv ==
  Built =>
    /\ outcome["witness"].verdict \in {"ok", "rejected"} => outcome["witness"] = outcome["build"]
    /\ /\ \A i \in DOMAIN list : list[i] \notin Disallowed
       /\ outcome["prove"].verdict \in {"ok", "rejected"}
       => outcome["prove"] = outcome["build"]

PipelineInv ==
  /\ ExecutorInv
  /\ driver \in Drivers => LoopInv
  /\ driver = "done" => ~awaiting
  /\ OriginInv
  /\ ImportInv
  /\ ReplayInv

(* A driver starts on a fresh executor with all of its input to do. *)
LEMMA Started ==
  ASSUME NewExecutor, todo' = Input', atAnchor' = TRUE, awaiting' = FALSE, Input' \in Seq(Txs),
         driver' # "import" => Anchored(Input'), driver' # "prove" => Recovered(Input')
  PROVE  ExecutorInv' /\ LoopInv'
<1>1. ExecutorInv'
  BY NewExecutorInv
<1>2. phase' = "ready" /\ exhausted' = FALSE
  BY DEF NewExecutor
<1>3. Done' = 0
  BY DEF Done
<1>4. At' = NothingTaken
  BY <1>3, TakenSteps DEF At
<1>5. Matches(At)' /\ (exhausted' <=> At'.stop) /\ ~At'.stop /\ Len(At'.body) = 0
  BY <1>4 DEF NewExecutor, NewMeter, NothingTaken, Matches
<1>6. PositionInv'
  <2>1. Len(todo') <= Len(Input') /\ (\A i \in 1 .. Len(todo') : todo'[i] = Input'[Done' + i]) /\ ~awaiting'
    BY <1>3
  <2> QED
    BY Zenon, <1>2, <1>3, <2>1 DEF PositionInv
<1>7. FollowInv'
  <2>1. 1 .. Done' = {} /\ ~awaiting'
    BY <1>3
  <2> QED
    BY Zenon, <1>3, <1>5, <2>1 DEF FollowInv
<1>8. EndInv'
  BY <1>2 DEF EndInv
<1> QED
  BY <1>1, <1>6, <1>7, <1>8 DEF LoopInv

(* The lists and blocks a driver may be given. *)
LEMMA ListDecodes ==
  ASSUME NEW txs \in Lists
  PROVE  /\ txs \in Seq(Txs) /\ Anchored(txs)
         /\ DecodeRecovered(txs) \in Seq(Txs) /\ Anchored(DecodeRecovered(txs))
         /\ Recovered(DecodeRecovered(txs))
<1>1. txs \in Seq(Txs) /\ Anchored(txs)
  BY PipelineAssumption DEF Anchored
<1> QED
  BY <1>1, Decoded DEF Anchored

(* What the import of a block must find to accept it. *)
Importable ==
  LET b == block.body
  IN  /\ \A i \in DOMAIN b : b[i] \notin Disallowed
      /\ ReferenceBody(b) = b
      /\ block.difficulty = Replay(b).zkGas
      /\ b # <<>> => b[1] \in Anchors

(* What a driver ends with agrees with the reference. *)
Ending(v) == [verdict |-> v, txs |-> receipts, zkGas |-> published, state |-> state]

EndsWell(v) ==
  /\ driver = "build" => v \in {"failed", "cancelled"}
  /\ driver = "import" =>
       /\ v \in {"ok", "rejected"} => (v = "ok" <=> Importable)
       /\ v = "ok" => Ending(v) = [verdict |-> "ok", txs |-> block.body,
                                   zkGas |-> Reached(block.body).zk,
                                   state |-> Reached(block.body).state]
  /\ driver = "witness" /\ v \in {"ok", "rejected"} => Ending(v) = outcome["build"]
  /\ /\ driver = "prove" /\ v \in {"ok", "rejected"}
     /\ \A i \in DOMAIN list : list[i] \notin Disallowed
     => Ending(v) = outcome["build"]

LEMMA PendingRecord == Pending \in OutcomeRecord
BY SMT, Z3, ExecutorAssumption, MeterAssumption DEF Pending, OutcomeRecord, Verdicts, U64

LEMMA EndingRecord ==
  ASSUME ExecutorInv, NEW v \in Verdicts
  PROVE  Ending(v) \in OutcomeRecord
BY DEF ExecutorInv, IInv, TypeOK, Ending, OutcomeRecord

(* A driver that ends well hands over to the next one. *)
LEMMA EndPreserves ==
  ASSUME PipelineInv, driver \in Drivers, NEW v \in Verdicts \ {"pending"}, EndsWell(v), End(v)
  PROVE  PipelineInv'
<1>1. ExecutorInv /\ OriginInv /\ ImportInv /\ ReplayInv /\ outcome \in [Drivers -> OutcomeRecord]
  BY DEF PipelineInv, OriginInv
<1>2. /\ outcome' = [outcome EXCEPT ![driver] = Ending(v)] /\ block' = block /\ Follow
  BY DEF End, Ending
<1>3. outcome' \in [Drivers -> OutcomeRecord]
  BY <1>1, <1>2, EndingRecord
<1>4. /\ outcome'[driver] = Ending(v)
      /\ \A d \in Drivers \ {driver} : outcome'[d] = outcome[d]
  BY <1>1, <1>2
<1>5. Ending(v).verdict = v
  BY DEF Ending
<1>6. list' = list
  BY <1>2 DEF Follow, StartDriver
<1>7. Built' <=> Built
  <2>1. CASE driver = "build"
    <3>1. ~Built
      BY SMT, Z3, <1>1, <2>1 DEF OriginInv, Built, Pending, Drivers
    <3>2. outcome'["build"].verdict \in {"failed", "cancelled"}
      BY <1>4, <1>5, <2>1 DEF EndsWell
    <3> QED
      BY Zenon, <3>1, <3>2 DEF Built
  <2>2. CASE driver # "build"
    BY <1>4, <2>2 DEF Built, Drivers
  <2> QED
    BY <2>1, <2>2
<1>8. Built => driver # "build" /\ outcome'["build"] = outcome["build"]
  <2>1. ASSUME driver = "build" PROVE ~Built
    BY SMT, Z3, <1>1, <2>1 DEF OriginInv, Built, Pending, Drivers
  <2> QED
    BY <1>4, <2>1 DEF Drivers
<1>9. Built' => Sealed'
  <2> SUFFICES ASSUME Built PROVE Sealed'
    BY <1>7
  <2> QED
    BY Zenon, <1>1, <1>2, <1>6, <1>8 DEF OriginInv, Sealed
<1>10. ImportInv'
  <2>1. CASE driver = "import"
    <3>1. outcome'["import"] = Ending(v) /\ outcome'["import"].verdict = v
      BY ZenonT(30), <1>4, <1>5, <2>1
    <3> QED
      BY Zenon, <1>2, <2>1, <3>1 DEF ImportInv, ImportIsExact, EndsWell, Importable
  <2>2. CASE driver # "import"
    <3>1. outcome'["import"] = outcome["import"]
      BY <1>4, <2>2 DEF Drivers
    <3> QED
      BY Zenon, <1>1, <1>2, <3>1 DEF ImportInv, ImportIsExact
  <2> QED
    BY Zenon, <2>1, <2>2
<1>11. ReplayInv'
  <2> SUFFICES ASSUME Built PROVE ReplayInv'
    BY Zenon, <1>7 DEF ReplayInv
  <2>1. CASE driver = "witness"
    <3>1. /\ outcome'["witness"] = Ending(v) /\ outcome'["witness"].verdict = v
          /\ outcome'["prove"] = outcome["prove"]
      BY Zenon, <1>4, <1>5, <2>1 DEF Drivers
    <3> QED
      BY <1>1, <1>6, <1>8, <2>1, <3>1 DEF ReplayInv, EndsWell
  <2>2. CASE driver = "prove"
    <3>1. /\ outcome'["prove"] = Ending(v) /\ outcome'["prove"].verdict = v
          /\ outcome'["witness"] = outcome["witness"]
      BY <1>4, <1>5, <2>2 DEF Drivers
    <3> QED
      BY <1>1, <1>6, <1>8, <2>2, <3>1 DEF ReplayInv, EndsWell
  <2>3. CASE driver \notin {"witness", "prove"}
    <3>1. outcome'["prove"] = outcome["prove"] /\ outcome'["witness"] = outcome["witness"]
      BY <1>4, <2>3 DEF Drivers
    <3> QED
      BY <1>1, <1>6, <1>8, <3>1 DEF ReplayInv
  <2> QED
    BY Zenon, <2>1, <2>2, <2>3
<1>12. CASE ~Built \/ driver \notin {"import", "witness"}
  <2>1. driver' = "done" /\ awaiting' = FALSE /\ NewExecutor
    BY <1>2, <1>12 DEF Follow, StartDriver, Built
  <2>2. ExecutorInv'
    BY <2>1, NewExecutorInv
  <2>3. OriginInv'
    BY <1>3, <1>9, <2>1 DEF OriginInv
  <2>4. driver' \notin Drivers
    BY <2>1 DEF Drivers
  <2> QED
    BY <1>10, <1>11, <2>1, <2>2, <2>3, <2>4 DEF PipelineInv
<1>13. CASE Built /\ driver = "import"
  <2>1. driver' = "witness" /\ StartDriver("witness", DecodeRecovered(list))
    BY ZenonT(30), <1>2, <1>13 DEF Follow, StartDriver, Built
  <2>2. Input' = DecodeRecovered(list) /\ todo' = Input' /\ list \in Lists
    BY <1>1, <1>6, <1>13, <2>1 DEF StartDriver, Input, OriginInv, Sealed
  <2>3. Input' \in Seq(Txs) /\ Anchored(Input') /\ Recovered(Input')
    BY <2>2, ListDecodes
  <2>4. ExecutorInv' /\ LoopInv'
    BY Zenon, <2>1, <2>2, <2>3, Started DEF StartDriver
  <2>5. OriginInv'
    BY <1>3, <1>7, <1>9, <1>13, <2>1 DEF OriginInv, Drivers
  <2> QED
    BY <1>10, <1>11, <2>1, <2>4, <2>5 DEF PipelineInv
<1>14. CASE Built /\ driver = "witness"
  <2>1. driver' = "prove" /\ StartDriver("prove", list)
    BY ZenonT(30), <1>2, <1>14 DEF Follow, StartDriver, Built
  <2>2. Input' = list /\ todo' = Input' /\ list \in Lists
    BY <1>1, <1>6, <1>14, <2>1 DEF StartDriver, Input, OriginInv, Sealed
  <2>3. Input' \in Seq(Txs) /\ Anchored(Input')
    BY <2>2, ListDecodes
  <2>4. ExecutorInv' /\ LoopInv'
    BY Zenon, <2>1, <2>2, <2>3, Started DEF StartDriver
  <2>5. OriginInv'
    BY <1>3, <1>7, <1>9, <1>14, <2>1 DEF OriginInv, Drivers
  <2> QED
    BY <1>10, <1>11, <2>1, <2>4, <2>5 DEF PipelineInv
<1> QED
  BY <1>12, <1>13, <1>14

(* At the end of the loop the executor stands where the reference ends. *)
LEMMA FinishedMatches ==
  ASSUME ExecutorInv, LoopInv, phase = "finished", Comparable
  PROVE  /\ receipts = Reached(Input).body
         /\ state = Reached(Input).state
         /\ meter.block = Reached(Input).zk
         /\ published = meter.block
         /\ meter.block = Replay(receipts).zkGas
         /\ driver = "import" => receipts = Input
<1>1. PositionInv /\ FollowInv /\ todo = <<>> /\ ~awaiting /\ Input \in Seq(Txs)
  BY DEF LoopInv, PositionInv
<1>2. Done = Len(Input)
  BY SMT, Z3, <1>1 DEF Done
<1>3. At = Reached(Input)
  BY <1>2 DEF At, Reached
<1>4. Matches(At)
  BY <1>1 DEF FollowInv
<1>5. published = meter.block
  BY DEF ExecutorInv, IInv, PublishedIsCommitted
<1>6. meter.block = Replay(receipts).zkGas
  <2>1. receipts \in Seq(Txs) /\ GenesisState \in States
    BY ExecutorAssumption DEF ExecutorInv, IInv, TypeOK
  <2>2. ReplayFrom(GenesisState, receipts) \in ReplayState
    <3>1. Len(receipts) \in 0 .. Len(receipts)
      BY SMT, Z3, <2>1
    <3> QED
      BY Zenon, <2>1, <3>1, ReplaySteps DEF ReplayFrom
  <2>3. ReplayFrom(GenesisState, receipts).zkGas \in Nat
    BY <2>2 DEF ReplayState
  <2> QED
    BY SMT, Z3, <2>3 DEF ExecutorInv, WorkFrom, CommittedFrom, Replay
<1>7. ASSUME driver = "import" PROVE receipts = Input
  <2>1. Len(receipts) = Len(Input) /\ \A i \in 1 .. Len(Input) : receipts[i] = Input[i]
    BY <1>1, <1>2, <1>4, <1>7 DEF FollowInv, Matches
  <2>2. receipts \in Seq(Txs)
    BY DEF ExecutorInv, IInv, TypeOK
  <2> QED
    BY SMT, Z3, <1>1, <2>1, <2>2
<1> QED
  BY <1>3, <1>4, <1>5, <1>6, <1>7 DEF Matches

(* An import that meets an error would have lost a transaction. *)
LEMMA RejectedIsNotImportable ==
  ASSUME LoopInv, driver = "import", Returned, result \in Recoverable
  PROVE  ~Importable
<1> SUFFICES ASSUME Importable PROVE FALSE
  OBVIOUS
<1>1. Input = block.body /\ Comparable
  BY DEF Input, Comparable, Importable
<1>2. PositionInv /\ FollowInv /\ awaiting /\ phase = "ready" /\ todo # <<>>
  BY DEF LoopInv, Returned, PositionInv
<1>3. Answered(At, Head(todo)) /\ Acceptance(At, Head(todo)) /\ Len(At.body) = Done
  BY <1>1, <1>2 DEF FollowInv, Running
<1>4. ~Fits(At, Head(todo))
  BY <1>3 DEF Answered, Recoverable
<1>5. Taken(At, Head(todo)).body = At.body
  BY <1>3, <1>4, TakenBody DEF Acceptance
<1>6. /\ Input \in Seq(Txs) /\ Done + 1 \in 0 .. Len(Input)
      /\ TakenOf(Input)[Done + 1] = Taken(At, Head(todo)) /\ Done \in Nat
  <2>1. Done + 1 \in 1 .. Len(Input) /\ TakenOf(Input)[Done + 1] = Taken(At, Head(todo))
    BY <1>2, HeadIsNext
  <2>2. Input \in Seq(Txs)
    BY <1>2 DEF PositionInv
  <2>3. Done \in 0 .. Len(Input)
    BY <1>2, AtType
  <2> QED
    BY SMT, Z3, <2>1, <2>2, <2>3
<1>7. Len(TakenOf(Input)[Done + 1].body) < Done + 1
  BY SMT, Z3, <1>3, <1>5, <1>6
<1>8. Reached(Input).body # Input
  BY ZenonT(30), <1>6, <1>7, LossIsFinal
<1> QED
  BY <1>1, <1>8 DEF Importable, ReferenceBody, Reached

(* finish and the consensus checks accept exactly the importable blocks. *)
LEMMA ImportConcludes ==
  ASSUME ExecutorInv, LoopInv, driver = "import", phase = "finished",
         NEW v, v = IF result = "difficulty_mismatch" \/ ~ConsensusAccepts
                    THEN "rejected" ELSE "ok"
  PROVE  EndsWell(v)
<1>1. Input = block.body
  BY DEF Input
<1>2. CASE Comparable
  <2>1. /\ receipts = block.body /\ receipts = Reached(block.body).body
        /\ state = Reached(block.body).state /\ published = Reached(block.body).zk
        /\ published = meter.block /\ meter.block = Replay(block.body).zkGas
    BY <1>1, <1>2, FinishedMatches
  <2>2. \A i \in DOMAIN block.body : block.body[i] \notin Disallowed
    BY <1>1, <1>2 DEF Comparable
  <2>3. ConsensusAccepts <=> (block.body # <<>> => block.body[1] \in Anchors)
    BY Zenon, <2>1, <2>2 DEF ConsensusAccepts
  <2>4. result = "difficulty_mismatch" <=> block.difficulty # Replay(block.body).zkGas
    BY ZenonT(30), <2>1 DEF LoopInv, EndInv
  <2>5. ReferenceBody(block.body) = block.body
    BY <2>1 DEF ReferenceBody, Reached
  <2>6. v = "ok" <=> Importable
    BY Zenon, <2>2, <2>3, <2>4, <2>5 DEF Importable
  <2> QED
    BY Zenon, <2>1, <2>6 DEF EndsWell, Ending
<1>3. CASE ~Comparable
  <2>1. ~ConsensusAccepts /\ ~Importable
    BY <1>1, <1>3 DEF Comparable, ConsensusAccepts, Importable
  <2> QED
    BY Zenon, <2>1 DEF EndsWell
<1> QED
  BY <1>2, <1>3

(* A replay of the list meets the sealed difficulty and ends like the build. *)
LEMMA ReplayConcludes ==
  ASSUME ExecutorInv, LoopInv, OriginInv, driver \in {"witness", "prove"}, phase = "finished",
         NEW v, v = IF result = "difficulty_mismatch" THEN "rejected" ELSE "ok"
  PROVE  EndsWell(v)
<1> DEFINE r == Reached(DecodeRecovered(list))
<1>1. /\ list \in Lists /\ block.difficulty = r.zk
      /\ outcome["build"] = [verdict |-> "ok", txs |-> r.body, zkGas |-> r.zk, state |-> r.state]
  BY DEF OriginInv, Sealed
<1>2. Reached(Input) = r
  BY ZenonT(30), <1>1, ListDecodes, Decoded DEF Input
<1> HIDE DEF r
<1>3. ASSUME Comparable PROVE Ending(v) = outcome["build"]
  <2>1. receipts = r.body /\ state = r.state /\ published = r.zk /\ meter.block = r.zk
    BY <1>2, <1>3, FinishedMatches
  <2>2. result # "difficulty_mismatch"
    BY ZenonT(30), <1>1, <2>1 DEF LoopInv, EndInv
  <2> QED
    BY Zenon, <1>1, <2>1, <2>2 DEF Ending
<1>4. CASE driver = "witness"
  <2>1. Comparable
    BY <1>4 DEF Comparable
  <2> QED
    BY <1>3, <1>4, <2>1 DEF EndsWell
<1>5. CASE driver = "prove"
  <2>1. (\A i \in DOMAIN list : list[i] \notin Disallowed) => Comparable
    BY <1>5 DEF Comparable, Input
  <2> QED
    BY <1>3, <1>5, <2>1 DEF EndsWell
<1> QED
  BY ZenonT(30), <1>4, <1>5

(* Sealing fixes what the reference takes of the list. *)
LEMMA SealPreserves ==
  ASSUME PipelineInv, Seal
  PROVE  PipelineInv'
<1> DEFINE r == Reached(DecodeRecovered(list))
<1>1. /\ driver = "build" /\ phase = "finished" /\ ExecutorInv /\ LoopInv /\ list \in Lists
      /\ outcome = [d \in Drivers |-> Pending] /\ outcome \in [Drivers -> OutcomeRecord]
  BY DEF Seal, PipelineInv, OriginInv, Drivers
<1>2. /\ receipts = r.body /\ state = r.state /\ published = r.zk
      /\ published = Replay(receipts).zkGas
  BY ZenonT(30), <1>1, FinishedMatches DEF Comparable, Input
<1>3. /\ block' = [body |-> receipts, difficulty |-> published]
      /\ outcome' = [outcome EXCEPT !["build"] = Ending("ok")]
      /\ StartDriver("import", receipts) /\ list' = list
  BY DEF Seal, Ending, StartDriver
<1>4. /\ DecodeRecovered(list) \in Seq(Txs) /\ r.body \in Seq(Txs) /\ Acceptable(r.body)
  BY Zenon, <1>1, ListDecodes, ReachedType, TakenAcceptable DEF TakeState
<1> HIDE DEF r
<1>5. Input' = receipts /\ receipts \in Seq(Txs) /\ Recovered(receipts)
  BY <1>2, <1>3, <1>4 DEF Input, StartDriver, Acceptable, Recovered
<1>6. ExecutorInv' /\ LoopInv'
  BY Zenon, <1>3, <1>5, Started DEF StartDriver
<1>7. /\ outcome' \in [Drivers -> OutcomeRecord]
      /\ outcome'["build"] = Ending("ok")
      /\ \A d \in {"import", "witness", "prove"} : outcome'[d] = Pending
  BY <1>1, <1>3, EndingRecord DEF Drivers, Verdicts
<1>8. Sealed'
  <2>1. published \in U64
    BY <1>1 DEF ExecutorInv, IInv, TypeOK
  <2>2. r' = r
    BY <1>3 DEF r
  <2>3. /\ block'.body = r.body /\ block'.difficulty = r.zk /\ r.zk \in U64
        /\ r.zk = Replay(r.body).zkGas
        /\ outcome'["build"] =
             [verdict |-> "ok", txs |-> r.body, zkGas |-> r.zk, state |-> r.state]
    BY Zenon, <1>2, <1>3, <1>7, <2>1 DEF Ending
  <2> QED
    BY Zenon, <1>1, <1>3, <2>2, <2>3 DEF Sealed, r
<1>9. Built'
  BY SMT, Z3, <1>7 DEF Built, Ending
<1>10. driver' = "import"
  BY <1>3 DEF StartDriver
<1>11. OriginInv'
  BY <1>7, <1>8, <1>9, <1>10 DEF OriginInv, Drivers
<1>12. Pending.verdict = "pending"
  BY Zenon DEF Pending
<1>13. ImportInv' /\ ReplayInv'
  BY <1>7, <1>12 DEF ImportInv, ImportIsExact, ReplayInv
<1> QED
  BY <1>6, <1>10, <1>11, <1>13 DEF PipelineInv, Drivers

LEMMA InitPipeline == PipelineInit => PipelineInv
<1> SUFFICES ASSUME PipelineInit PROVE PipelineInv
  OBVIOUS
<1>1. ExecutorInv /\ phase = "ready" /\ exhausted = FALSE
  BY FreshExecutor DEF PipelineInit, Init
<1>2. /\ outcome = [d \in Drivers |-> Pending] /\ outcome \in [Drivers -> OutcomeRecord]
      /\ \A d \in Drivers : outcome[d] = Pending
  BY Zenon, PendingRecord DEF PipelineInit
<1>3. ~Built /\ ImportInv /\ ReplayInv
  <2>1. Pending.verdict = "pending"
    BY DEF Pending
  <2> QED
    BY <1>2, <2>1 DEF Drivers, Built, ImportInv, ImportIsExact, ReplayInv
<1>4. /\ todo = Input /\ Input \in Seq(Txs) /\ Recovered(Input)
      /\ driver # "import" => Anchored(Input)
      /\ driver \in {"build", "import"}
      /\ driver = "build" => list \in Lists
      /\ driver = "import" => block \in ForeignBlocks
  <2>1. CASE list \in Lists /\ driver = "build" /\ todo = DecodeRecovered(list)
    BY <2>1, ListDecodes DEF Input
  <2>2. CASE block \in ForeignBlocks /\ driver = "import" /\ todo = block.body
    BY <2>2, PipelineAssumption DEF Input, Recovered
  <2> QED
    BY <2>1, <2>2 DEF PipelineInit
<1>5. OriginInv
  BY <1>2, <1>3, <1>4 DEF OriginInv, Drivers
<1>6. Done = 0
  BY SMT, Z3, <1>4 DEF Done
<1>7. At = NothingTaken
  BY <1>4, <1>6, TakenSteps DEF At
<1>8. Matches(At) /\ (exhausted <=> At.stop) /\ ~At.stop /\ Len(At.body) = 0
  BY <1>7 DEF PipelineInit, Init, NewMeter, NothingTaken, Matches
<1>9. awaiting = FALSE /\ atAnchor = TRUE
  BY DEF PipelineInit
<1>10. PositionInv
  BY SMT, Z3, <1>1, <1>4, <1>6, <1>9 DEF PositionInv
<1>11. FollowInv
  BY SMT, Z3, <1>6, <1>8, <1>9 DEF FollowInv
<1>12. EndInv
  BY <1>1 DEF EndInv
<1> QED
  BY <1>1, <1>3, <1>4, <1>5, <1>9, <1>10, <1>11, <1>12 DEF PipelineInv, LoopInv

(* A step of the loop leaves the block and the outcomes alone. *)
LEMMA LoopPreserves ==
  ASSUME PipelineInv, driver \in Drivers, ExecutorInv', LoopInv',
         UNCHANGED <<list, driver, block, outcome>>
  PROVE  PipelineInv'
<1>1. OriginInv'
  BY ZenonT(30) DEF PipelineInv, OriginInv, Built, Sealed
<1>2. ImportInv' /\ ReplayInv'
  BY Zenon DEF PipelineInv, ImportInv, ImportIsExact, ReplayInv, Built
<1>3. driver' # "done"
  BY Zenon DEF Drivers
<1> QED
  BY <1>1, <1>2, <1>3 DEF PipelineInv

(* The header a driver compares with is a u64. *)
LEMMA DifficultyType ==
  ASSUME OriginInv, driver \in {"import", "witness"}
  PROVE  block.difficulty \in U64
BY PipelineAssumption DEF OriginInv, Sealed

LEMMA NextPipeline == PipelineInv /\ [PipelineNext]_allVars => PipelineInv'
<1> SUFFICES ASSUME PipelineInv, [PipelineNext]_allVars PROVE PipelineInv'
  OBVIOUS
<1>1. /\ ExecutorInv /\ OriginInv /\ driver \in Drivers \cup {"done"}
      /\ driver \in Drivers => LoopInv
      /\ awaiting => driver \in Drivers
  BY DEF PipelineInv, OriginInv
<1>2. ASSUME UNCHANGED vars PROVE ExecutorInv'
  <2>1. [Next]_vars /\ reserved' = reserved
    BY <1>2 DEF vars
  <2> QED
    BY <1>1, <2>1, ExecutorSteps
<1>3. CASE Skip
  <2>1. driver \in Drivers /\ UNCHANGED vars /\ UNCHANGED <<list, driver, block, outcome>>
    BY <1>3 DEF Skip, Working, Advance
  <2> QED
    BY <1>1, <1>2, <1>3, <2>1, SkipFollows, LoopPreserves
<1>4. CASE Cancel
  <2>1. driver = "build" /\ driver \in Drivers /\ End("cancelled") /\ EndsWell("cancelled")
    BY <1>4 DEF Cancel, Drivers, EndsWell
  <2> QED
    BY Zenon, <2>1, EndPreserves DEF Verdicts
<1>5. CASE Call
  <2>1. driver \in Drivers /\ UNCHANGED <<list, driver, block, outcome>>
    BY <1>5 DEF Call, Working
  <2> QED
    BY <1>1, <1>5, <2>1, CallFollows, LoopPreserves
<1>6. CASE Execute
  <2>1. driver \in Drivers /\ UNCHANGED <<list, driver, block, outcome>>
    BY <1>1, <1>6 DEF Execute, driverVars
  <2> QED
    BY <1>1, <1>6, <2>1, ExecuteFollows, LoopPreserves
<1>7. ASSUME Returned, driver \in Drivers,
             \/ /\ Advance /\ UNCHANGED vars /\ result # "fatal"
                /\ result # "zk_limit" \/ ~exhausted
                /\ driver = "import" => result = "committed"
             \/ /\ StopLoop /\ UNCHANGED vars /\ result # "fatal"
                /\ result = "zk_limit" \/ exhausted
                /\ driver # "import"
      PROVE  PipelineInv'
  <2>1. LoopInv'
    BY <1>1, <1>7, AnswerAdvances, AnswerStops
  <2>2. UNCHANGED <<list, driver, block, outcome>>
    BY <1>7 DEF Advance, StopLoop
  <2> QED
    BY <1>1, <1>2, <1>7, <2>1, <2>2, LoopPreserves
<1>8. CASE BuildReturn
  <2>1. Returned /\ driver = "build" /\ driver \in Drivers
    BY <1>8 DEF BuildReturn, Drivers
  <2>2. CASE result \in {"committed", "invalid_tx", "gas_limit"} /\ Advance /\ UNCHANGED vars
    BY <1>7, <2>1, <2>2
  <2>3. CASE result = "zk_limit" /\ StopLoop /\ UNCHANGED vars
    BY <1>7, <2>1, <2>3
  <2>4. CASE End("failed")
    <3>1. EndsWell("failed")
      BY <2>1 DEF EndsWell
    <3> QED
      BY Zenon, <2>1, <2>4, <3>1, EndPreserves DEF Verdicts
  <2> QED
    BY <1>8, <2>2, <2>3, <2>4 DEF BuildReturn
<1>9. CASE ImportReturn
  <2>1. Returned /\ driver = "import" /\ driver \in Drivers
    BY <1>9 DEF ImportReturn, Drivers
  <2>2. CASE result = "committed" /\ Advance /\ UNCHANGED vars
    BY <1>7, <2>1, <2>2
  <2>3. CASE End("failed")
    <3>1. EndsWell("failed")
      BY <2>1 DEF EndsWell
    <3> QED
      BY Zenon, <2>1, <2>3, <3>1, EndPreserves DEF Verdicts
  <2>4. CASE result \in Recoverable /\ End("rejected")
    <3>1. ~Importable
      BY Zenon, <1>1, <2>1, <2>4, RejectedIsNotImportable
    <3>2. EndsWell("rejected")
      BY <2>1, <3>1 DEF EndsWell
    <3> QED
      BY <2>1, <2>4, <3>2, EndPreserves DEF Verdicts
  <2> QED
    BY <1>9, <2>2, <2>3, <2>4 DEF ImportReturn
<1>10. ASSUME driver \in {"witness", "prove"}, End("failed") PROVE PipelineInv'
  <2>1. driver \in Drivers /\ EndsWell("failed")
    BY <1>10 DEF Drivers, EndsWell
  <2> QED
    BY Zenon, <1>10, <2>1, EndPreserves DEF Verdicts
<1>11. CASE WitnessReturn
  <2>1. Returned /\ driver = "witness" /\ driver \in Drivers
    BY <1>11 DEF WitnessReturn, Drivers
  <2>2. CASE /\ result \in {"committed"} \cup (Recoverable \ {"zk_limit"})
             /\ Advance /\ UNCHANGED vars
    BY <1>7, <2>1, <2>2 DEF Recoverable
  <2>3. CASE result = "zk_limit" /\ StopLoop /\ UNCHANGED vars
    BY <1>7, <2>1, <2>3
  <2>4. CASE End("failed")
    BY <1>10, <2>1, <2>4
  <2> QED
    BY <1>11, <2>2, <2>3, <2>4 DEF WitnessReturn
<1>12. CASE ProveReturn
  <2>1. Returned /\ driver = "prove" /\ driver \in Drivers
    BY <1>12 DEF ProveReturn, Drivers
  <2>2. CASE result = "committed" \/ (result \in Recoverable /\ ~atAnchor)
    <3>1. result # "fatal"
      BY <2>2 DEF Recoverable
    <3>2. (IF exhausted THEN StopLoop ELSE Advance) /\ UNCHANGED vars
      BY <1>12, <2>2 DEF ProveReturn
    <3> QED
      BY <1>7, <2>1, <3>1, <3>2
  <2>3. CASE ~(result = "committed" \/ (result \in Recoverable /\ ~atAnchor))
    BY <1>10, <1>12, <2>1, <2>3 DEF ProveReturn
  <2> QED
    BY <2>2, <2>3
<1>13. CASE FinishBlock
  <2>1. driver \in Drivers /\ UNCHANGED <<list, driver, block, outcome>>
    BY <1>13 DEF FinishBlock, driverVars
  <2> QED
    BY <1>1, <1>13, <2>1, DifficultyType, FinishFollows, LoopPreserves
<1>14. CASE Seal
  BY <1>14, SealPreserves
<1>15. CASE Conclude
  <2> DEFINE v == IF result = "difficulty_mismatch" \/ (driver = "import" /\ ~ConsensusAccepts)
                  THEN "rejected" ELSE "ok"
  <2>1. /\ driver \in {"import", "witness", "prove"} /\ driver \in Drivers
        /\ phase = "finished" /\ End(v)
    BY <1>15 DEF Conclude, Drivers
  <2>2. EndsWell(v)
    BY <1>1, <2>1, ImportConcludes, ReplayConcludes
  <2>3. v \in Verdicts \ {"pending"}
    BY DEF Verdicts
  <2> HIDE DEF v
  <2> QED
    BY <2>1, <2>2, <2>3, EndPreserves
<1>16. CASE UNCHANGED allVars
  <2>1. UNCHANGED vars /\ UNCHANGED <<list, driver, todo, atAnchor, awaiting, block, outcome>>
    BY <1>16 DEF allVars, driverVars
  <2>2. ASSUME driver \in Drivers PROVE LoopInv'
    <3>1. Input' = Input /\ (Comparable' <=> Comparable) /\ driver' = driver
      BY <2>1, SameInput
    <3>2. Done' = Done /\ At' = At
      BY Zenon, <2>1, <3>1 DEF Done, At
    <3>3. Matches(At)' <=> Matches(At)
      BY <2>1, <3>2 DEF Matches, vars
    <3>4. /\ Acceptance(At, Head(todo))' <=> Acceptance(At, Head(todo))
          /\ Running(At, Head(todo))' <=> Running(At, Head(todo))
          /\ Answered(At, Head(todo))' <=> Answered(At, Head(todo))
      BY ZenonT(30), <2>1, <3>2 DEF Acceptance, Running, Answered, Matches, CurRun, vars
    <3>5. PositionInv'
      BY <1>1, <2>1, <2>2, <3>1, <3>2 DEF LoopInv, PositionInv, vars
    <3>6. FollowInv'
      BY ZenonT(30), <1>1, <2>1, <2>2, <3>1, <3>2, <3>3, <3>4 DEF LoopInv, FollowInv, vars
    <3>7. EndInv'
      BY Zenon, <1>1, <2>1, <2>2 DEF LoopInv, EndInv, vars
    <3> QED
      BY <3>5, <3>6, <3>7 DEF LoopInv
  <2>3. CASE driver \in Drivers
    BY <1>2, <2>1, <2>2, <2>3, LoopPreserves
  <2>4. CASE driver \notin Drivers
    <3>1. OriginInv'
      BY ZenonT(30), <2>1 DEF PipelineInv, OriginInv, Built, Sealed
    <3>2. ImportInv' /\ ReplayInv'
      BY Zenon, <2>1 DEF PipelineInv, ImportInv, ImportIsExact, ReplayInv, Built
    <3> QED
      BY <1>2, <2>1, <2>4, <3>1, <3>2 DEF PipelineInv
  <2> QED
    BY <2>3, <2>4
<1> QED
  BY <1>3, <1>4, <1>5, <1>6, <1>8, <1>9, <1>11, <1>12, <1>13, <1>14, <1>15, <1>16 DEF PipelineNext

LEMMA PipelineHolds == PipelineSpec => []PipelineInv
BY InitPipeline, NextPipeline, PTL DEF PipelineSpec

(* A block sealed by execute_provided_transactions holds exactly the        *)
(* transactions of the list that a filter without executor, meter or        *)
(* sticky flag would take, for every list, EVM and gas schedule.            *)
THEOREM SealedBodyIsReference == PipelineSpec => []BodyIsReference
<1>1. PipelineInv => BodyIsReference
  <2> SUFFICES ASSUME PipelineInv, Built PROVE block.body = ReferenceBody(list)
    BY DEF BodyIsReference
  <2>1. list \in Lists /\ block.body = Reached(DecodeRecovered(list)).body
    BY ZenonT(30) DEF PipelineInv, OriginInv, Sealed
  <2>2. Reached(DecodeRecovered(list)) = Reached(list)
    BY ZenonT(30), <2>1, ListDecodes, Decoded
  <2> QED
    BY <2>1, <2>2 DEF ReferenceBody, Reached
<1> QED
  BY <1>1, PipelineHolds, PTL

(* Plain execution of a received or own block with the consensus checks     *)
(* accepts exactly the blocks a builder could have sealed from their own    *)
(* body.                                                                    *)
THEOREM ImportAcceptsExactly == PipelineSpec => []ImportIsExact
<1>1. PipelineInv => ImportIsExact
  BY Zenon DEF PipelineInv, ImportInv
<1> QED
  BY <1>1, PipelineHolds, PTL

(* The node never rejects a block it built, except for a missing anchor,    *)
(* and an accepted import ends in the builder's state and zk gas.           *)
THEOREM OwnBlocksAreImported == PipelineSpec => []ImportReproducesBuild
<1>1. PipelineInv => ImportReproducesBuild
  <2> SUFFICES ASSUME PipelineInv, Built
               PROVE  /\ outcome["import"].verdict = "rejected" =>
                           block.body # <<>> /\ ~AnchorCommitted
                      /\ outcome["import"].verdict = "ok" => outcome["import"] = outcome["build"]
    BY DEF ImportReproducesBuild
  <2> DEFINE r == Reached(DecodeRecovered(list))
  <2>1. /\ list \in Lists /\ block.body = r.body /\ block.difficulty = r.zk
        /\ r.zk = Replay(r.body).zkGas
        /\ outcome["build"] = [verdict |-> "ok", txs |-> r.body, zkGas |-> r.zk, state |-> r.state]
    BY ZenonT(30) DEF PipelineInv, OriginInv, Sealed
  <2>2. DecodeRecovered(list) \in Seq(Txs) /\ r \in TakeState
    BY Zenon, <2>1, ListDecodes, ReachedType
  <2>3. Acceptable(r.body) /\ Reached(r.body) = Unstopped(r)
    BY <2>2, TakenAcceptable, BodyIsItsOwn
  <2> HIDE DEF r
  <2>4. Unstopped(r).body = r.body /\ Unstopped(r).zk = r.zk /\ Unstopped(r).state = r.state
    BY <2>2 DEF Unstopped, TakeState
  <2>5. ReferenceBody(block.body) = block.body
    BY ZenonT(30), <2>1, <2>3, <2>4 DEF ReferenceBody, Reached
  <2>6. \A i \in DOMAIN block.body : block.body[i] \notin Disallowed
    BY <2>1, <2>3 DEF Acceptable
  <2>7. outcome["import"].verdict = "rejected" => block.body # <<>> /\ ~AnchorCommitted
    BY ZenonT(30), <2>1, <2>5, <2>6 DEF PipelineInv, ImportInv, ImportIsExact, AnchorCommitted
  <2>8. outcome["import"].verdict = "ok" =>
          outcome["import"] = [verdict |-> "ok", txs |-> r.body, zkGas |-> r.zk, state |-> r.state]
    BY ZenonT(30), <2>1, <2>3, <2>4 DEF PipelineInv, ImportInv
  <2> QED
    BY Zenon, <2>1, <2>7, <2>8
<1> QED
  BY <1>1, PipelineHolds, PTL

(* The witness replay and the prover's filter, each with its own treatment  *)
(* of anchors, types, signers and the sticky flag, commit what the builder  *)
(* committed and meet the sealed difficulty.                                *)
THEOREM ReplaysAreFaithful == PipelineSpec => []ReplaysReproduceBuild
<1>1. PipelineInv => ReplaysReproduceBuild
  BY DEF PipelineInv, ReplayInv, ReplaysReproduceBuild
<1> QED
  BY <1>1, PipelineHolds, PTL
=============================================================================
