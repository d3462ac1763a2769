--------------------- MODULE ProofHistorySidecar_proofs ---------------------
(***************************************************************************)
(* The tree of blocks and the operations of the proof-history store, for    *)
(* every tree; then what holds of the sidecar whatever the chain does: the  *)
(* inductive invariant SidecarInv (types, who runs and holds the lock,      *)
(* notifications made of consecutive blocks, a window as long as its labels *)
(* say), the wipe of a condemned store and the backfilled window.  With     *)
(* reorgs that spare persisted blocks, the sync loop reads those only.      *)
(***************************************************************************)
EXTENDS ProofHistorySidecar, WellFoundedInduction, FiniteSetTheorems, TLAPS

(* Most leaves need no arithmetic: Zenon is tried unless one asks for SMT.  *)
USE Zenon

-----------------------------------------------------------------------------
(* The tree of blocks.  Induction goes by the least counterexample: < is    *)
(* well-founded on block numbers.                                           *)

LEMMA LeastBlock ==
  ASSUME NEW S \in SUBSET Blocks, S # {}
  PROVE  \E b \in S : \A c \in S : Number[b] <= Number[c]
<1>. DEFINE R == OpToRel(<, Nat)
            T == {Number[b] : b \in S}
<1>1. IsWellFoundedOn(R, Nat)
  BY NatLessThanWellFounded
<1>2. \A x, y \in Nat : <<y, x>> \in R <=> y < x
  BY SMT DEF OpToRel
<1>3. T \subseteq Nat /\ T # {}
  BY SMT, BlockTreeAssumption
<1>. HIDE DEF R
<1>4. PICK n \in T : \A y \in T : ~(<<y, n>> \in R)
  BY <1>1, <1>3, WFMin
<1>5. n \in Nat /\ \A m \in T : m \in Nat /\ ~(m < n)
  BY <1>2, <1>3, <1>4
<1>6. \A m \in T : n <= m
  BY SMT, <1>5
<1>. QED
  BY SMT, <1>6

LEMMA ParentOf ==
  ASSUME NEW b \in Blocks, b # Genesis
  PROVE  Parent[b] \in Blocks /\ Number[b] = Number[Parent[b]] + 1 /\ Number[Parent[b]] \in Nat
BY SMT, BlockTreeAssumption

(* A set of blocks that contains the children of its members and the        *)
(* genesis block is all of them.                                            *)
LEMMA TreeInduction ==
  ASSUME NEW S, Genesis \in S,
         \A b \in Blocks \ {Genesis} : Parent[b] \in S => b \in S
  PROVE  Blocks \subseteq S
<1>. SUFFICES ASSUME Blocks \ S # {} PROVE FALSE
  BY SMT
<1>1. PICK b \in Blocks \ S : \A c \in Blocks \ S : Number[b] <= Number[c]
  <2>1. Blocks \ S \in SUBSET Blocks
    BY SMT
  <2>. QED
    BY <2>1, LeastBlock
<1>2. b # Genesis /\ Parent[b] \in Blocks /\ ~(Number[b] <= Number[Parent[b]])
  BY SMT, ParentOf
<1>. QED
  BY <1>1, <1>2

(* The path from the genesis block to b, which is what Branch[b] is. *)
PathTo(s, b) ==
  /\ s \in Seq(Blocks) /\ Len(s) = Number[b] + 1
  /\ s[1] = Genesis /\ s[Len(s)] = b
  /\ \A i \in 1 .. Len(s) - 1 : s[i + 1] # Genesis /\ Parent[s[i + 1]] = s[i]

LEMMA PathOfGenesis ==
  /\ PathTo(<<Genesis>>, Genesis)
  /\ \A s : PathTo(s, Genesis) => s = <<Genesis>>
<1>1. Genesis \in Blocks /\ Number[Genesis] = 0
  BY SMT, BlockTreeAssumption
<1>2. PathTo(<<Genesis>>, Genesis)
  BY SMT, <1>1 DEF PathTo
<1>3. ASSUME NEW s, PathTo(s, Genesis) PROVE s = <<Genesis>>
  <2>1. s \in Seq(Blocks) /\ Len(s) = 1 /\ s[1] = Genesis
    BY SMT, <1>1, <1>3 DEF PathTo
  <2>. QED
    BY SMT, <2>1
<1>. QED
  BY <1>2, <1>3

LEMMA PathExtends ==
  ASSUME NEW b \in Blocks, b # Genesis, NEW s, PathTo(s, Parent[b])
  PROVE  PathTo(Append(s, b), b)
<1>. DEFINE k == Number[b]
            t == Append(s, b)
<1>1. k \in Nat \ {0} /\ Number[Parent[b]] + 1 = k
  BY SMT, ParentOf
<1>. HIDE DEF k
<1>2. s \in Seq(Blocks) /\ Len(s) = k /\ s[1] = Genesis /\ s[k] = Parent[b]
  BY SMT, <1>1 DEF PathTo
<1>3. \A i \in 1 .. k - 1 : s[i + 1] # Genesis /\ Parent[s[i + 1]] = s[i]
  BY <1>2 DEF PathTo
<1>4. /\ t \in Seq(Blocks) /\ Len(t) = k + 1 /\ t[k + 1] = b
      /\ \A i \in 1 .. k : t[i] = s[i]
  BY SMT, <1>1, <1>2
<1>. HIDE DEF t
<1>5. t[1] = Genesis /\ t[Len(t)] = b
  BY SMT, <1>1, <1>2, <1>4
<1>6. ASSUME NEW i \in 1 .. Len(t) - 1
      PROVE  t[i + 1] # Genesis /\ Parent[t[i + 1]] = t[i]
  <2>1. CASE i = k
    <3>1. t[i + 1] = b /\ t[i] = s[k]
      BY SMT, <1>1, <1>4, <2>1
    <3>. QED
      BY <1>2, <3>1
  <2>2. CASE i # k
    <3>1. i \in 1 .. k - 1 /\ i \in 1 .. k /\ i + 1 \in 1 .. k
      BY SMT, <1>1, <1>4, <2>2
    <3>. QED
      BY <1>3, <1>4, <3>1
  <2>. QED
    BY <2>1, <2>2
<1>7. PathTo(t, b)
  BY <1>4, <1>5, <1>6 DEF PathTo, k
<1>. QED
  BY <1>7 DEF t

LEMMA PathShortens ==
  ASSUME NEW b \in Blocks, b # Genesis, NEW t, PathTo(t, b)
  PROVE  \E s : PathTo(s, Parent[b]) /\ t = Append(s, b)
<1>. DEFINE k == Number[b]
            s == SubSeq(t, 1, k)
<1>1. k \in Nat \ {0} /\ Number[Parent[b]] + 1 = k
  BY SMT, ParentOf
<1>. HIDE DEF k
<1>2. t \in Seq(Blocks) /\ Len(t) = k + 1 /\ t[1] = Genesis /\ t[k + 1] = b
  BY DEF PathTo, k
<1>3. \A i \in 1 .. k : t[i + 1] # Genesis /\ Parent[t[i + 1]] = t[i]
  <2>1. Len(t) - 1 = k
    BY SMT, <1>1, <1>2
  <2>. QED
    BY <2>1 DEF PathTo
<1>4. /\ s \in Seq(Blocks) /\ Len(s) = k
      /\ \A i \in 1 .. k : s[i] = t[i]
  BY SMT, <1>1, <1>2
<1>5. t = Append(s, b)
  BY SMT, <1>1, <1>2
<1>. HIDE DEF s
<1>6. 1 \in 1 .. k /\ k \in 1 .. k /\ \A i \in 1 .. Len(s) - 1 : i \in 1 .. k /\ i + 1 \in 1 .. k
  BY SMT, <1>1, <1>4
<1>7. s[Len(s)] = Parent[b] /\ s[1] = Genesis
  BY <1>2, <1>3, <1>4, <1>6
<1>8. \A i \in 1 .. Len(s) - 1 : s[i + 1] # Genesis /\ Parent[s[i + 1]] = s[i]
  BY <1>3, <1>4, <1>6
<1>9. PathTo(s, Parent[b])
  BY <1>1, <1>4, <1>7, <1>8 DEF PathTo
<1>. QED
  BY <1>5, <1>9

LEMMA PathExists ==
  ASSUME NEW b \in Blocks
  PROVE  (\E s : PathTo(s, b)) /\ \A s, t : PathTo(s, b) /\ PathTo(t, b) => s = t
<1>. DEFINE S == {c \in Blocks : (\E s : PathTo(s, c)) /\ \A s, t : PathTo(s, c) /\ PathTo(t, c) => s = t}
<1>1. Genesis \in S
  BY PathOfGenesis, BlockTreeAssumption
<1>2. ASSUME NEW c \in Blocks \ {Genesis}, Parent[c] \in S
      PROVE  c \in S
  <2>0. c \in Blocks /\ c # Genesis
    BY SMT
  <2>1. \E s : PathTo(s, c)
    BY <1>2, <2>0, PathExtends
  <2>2. ASSUME NEW s, NEW t, PathTo(s, c), PathTo(t, c) PROVE s = t
    <3>1. PICK u : PathTo(u, Parent[c]) /\ s = Append(u, c)
      BY <2>0, <2>2, PathShortens
    <3>2. PICK v : PathTo(v, Parent[c]) /\ t = Append(v, c)
      BY <2>0, <2>2, PathShortens
    <3>. QED
      BY <1>2, <3>1, <3>2
  <2>. QED
    BY <2>0, <2>1, <2>2
<1>. HIDE DEF S
<1>3. Blocks \subseteq S
  BY <1>1, <1>2, TreeInduction
<1>. QED
  BY <1>3 DEF S

LEMMA BranchIsPath ==
  ASSUME NEW b \in Blocks
  PROVE  PathTo(Branch[b], b)
<1>. DEFINE Defines(f) == f = [c \in Blocks |-> IF c = Genesis THEN <<c>> ELSE Append(f[Parent[c]], c)]
            F == [c \in Blocks |-> CHOOSE s : PathTo(s, c)]
<1>1. \A c \in Blocks : PathTo(F[c], c)
  BY PathExists
<1>2. ASSUME NEW c \in Blocks
      PROVE  F[c] = IF c = Genesis THEN <<c>> ELSE Append(F[Parent[c]], c)
  <2>. HIDE DEF F
  <2>1. CASE c = Genesis
    BY <1>1, <2>1, PathOfGenesis
  <2>2. CASE c # Genesis
    <3>1. Parent[c] \in Blocks
      BY <2>2, ParentOf
    <3>2. PathTo(Append(F[Parent[c]], c), c)
      BY <1>1, <2>2, <3>1, PathExtends
    <3>. QED
      BY <1>1, <2>2, <3>2, PathExists
  <2>. QED
    BY <2>1, <2>2
<1>3. Defines(F)
  <2>1. F = [c \in Blocks |-> F[c]]
    BY SMT
  <2>. HIDE DEF F
  <2>. QED
    BY <1>2, <2>1
<1>4. Branch = CHOOSE f : Defines(f)
  BY SMT DEF Branch
<1>. HIDE DEF F
<1>5. Defines(Branch)
  <2>. HIDE DEF Defines
  <2>. QED
    BY <1>3, <1>4
<1>6. \A c \in Blocks : Branch[c] = IF c = Genesis THEN <<c>> ELSE Append(Branch[Parent[c]], c)
  BY <1>5
<1>. DEFINE S == {c \in Blocks : PathTo(Branch[c], c)}
<1>7. Genesis \in S
  BY <1>6, PathOfGenesis, BlockTreeAssumption
<1>8. ASSUME NEW c \in Blocks \ {Genesis}, Parent[c] \in S
      PROVE  c \in S
  <2>1. Branch[c] = Append(Branch[Parent[c]], c) /\ PathTo(Branch[Parent[c]], Parent[c])
    BY <1>6, <1>8
  <2>. QED
    BY <2>1, PathExtends
<1>. HIDE DEF S
<1>9. Blocks \subseteq S
  BY <1>7, <1>8, TreeInduction
<1>. QED
  BY <1>9 DEF S

LEMMA AncestorAtSelf ==
  ASSUME NEW b \in Blocks
  PROVE  AncestorAt(b, Number[b]) = b
<1>1. PathTo(Branch[b], b)
  BY SMT, BranchIsPath
<1>. QED
  BY <1>1 DEF PathTo, AncestorAt

LEMMA AncestorAtParent ==
  ASSUME NEW b \in Blocks, b # Genesis, NEW n \in 0 .. Number[Parent[b]]
  PROVE  AncestorAt(b, n) = AncestorAt(Parent[b], n)
<1>1. Parent[b] \in Blocks /\ Number[Parent[b]] \in Nat
  BY ParentOf
<1>2. PathTo(Branch[b], b) /\ PathTo(Branch[Parent[b]], Parent[b])
  BY <1>1, BranchIsPath
<1>3. Branch[b] = Append(Branch[Parent[b]], b)
  BY <1>2, PathExtends, PathExists
<1>4. Branch[Parent[b]] \in Seq(Blocks) /\ Len(Branch[Parent[b]]) = Number[Parent[b]] + 1
  BY <1>2 DEF PathTo
<1>. QED
  BY SMT, <1>1, <1>3, <1>4 DEF AncestorAt

LEMMA AncestorIsBlock ==
  ASSUME NEW b \in Blocks, NEW n \in 0 .. Number[b]
  PROVE  AncestorAt(b, n) \in Blocks /\ Number[AncestorAt(b, n)] = n
<1>. DEFINE S == {c \in Blocks : \A m \in 0 .. Number[c] :
                    AncestorAt(c, m) \in Blocks /\ Number[AncestorAt(c, m)] = m}
<1>1. ASSUME NEW c \in Blocks, c = Genesis \/ (c # Genesis /\ Parent[c] \in S)
      PROVE  c \in S
  <2>. SUFFICES ASSUME NEW m \in 0 .. Number[c]
                PROVE  AncestorAt(c, m) \in Blocks /\ Number[AncestorAt(c, m)] = m
    OBVIOUS
  <2>1. CASE m = Number[c]
    BY <2>1, AncestorAtSelf
  <2>2. CASE m # Number[c]
    <3>1. c # Genesis
      BY SMT, <2>2, BlockTreeAssumption
    <3>2. m \in 0 .. Number[Parent[c]]
      BY SMT, <2>2, <3>1, ParentOf
    <3>. QED
      BY <1>1, <3>1, <3>2, AncestorAtParent
  <2>. QED
    BY <2>1, <2>2
<1>. HIDE DEF S
<1>2. Blocks \subseteq S
  BY <1>1, TreeInduction, BlockTreeAssumption
<1>. QED
  BY <1>2 DEF S

LEMMA AncestorOfAncestor ==
  ASSUME NEW b \in Blocks, NEW m \in 0 .. Number[b], NEW n \in 0 .. m
  PROVE  AncestorAt(AncestorAt(b, m), n) = AncestorAt(b, n)
<1>. DEFINE S == {c \in Blocks : \A k \in 0 .. Number[c] : \A i \in 0 .. k :
                    AncestorAt(AncestorAt(c, k), i) = AncestorAt(c, i)}
<1>1. ASSUME NEW c \in Blocks, c = Genesis \/ (c # Genesis /\ Parent[c] \in S)
      PROVE  c \in S
  <2>. SUFFICES ASSUME NEW k \in 0 .. Number[c], NEW i \in 0 .. k
                PROVE  AncestorAt(AncestorAt(c, k), i) = AncestorAt(c, i)
    OBVIOUS
  <2>1. CASE k = Number[c]
    BY <2>1, AncestorAtSelf
  <2>2. CASE k # Number[c]
    <3>1. c # Genesis
      BY SMT, <2>2, BlockTreeAssumption
    <3>2. k \in 0 .. Number[Parent[c]] /\ i \in 0 .. Number[Parent[c]]
      BY SMT, <2>2, <3>1, ParentOf
    <3>3. AncestorAt(c, k) = AncestorAt(Parent[c], k) /\ AncestorAt(c, i) = AncestorAt(Parent[c], i)
      BY <3>1, <3>2, AncestorAtParent
    <3>. QED
      BY <1>1, <3>1, <3>2, <3>3
  <2>. QED
    BY <2>1, <2>2
<1>. HIDE DEF S
<1>2. Blocks \subseteq S
  BY <1>1, TreeInduction, BlockTreeAssumption
<1>. QED
  BY <1>2 DEF S

LEMMA NumberIsNat == \A b \in Blocks : Number[b] \in Nat /\ Number[b] \in 0 .. Number[b]
BY SMT, BlockTreeAssumption

(* Ancestors: an order, and a line below every block. *)
LEMMA AncestorReflexive == \A b \in Blocks : IsAncestor(b, b)
<1>1. \A b \in Blocks : Number[b] <= Number[b]
  BY SMT, NumberIsNat
<1>. QED
  BY <1>1, AncestorAtSelf DEF IsAncestor

LEMMA AncestorAgrees ==
  ASSUME NEW a \in Blocks, NEW b \in Blocks, IsAncestor(a, b), NEW n \in 0 .. Number[a]
  PROVE  AncestorAt(a, n) = AncestorAt(b, n)
<1>1. Number[a] \in 0 .. Number[b]
  BY SMT, NumberIsNat DEF IsAncestor
<1>. QED
  BY <1>1, AncestorOfAncestor DEF IsAncestor

LEMMA AncestorTransitive ==
  ASSUME NEW a \in Blocks, NEW b \in Blocks, NEW c \in Blocks, IsAncestor(a, b), IsAncestor(b, c)
  PROVE  IsAncestor(a, c)
<1>1. Number[a] <= Number[c] /\ Number[a] \in 0 .. Number[b]
  BY SMT, NumberIsNat DEF IsAncestor
<1>2. AncestorAt(b, Number[a]) = AncestorAt(c, Number[a])
  BY <1>1, AncestorAgrees
<1>. QED
  BY <1>1, <1>2 DEF IsAncestor

LEMMA AncestorsAreOnALine ==
  ASSUME NEW a \in Blocks, NEW b \in Blocks, NEW c \in Blocks,
         IsAncestor(a, c), IsAncestor(b, c), Number[a] <= Number[b]
  PROVE  IsAncestor(a, b)
<1>1. Number[a] \in 0 .. Number[b]
  BY SMT, NumberIsNat
<1>2. AncestorAt(b, Number[a]) = AncestorAt(c, Number[a])
  BY <1>1, AncestorAgrees
<1>. QED
  BY <1>2 DEF IsAncestor

LEMMA AncestorAtIsAncestor ==
  ASSUME NEW b \in Blocks, NEW n \in 0 .. Number[b]
  PROVE  IsAncestor(AncestorAt(b, n), b)
<1>1. AncestorAt(b, n) \in Blocks /\ Number[AncestorAt(b, n)] = n
  BY AncestorIsBlock
<1>2. n <= Number[b]
  BY SMT, NumberIsNat
<1>. QED
  BY <1>1, <1>2 DEF IsAncestor

LEMMA AncestorHeight ==
  ASSUME NEW a \in Blocks, NEW b \in Blocks, IsAncestor(a, b)
  PROVE  AncestorAt(b, Number[a]) = a /\ Number[a] \in 0 .. Number[b]
BY SMT, NumberIsNat DEF IsAncestor

LEMMA SameAncestor ==
  ASSUME NEW a \in Blocks, NEW b \in Blocks, NEW c \in Blocks,
         IsAncestor(a, c), IsAncestor(b, c), Number[a] = Number[b]
  PROVE  a = b
BY DEF IsAncestor

LEMMA ParentIsAncestor ==
  ASSUME NEW b \in Blocks, b # Genesis
  PROVE  Parent[b] \in Blocks /\ IsAncestor(Parent[b], b)
<1>1. Parent[b] \in Blocks /\ Number[b] = Number[Parent[b]] + 1 /\ Number[Parent[b]] \in Nat
  BY ParentOf
<1>2. Number[Parent[b]] <= Number[b] /\ Number[Parent[b]] \in 0 .. Number[Parent[b]]
  BY SMT, <1>1
<1>. QED
  BY <1>1, <1>2, AncestorAtParent, AncestorAtSelf DEF IsAncestor

LEMMA GenesisIsAncestor ==
  ASSUME NEW b \in Blocks
  PROVE  IsAncestor(Genesis, b)
<1>1. PathTo(Branch[b], b) /\ Genesis \in Blocks /\ Number[Genesis] = 0 /\ Number[b] \in Nat
  BY BranchIsPath, BlockTreeAssumption
<1>2. Branch[b][1] = Genesis
  BY <1>1 DEF PathTo
<1>3. AncestorAt(b, Number[Genesis]) = Genesis
  BY SMT, <1>1, <1>2 DEF AncestorAt
<1>. QED
  BY SMT, <1>1, <1>3 DEF IsAncestor

(* The parent of an ancestor at one height is the ancestor one below. *)
LEMMA NextAncestor ==
  ASSUME NEW b \in Blocks, NEW n \in Nat, n + 1 \in 0 .. Number[b]
  PROVE  AncestorAt(b, n + 1) # Genesis /\ Parent[AncestorAt(b, n + 1)] = AncestorAt(b, n)
<1>. DEFINE c == AncestorAt(b, n + 1)
<1>1. n \in 0 .. n + 1 /\ n \in 0 .. n /\ n + 1 # 0 /\ n \in 0 .. Number[b]
  BY SMT, NumberIsNat
<1>2. c \in Blocks /\ Number[c] = n + 1
  BY AncestorIsBlock
<1>3. c # Genesis
  BY <1>1, <1>2, BlockTreeAssumption
<1>4. Parent[c] \in Blocks /\ Number[Parent[c]] = n
  BY SMT, <1>2, <1>3, ParentOf
<1>5. AncestorAt(c, n) = AncestorAt(b, n)
  BY <1>1, AncestorOfAncestor
<1>. HIDE DEF c
<1>6. AncestorAt(c, n) = AncestorAt(Parent[c], n)
  BY <1>1, <1>2, <1>3, <1>4, AncestorAtParent
<1>7. AncestorAt(Parent[c], n) = Parent[c]
  BY <1>4, AncestorAtSelf
<1>8. c # Genesis /\ Parent[c] = AncestorAt(b, n)
  BY <1>3, <1>5, <1>6, <1>7
<1>. QED
  BY <1>8 DEF c

-----------------------------------------------------------------------------
(* The blocks from e up to its descendant t. *)
Span(e, t) == [i \in 1 .. Number[t] - Number[e] + 1 |-> AncestorAt(t, Number[e] + i - 1)]

LEMMA SpanType ==
  ASSUME NEW e \in Blocks, NEW t \in Blocks, IsAncestor(e, t)
  PROVE  /\ Span(e, t) \in Seq(Blocks) /\ Len(Span(e, t)) = Number[t] - Number[e] + 1
         /\ Len(Span(e, t)) \in Nat \ {0}
         /\ Span(e, t)[1] = e /\ Span(e, t)[Len(Span(e, t))] = t
         /\ DOMAIN Span(e, t) = 1 .. Number[t] - Number[e] + 1
<1>. DEFINE m == Number[e]
            n == Number[t]
            S == Span(e, t)
<1>1. m \in Nat /\ n \in Nat /\ m <= n /\ AncestorAt(t, m) = e /\ AncestorAt(t, n) = t
  BY SMT, NumberIsNat, AncestorAtSelf DEF IsAncestor
<1>2. \A k \in 0 .. n : AncestorAt(t, k) \in Blocks
  BY SMT, AncestorIsBlock
<1>3. S = [i \in 1 .. n - m + 1 |-> AncestorAt(t, m + i - 1)]
  BY DEF Span
<1>. HIDE DEF m, n, S
<1>4. \A i \in 1 .. n - m + 1 : m + i - 1 \in 0 .. n
  BY SMT, <1>1
<1>5. n - m + 1 \in Nat /\ S \in [1 .. n - m + 1 -> Blocks]
  BY SMT, <1>1, <1>2, <1>3, <1>4
<1>6. S \in Seq(Blocks) /\ Len(S) = n - m + 1 /\ DOMAIN S = 1 .. n - m + 1
  BY SMT, <1>5
<1>7. S[1] = AncestorAt(t, m) /\ S[n - m + 1] = AncestorAt(t, n)
  <2>1. /\ 1 \in 1 .. n - m + 1 /\ n - m + 1 \in 1 .. n - m + 1 /\ m + 1 - 1 = m
        /\ m + (n - m + 1) - 1 = n
    BY SMT, <1>1
  <2>. QED
    BY <1>3, <2>1
<1>8. /\ S \in Seq(Blocks) /\ Len(S) = n - m + 1 /\ Len(S) \in Nat \ {0}
      /\ S[1] = e /\ S[Len(S)] = t /\ DOMAIN S = 1 .. n - m + 1
  BY SMT, <1>1, <1>6, <1>7
<1>. QED
  BY <1>8 DEF S, m, n

LEMMA SpanAt ==
  ASSUME NEW e \in Blocks, NEW t \in Blocks, IsAncestor(e, t),
         NEW i \in 1 .. Number[t] - Number[e] + 1
  PROVE  /\ Number[e] + i - 1 \in 0 .. Number[t] 
         /\ Span(e, t)[i] = AncestorAt(t, Number[e] + i - 1)
         /\ Span(e, t)[i] \in Blocks /\ IsAncestor(Span(e, t)[i], t)
         /\ Number[Span(e, t)[i]] = Number[e] + i - 1
<1>1. Number[e] + i - 1 \in 0 .. Number[t]
  BY SMT, NumberIsNat DEF IsAncestor
<1>2. Span(e, t)[i] = AncestorAt(t, Number[e] + i - 1)
  BY DEF Span
<1>. QED
  BY ZenonT(30), <1>1, <1>2, AncestorIsBlock, AncestorAtIsAncestor

(* What is known of a span, at once. *)
LEMMA SpanFacts ==
  ASSUME NEW e \in Blocks, NEW t \in Blocks, IsAncestor(e, t)
  PROVE  /\ Span(e, t) \in Seq(Blocks) /\ Len(Span(e, t)) = Number[t] - Number[e] + 1
         /\ \A i \in 1 .. Number[t] - Number[e] + 1 : Span(e, t)[i] = AncestorAt(t, Number[e] + i - 1)
<1>1. Span(e, t) \in Seq(Blocks) /\ Len(Span(e, t)) = Number[t] - Number[e] + 1
  BY SpanType
<1>2. \A i \in 1 .. Number[t] - Number[e] + 1 : Span(e, t)[i] = AncestorAt(t, Number[e] + i - 1)
  BY SpanAt
<1>. QED
  BY <1>1, <1>2

(* Sequences with the same length and members are equal. *)
LEMMA SpanIs ==
  ASSUME NEW e \in Blocks, NEW t \in Blocks, IsAncestor(e, t),
         NEW s, s \in Seq(Blocks), Len(s) = Number[t] - Number[e] + 1,
         \A i \in 1 .. Number[t] - Number[e] + 1 : s[i] = AncestorAt(t, Number[e] + i - 1)
  PROVE  s = Span(e, t)
<1>. DEFINE k == Number[t] - Number[e] + 1
            F(i) == AncestorAt(t, Number[e] + i - 1)
<1>0. k \in Nat
  BY SMT, NumberIsNat DEF IsAncestor
<1>1. Span(e, t) = [i \in 1 .. k |-> F(i)]
  BY DEF Span
<1>2. \A i \in 1 .. k : s[i] = F(i)
  OBVIOUS
<1>3. Len(s) = k
  OBVIOUS
<1>. HIDE DEF k, F
<1>4. s = [i \in 1 .. k |-> s[i]]
  BY SMT, <1>0, <1>3
<1>. QED
  BY <1>1, <1>2, <1>4

(* One block. *)
LEMMA SpanOne == ASSUME NEW b \in Blocks PROVE <<b>> = Span(b, b)
<1>1. Number[b] \in Nat /\ IsAncestor(b, b) /\ AncestorAt(b, Number[b]) = b
  BY SMT, NumberIsNat, AncestorReflexive, AncestorAtSelf
<1>2. <<b>> \in Seq(Blocks) /\ Len(<<b>>) = Number[b] - Number[b] + 1
  BY SMT, <1>1
<1>3. \A i \in 1 .. Number[b] - Number[b] + 1 : i = 1 /\ Number[b] + i - 1 = Number[b]
  BY SMT, <1>1
<1>4. \A i \in 1 .. Number[b] - Number[b] + 1 : <<b>>[i] = AncestorAt(b, Number[b] + i - 1)
  BY SMT, <1>1, <1>3
<1>. QED
  BY <1>1, <1>2, <1>4, SpanIs

(* A block on top: store_trie_updates. *)
LEMMA SpanAppend ==
  ASSUME NEW e \in Blocks, NEW t \in Blocks, IsAncestor(e, t),
         NEW b \in Blocks, b # Genesis, Parent[b] = t
  PROVE  IsAncestor(e, b) /\ Append(Span(e, t), b) = Span(e, b)
<1>. DEFINE m == Number[e]
            n == Number[t]
            s == Append(Span(e, t), b)
<1>1. m \in Nat /\ n \in Nat /\ m <= n /\ Number[b] = n + 1
  BY SMT, ParentOf, NumberIsNat DEF IsAncestor
<1>2. IsAncestor(e, b)
  BY ParentIsAncestor, AncestorTransitive
<1>3. /\ Span(e, t) \in Seq(Blocks) /\ Len(Span(e, t)) = n - m + 1
      /\ \A i \in 1 .. n - m + 1 : Span(e, t)[i] = AncestorAt(t, m + i - 1)
  BY SpanFacts
<1>4. AncestorAt(b, n + 1) = b
  BY <1>1, AncestorAtSelf
<1>5. \A k \in 0 .. n : AncestorAt(b, k) = AncestorAt(t, k)
  BY AncestorAtParent
<1>. HIDE DEF m, n
<1>6. s \in Seq(Blocks) /\ Len(s) = (n + 1) - m + 1
  BY SMT, <1>1, <1>3
<1>7. ASSUME NEW i \in 1 .. (n + 1) - m + 1 PROVE s[i] = AncestorAt(b, m + i - 1)
  <2>1. CASE i = n - m + 2
    <3>1. m + i - 1 = n + 1 /\ s[i] = b
      BY SMT, <1>1, <1>3, <2>1
    <3>. QED
      BY <1>4, <3>1
  <2>2. CASE i # n - m + 2
    <3>1. i \in 1 .. n - m + 1 /\ m + i - 1 \in 0 .. n
      BY SMT, <1>1, <2>2
    <3>2. s[i] = Span(e, t)[i]
      BY SMT, <1>1, <1>3, <3>1
    <3>. QED
      BY <1>3, <1>5, <3>1, <3>2
  <2>. QED
    BY <2>1, <2>2
<1>8. s \in Seq(Blocks) /\ Len(s) = Number[b] - Number[e] + 1
      /\ \A i \in 1 .. Number[b] - Number[e] + 1 : s[i] = AncestorAt(b, Number[e] + i - 1)
  BY <1>1, <1>6, <1>7 DEF m
<1>. HIDE DEF s
<1>9. s = Span(e, b)
  BY <1>2, <1>8, SpanIs
<1>. QED
  BY <1>2, <1>9 DEF s

(* The lower part: unwind_history. *)
LEMMA SpanCut ==
  ASSUME NEW e \in Blocks, NEW p \in Blocks, NEW t \in Blocks, IsAncestor(e, p), IsAncestor(p, t)
  PROVE  SubSeq(Span(e, t), 1, Number[p] - Number[e] + 1) = Span(e, p)
<1>. DEFINE m == Number[e]
            n == Number[t]
            k == Number[p]
            s == SubSeq(Span(e, t), 1, k - m + 1)
<1>1. m \in Nat /\ n \in Nat /\ k \in Nat /\ m <= k /\ k <= n
  BY SMT, NumberIsNat DEF IsAncestor
<1>2. IsAncestor(e, t)
  BY AncestorTransitive
<1>3. /\ Span(e, t) \in Seq(Blocks) /\ Len(Span(e, t)) = n - m + 1
      /\ \A i \in 1 .. n - m + 1 : Span(e, t)[i] = AncestorAt(t, m + i - 1)
  BY <1>2, SpanFacts
<1>4. \A j \in 0 .. k : AncestorAt(p, j) = AncestorAt(t, j)
  BY AncestorAgrees
<1>. HIDE DEF m, n, k
<1>5. /\ s \in Seq(Blocks) /\ Len(s) = k - m + 1
      /\ \A i \in 1 .. k - m + 1 : s[i] = Span(e, t)[i]
  BY SMT, <1>1, <1>3
<1>6. \A i \in 1 .. k - m + 1 : i \in 1 .. n - m + 1 /\ m + i - 1 \in 0 .. k
  BY SMT, <1>1
<1>7. \A i \in 1 .. k - m + 1 : s[i] = AncestorAt(p, m + i - 1)
  BY <1>3, <1>4, <1>5, <1>6
<1>. HIDE DEF s
<1>8. s = Span(e, p)
  BY <1>5, <1>7, SpanIs DEF m, k
<1>. QED
  BY <1>8 DEF s, m, k

(* The upper part: the pruner. *)
LEMMA SpanDrop ==
  ASSUME NEW e \in Blocks, NEW p \in Blocks, NEW t \in Blocks, IsAncestor(e, p), IsAncestor(p, t)
  PROVE  SubSeq(Span(e, t), Number[p] - Number[e] + 1, Len(Span(e, t))) = Span(p, t)
<1>. DEFINE m == Number[e]
            n == Number[t]
            k == Number[p]
            s == SubSeq(Span(e, t), k - m + 1, Len(Span(e, t)))
<1>1. m \in Nat /\ n \in Nat /\ k \in Nat /\ m <= k /\ k <= n
  BY SMT, NumberIsNat DEF IsAncestor
<1>2. IsAncestor(e, t)
  BY AncestorTransitive
<1>3. /\ Span(e, t) \in Seq(Blocks) /\ Len(Span(e, t)) = n - m + 1
      /\ \A i \in 1 .. n - m + 1 : Span(e, t)[i] = AncestorAt(t, m + i - 1)
  BY <1>2, SpanFacts
<1>. HIDE DEF m, n, k
<1>5. /\ s \in Seq(Blocks) /\ Len(s) = n - k + 1
      /\ \A i \in 1 .. n - k + 1 : s[i] = Span(e, t)[k - m + i]
  BY SMT, <1>1, <1>3
<1>6. \A i \in 1 .. n - k + 1 : k - m + i \in 1 .. n - m + 1 /\ m + (k - m + i) - 1 = k + i - 1
  BY SMT, <1>1
<1>7. \A i \in 1 .. n - k + 1 : s[i] = AncestorAt(t, k + i - 1)
  BY <1>3, <1>5, <1>6
<1>. HIDE DEF s
<1>8. s = Span(p, t)
  BY <1>5, <1>7, SpanIs DEF n, k
<1>. QED
  BY <1>8 DEF s, m, k

(* Two parts that meet: replace_updates, and a backfilled block. *)
LEMMA SpanJoin ==
  ASSUME NEW e \in Blocks, NEW c \in Blocks, NEW f \in Blocks, NEW t \in Blocks,
         IsAncestor(e, c), f # Genesis, Parent[f] = c, IsAncestor(f, t)
  PROVE  IsAncestor(e, t) /\ Span(e, c) \o Span(f, t) = Span(e, t)
<1>. DEFINE m == Number[e]
            k == Number[c]
            n == Number[t]
            s == Span(e, c) \o Span(f, t)
<1>1. m \in Nat /\ n \in Nat /\ k \in Nat /\ m <= k /\ k + 1 <= n /\ Number[f] = k + 1
  BY SMT, ParentOf, NumberIsNat DEF IsAncestor
<1>2. IsAncestor(c, t) /\ IsAncestor(e, t)
  BY ParentIsAncestor, AncestorTransitive
<1>3. /\ Span(e, c) \in Seq(Blocks) /\ Len(Span(e, c)) = k - m + 1
      /\ \A i \in 1 .. k - m + 1 : Span(e, c)[i] = AncestorAt(c, m + i - 1)
  BY SpanFacts
<1>4. /\ Span(f, t) \in Seq(Blocks) /\ Len(Span(f, t)) = n - (k + 1) + 1
      /\ \A i \in 1 .. n - (k + 1) + 1 : Span(f, t)[i] = AncestorAt(t, (k + 1) + i - 1)
  <2>1. /\ Span(f, t) \in Seq(Blocks) /\ Len(Span(f, t)) = Number[t] - Number[f] + 1
        /\ \A i \in 1 .. Number[t] - Number[f] + 1 : Span(f, t)[i] = AncestorAt(t, Number[f] + i - 1)
    BY SpanFacts
  <2>2. Number[f] = k + 1 /\ Number[t] = n
    BY <1>1
  <2>. HIDE DEF k, n
  <2>. QED
    BY <2>1, <2>2
<1>5. \A j \in 0 .. k : AncestorAt(c, j) = AncestorAt(t, j)
  BY <1>2, AncestorAgrees
<1>. HIDE DEF m, n, k
<1>6. s \in Seq(Blocks) /\ Len(s) = n - m + 1
  <2>1. ASSUME NEW x \in Seq(Blocks), NEW y \in Seq(Blocks)
        PROVE  x \o y \in Seq(Blocks) /\ Len(x \o y) = Len(x) + Len(y)
    BY SMT
  <2>2. s \in Seq(Blocks) /\ Len(s) = Len(Span(e, c)) + Len(Span(f, t))
    BY <1>3, <1>4, <2>1
  <2>. QED
    BY SMT, <1>1, <1>3, <1>4, <2>2
<1>7. ASSUME NEW i \in 1 .. n - m + 1 PROVE s[i] = AncestorAt(t, m + i - 1)
  <2>1. CASE i <= k - m + 1
    <3>1. i \in 1 .. k - m + 1 /\ m + i - 1 \in 0 .. k
      BY SMT, <1>1, <2>1
    <3>2. s[i] = Span(e, c)[i]
      BY SMT, <1>1, <1>3, <1>4, <3>1
    <3>. QED
      BY <1>3, <1>5, <3>1, <3>2
  <2>2. CASE ~(i <= k - m + 1)
    <3>. DEFINE j == i - (k - m + 1)
    <3>1. j \in 1 .. n - (k + 1) + 1 /\ (k + 1) + j - 1 = m + i - 1
      BY SMT, <1>1, <2>2
    <3>2. s[i] = Span(f, t)[j]
      BY SMT, <1>1, <1>3, <1>4, <2>2
    <3>. HIDE DEF j
    <3>. QED
      BY <1>4, <3>1, <3>2
  <2>. QED
    BY <2>1, <2>2
<1>. HIDE DEF s
<1>8. s = Span(e, t)
  BY <1>2, <1>6, <1>7, SpanIs DEF m, n
<1>. QED
  BY <1>2, <1>8 DEF s

(* A span is one branch. *)
LEMMA SpanIsBranch ==
  ASSUME NEW e \in Blocks, NEW t \in Blocks, IsAncestor(e, t),
         NEW i \in 1 .. Len(Span(e, t)) - 1
  PROVE  Span(e, t)[i + 1] # Genesis /\ Parent[Span(e, t)[i + 1]] = Span(e, t)[i]
<1>. DEFINE m == Number[e]
            n == Number[t]
<1>1. m \in Nat /\ n \in Nat /\ m <= n
  BY SMT, NumberIsNat DEF IsAncestor
<1>2. Len(Span(e, t)) = n - m + 1
  BY SpanType
<1>3. \A j \in 1 .. n - m + 1 : Span(e, t)[j] = AncestorAt(t, m + j - 1)
  BY SpanAt
<1>4. \A k \in Nat : k + 1 \in 0 .. n => AncestorAt(t, k + 1) # Genesis /\ Parent[AncestorAt(t, k + 1)] = AncestorAt(t, k)
  BY NextAncestor
<1>. DEFINE k == m + i - 1
<1>. HIDE DEF m, n
<1>5. /\ i \in 1 .. n - m + 1 /\ i + 1 \in 1 .. n - m + 1
      /\ k \in Nat /\ k + 1 \in 0 .. n /\ m + (i + 1) - 1 = k + 1
  BY SMT, <1>1, <1>2
<1>6. Span(e, t)[i] = AncestorAt(t, k) /\ Span(e, t)[i + 1] = AncestorAt(t, k + 1)
  BY <1>3, <1>5
<1>. QED
  BY <1>4, <1>5, <1>6

(* The blocks of a notification. *)
LEMMA PathIsSpan ==
  ASSUME NEW a \in Blocks, NEW b \in Blocks, IsAncestor(a, b)
  PROVE  /\ a = b => Path(a, b) = <<>>
         /\ a # b => \E f \in Blocks : /\ f # Genesis /\ Parent[f] = a /\ IsAncestor(f, b)
                                      /\ Path(a, b) = Span(f, b)
<1>. DEFINE m == Number[a]
            n == Number[b]
<1>1. m \in Nat /\ n \in Nat /\ m <= n
  BY SMT, NumberIsNat DEF IsAncestor
<1>2. Branch[b] \in Seq(Blocks) /\ Len(Branch[b]) = n + 1
  BY BranchIsPath DEF PathTo
<1>3. Path(a, b) = SubSeq(Branch[b], m + 2, n + 1)
  BY DEF Path
<1>4. \A k : AncestorAt(b, k) = Branch[b][k + 1]
  BY DEF AncestorAt
<1>5. a # b => m < n
  <2>1. m = n => a = b
    BY AncestorAtSelf DEF IsAncestor
  <2>. HIDE DEF m, n
  <2>. QED
    BY SMT, <1>1, <2>1
<1>6. ASSUME a = b PROVE Path(a, b) = <<>>
  BY SMT, <1>1, <1>2, <1>3, <1>6
<1>7. ASSUME a # b
      PROVE  \E f \in Blocks : /\ f # Genesis /\ Parent[f] = a /\ IsAncestor(f, b)
                               /\ Path(a, b) = Span(f, b)
  <2>. DEFINE f == AncestorAt(b, m + 1)
              s == SubSeq(Branch[b], m + 2, n + 1)
  <2>1. m + 1 \in 0 .. n
    BY SMT, <1>1, <1>5, <1>7
  <2>2. f \in Blocks /\ Number[f] = m + 1 /\ IsAncestor(f, b)
    BY <2>1, AncestorIsBlock, AncestorAtIsAncestor
  <2>3. f # Genesis /\ Parent[f] = a
    BY <1>1, <2>1, NextAncestor DEF IsAncestor
  <2>. HIDE DEF f, m, n
  <2>4. /\ s \in Seq(Blocks) /\ Len(s) = n - (m + 1) + 1
        /\ \A i \in 1 .. n - (m + 1) + 1 : s[i] = Branch[b][(m + 1 + i - 1) + 1]
    BY SMT, <1>1, <1>2, <2>1
  <2>. HIDE DEF s
  <2>5. /\ Len(s) = Number[b] - Number[f] + 1
        /\ \A i \in 1 .. Number[b] - Number[f] + 1 : s[i] = AncestorAt(b, Number[f] + i - 1)
    BY <1>4, <2>2, <2>4 DEF n
  <2>6. s = Span(f, b)
    BY <2>2, <2>4, <2>5, SpanIs
  <2>. QED
    BY <1>3, <2>2, <2>3, <2>6 DEF s
<1>. QED
  BY <1>6, <1>7

(* The last common block. *)
LEMMA MeetIsCommon ==
  ASSUME NEW a \in Blocks, NEW b \in Blocks
  PROVE  /\ Meet(a, b) \in Blocks /\ IsAncestor(Meet(a, b), a) /\ IsAncestor(Meet(a, b), b)
         /\ IsAncestor(a, b) => Meet(a, b) = a
         /\ IsAncestor(b, a) => Meet(a, b) = b
<1>. DEFINE Shared == {n \in 0 .. Number[a] : n <= Number[b] /\ AncestorAt(a, n) = AncestorAt(b, n)}
            top == Max(Shared)
<1>1. Number[a] \in Nat /\ Number[b] \in Nat /\ Genesis \in Blocks /\ Number[Genesis] = 0
  BY SMT, BlockTreeAssumption
<1>2. 0 \in Shared
  <2>1. AncestorAt(a, 0) = Genesis /\ AncestorAt(b, 0) = Genesis
    BY <1>1, GenesisIsAncestor DEF IsAncestor
  <2>2. 0 \in 0 .. Number[a] /\ 0 <= Number[b]
    BY SMT, <1>1
  <2>. QED
    BY <2>1, <2>2
<1>3. top \in Shared /\ \A n \in Shared : top >= n
  <2>1. \A n \in Shared : n \in Nat /\ n <= Number[a]
    BY SMT, <1>1
  <2>. HIDE DEF Shared
  <2>. DEFINE T == {Number[a] - n : n \in Shared}
              R == OpToRel(<, Nat)
  <2>2. T \subseteq Nat /\ T # {}
    BY SMT, <1>1, <1>2, <2>1
  <2>3. \A x, y \in Nat : <<y, x>> \in R <=> y < x
    BY SMT DEF OpToRel
  <2>. HIDE DEF R
  <2>4. PICK d \in T : \A y \in T : ~(<<y, d>> \in R)
    <3>1. IsWellFoundedOn(R, Nat)
      BY NatLessThanWellFounded DEF R
    <3>. HIDE DEF T
    <3>. QED
      BY <2>2, <3>1, WFMin
  <2>5. \A y \in T : d \in Nat /\ y \in Nat /\ ~(y < d)
    BY <2>2, <2>3, <2>4
  <2>6. PICK x \in Shared : d = Number[a] - x
    BY SMT, <2>4
  <2>7. \A n \in Shared : x >= n
    <3>. SUFFICES ASSUME NEW n \in Shared PROVE x >= n
      BY SMT
    <3>1. Number[a] - n \in T
      OBVIOUS
    <3>. HIDE DEF T
    <3>. QED
      BY SMT, <1>1, <2>1, <2>5, <2>6, <3>1
  <2>. QED
    BY <2>7 DEF Max
<1>4. top \in 0 .. Number[a] /\ top \in 0 .. Number[b] /\ AncestorAt(a, top) = AncestorAt(b, top)
      /\ Meet(a, b) = AncestorAt(a, top)
  <2>1. Meet(a, b) = AncestorAt(a, top)
    BY DEF Meet
  <2>2. top \in 0 .. Number[a] /\ top <= Number[b] /\ AncestorAt(a, top) = AncestorAt(b, top)
    BY <1>3
  <2>. QED
    BY SMT, <1>1, <2>1, <2>2
<1>. HIDE DEF top
<1>5. Meet(a, b) \in Blocks /\ IsAncestor(Meet(a, b), a) /\ IsAncestor(Meet(a, b), b)
  BY ZenonT(30), <1>4, AncestorIsBlock, AncestorAtIsAncestor
<1>6. ASSUME IsAncestor(a, b) PROVE Meet(a, b) = a
  <2>1. Number[a] \in Shared
    BY SMT, <1>1, <1>6, AncestorAtSelf DEF IsAncestor
  <2>2. top = Number[a]
    BY SMT, <1>1, <1>3, <1>4, <2>1
  <2>. QED
    BY <1>4, <2>2, AncestorAtSelf
<1>7. ASSUME IsAncestor(b, a) PROVE Meet(a, b) = b
  <2>1. Number[b] \in Shared
    BY SMT, <1>1, <1>7, AncestorAtSelf DEF IsAncestor
  <2>2. top = Number[b]
    BY SMT, <1>1, <1>3, <1>4, <2>1
  <2>. QED
    BY <1>4, <2>2, AncestorAtSelf
<1>. QED
  BY <1>5, <1>6, <1>7

Top(s) == s[Len(s)]

(* Consecutive blocks of one branch, none of them the genesis block. *)
IsChain(s) ==
  s # <<>> => s[1] # Genesis /\ IsAncestor(s[1], Top(s)) /\ s = Span(s[1], Top(s))

LEMMA ChainFacts ==
  ASSUME NEW s \in Seq(Blocks), s # <<>>, IsChain(s)
  PROVE  /\ s[1] \in Blocks /\ s[1] # Genesis /\ Top(s) \in Blocks /\ IsAncestor(s[1], Top(s))
         /\ Len(s) = Number[Top(s)] - Number[s[1]] + 1
         /\ Number[s[1]] \in Nat /\ Number[Top(s)] \in Nat /\ Number[s[1]] <= Number[Top(s)]
         /\ Parent[s[1]] \in Blocks /\ Number[s[1]] = Number[Parent[s[1]]] + 1
<1>1. s[1] \in Blocks /\ Top(s) \in Blocks
  BY SMT DEF Top
<1>2. s[1] # Genesis /\ IsAncestor(s[1], Top(s)) /\ s = Span(s[1], Top(s))
  BY DEF IsChain
<1>3. Len(Span(s[1], Top(s))) = Number[Top(s)] - Number[s[1]] + 1
  BY <1>1, <1>2, SpanType
<1>4. Number[s[1]] \in Nat /\ Number[Top(s)] \in Nat
  BY <1>1, NumberIsNat
<1>5. Number[s[1]] <= Number[Top(s)]
  BY <1>2 DEF IsAncestor
<1>6. Parent[s[1]] \in Blocks /\ Number[s[1]] = Number[Parent[s[1]]] + 1
  BY <1>1, <1>2, ParentOf
<1>7. Len(s) = Number[Top(s)] - Number[s[1]] + 1
  BY <1>2, <1>3
<1>. QED
  BY <1>1, <1>2, <1>4, <1>5, <1>6, <1>7

(* The blocks above an ancestor. *)
LEMMA PathIsChain ==
  ASSUME NEW a \in Blocks, NEW b \in Blocks, IsAncestor(a, b)
  PROVE  /\ Path(a, b) \in Seq(Blocks) /\ IsChain(Path(a, b))
         /\ Path(a, b) = <<>> <=> a = b
         /\ a # b => Parent[Path(a, b)[1]] = a /\ Top(Path(a, b)) = b
<1>1. CASE a = b
  <2>1. Path(a, b) = <<>>
    BY <1>1, PathIsSpan
  <2>2. <<>> \in Seq(Blocks)
    BY SMT
  <2>. QED
    BY <1>1, <2>1, <2>2 DEF IsChain
<1>2. CASE a # b
  <2>1. PICK f \in Blocks : f # Genesis /\ Parent[f] = a /\ IsAncestor(f, b) /\ Path(a, b) = Span(f, b)
    BY <1>2, PathIsSpan
  <2>2. /\ Span(f, b) \in Seq(Blocks) /\ Len(Span(f, b)) \in Nat \ {0}
        /\ Span(f, b)[1] = f /\ Top(Span(f, b)) = b
    BY <2>1, SpanType DEF Top
  <2>. DEFINE p == Path(a, b)
  <2>3. p \in Seq(Blocks) /\ Len(p) # 0 /\ p[1] = f /\ Top(p) = b
    BY <2>1, <2>2
  <2>. HIDE DEF p
  <2>4. p # <<>>
    BY SMT, <2>3
  <2>. QED
    BY <1>2, <2>1, <2>3, <2>4 DEF IsChain, p
<1>. QED
  BY <1>1, <1>2

(* The heights the labels span are the heights stored. *)
Sized(s) == s \in Store /\ (s.status = "done" => Len(s.data) = HeightsUpTo(s, s.latest))

-----------------------------------------------------------------------------
(* The operations of the store: what they leave in its fields, and that     *)
(* the stored heights stay those between the labels.                        *)

LEMMA StoreFields ==
  ASSUME NEW s \in Store
  PROVE  /\ s.status \in Statuses /\ s.earliest \in Blocks /\ s.latest \in Blocks
         /\ s.data \in Seq(Blocks)
         /\ Number[s.earliest] \in Nat /\ Number[s.latest] \in Nat
BY SMT, BlockTreeAssumption DEF Store

(* The fields of a store t that follows s. *)
Becomes(t, s, e, l, d) ==
  t \in Store /\ t.status = s.status /\ t.earliest = e /\ t.latest = l /\ t.data = d

LEMMA RelabelTop ==
  ASSUME NEW s \in Store, NEW b \in Blocks, NEW d \in Seq(Blocks)
  PROVE  Becomes([s EXCEPT !.latest = b, !.data = d], s, s.earliest, b, d)
BY DEF Store, Becomes

LEMMA RelabelStart ==
  ASSUME NEW s \in Store, NEW b \in Blocks, NEW d \in Seq(Blocks)
  PROVE  Becomes([s EXCEPT !.earliest = b, !.data = d], s, b, s.latest, d)
BY DEF Store, Becomes

LEMMA LowerPart ==
  ASSUME NEW d \in Seq(Blocks), NEW n \in Nat, n <= Len(d)
  PROVE  SubSeq(d, 1, n) \in Seq(Blocks) /\ Len(SubSeq(d, 1, n)) = n
BY SMT

LEMMA UpperPart ==
  ASSUME NEW d \in Seq(Blocks), NEW n \in 1 .. Len(d)
  PROVE  SubSeq(d, n, Len(d)) \in Seq(Blocks) /\ Len(SubSeq(d, n, Len(d))) = Len(d) - n + 1
BY SMT

LEMMA Joined ==
  ASSUME NEW x \in Seq(Blocks), NEW y \in Seq(Blocks)
  PROVE  x \o y \in Seq(Blocks) /\ Len(x \o y) = Len(x) + Len(y)
BY SMT

LEMMA Appended ==
  ASSUME NEW x \in Seq(Blocks), NEW b \in Blocks
  PROVE  Append(x, b) \in Seq(Blocks) /\ Len(Append(x, b)) = Len(x) + 1
BY SMT

LEMMA AppendSized ==
  ASSUME NEW s, Sized(s), NEW b \in Blocks, StoreAccepts(s, b)
  PROVE  /\ Sized(StoreTrieUpdates(s, b))
         /\ Becomes(StoreTrieUpdates(s, b), s, s.earliest, b, Append(s.data, b))
<1>. DEFINE t == StoreTrieUpdates(s, b)
            d == Append(s.data, b)
<1>0. s \in Store /\ (s.status = "done" => Len(s.data) = HeightsUpTo(s, s.latest))
  BY DEF Sized
<1>1. /\ s.data \in Seq(Blocks) /\ s.latest \in Blocks
      /\ Number[s.earliest] \in Nat /\ Number[s.latest] \in Nat
  BY SMT, <1>0, StoreFields
<1>2. d \in Seq(Blocks) /\ Len(d) = Len(s.data) + 1
  BY <1>1, Appended
<1>3. Becomes(t, s, s.earliest, b, d)
  <2>. HIDE DEF d
  <2>1. Becomes([s EXCEPT !.latest = b, !.data = d], s, s.earliest, b, d)
    BY <1>0, <1>2, RelabelTop
  <2>2. t = [s EXCEPT !.latest = b, !.data = d]
    BY DEF d, StoreTrieUpdates
  <2>. HIDE DEF t
  <2>. QED
    BY <2>1, <2>2
<1>4. Number[b] = Number[s.latest] + 1
  BY ParentOf DEF StoreAccepts
<1>. HIDE DEF t, d
<1>5. t.status = "done" => Len(t.data) = Number[t.latest] - Number[t.earliest] + 1
  <2>1. t.status = s.status /\ t.earliest = s.earliest /\ t.latest = b /\ t.data = d
    BY <1>3 DEF Becomes
  <2>2. s.status = "done" => Len(s.data) = Number[s.latest] - Number[s.earliest] + 1
    BY <1>0 DEF HeightsUpTo
  <2>. QED
    BY SMTT(30), <1>1, <1>2, <1>4, <2>1, <2>2
<1>6. Sized(t)
  BY <1>3, <1>5 DEF Sized, Becomes, HeightsUpTo
<1>. QED
  BY <1>3, <1>6 DEF t, d

LEMMA UnwindSized ==
  ASSUME NEW s, Sized(s), s.status = "done", NEW p \in Blocks,
         Number[s.earliest] <= Number[p], Number[p] <= Number[s.latest]
  PROVE  /\ Sized(UnwindHistory(s, p))
         /\ Becomes(UnwindHistory(s, p), s, s.earliest, p,
                    SubSeq(s.data, 1, Number[p] - Number[s.earliest] + 1))
<1>. DEFINE t == UnwindHistory(s, p)
            k == Number[p] - Number[s.earliest] + 1
            d == SubSeq(s.data, 1, k)
<1>0. s \in Store /\ Len(s.data) = Number[s.latest] - Number[s.earliest] + 1
  BY DEF Sized, HeightsUpTo
<1>1. /\ s.data \in Seq(Blocks)
      /\ Number[s.earliest] \in Nat /\ Number[s.latest] \in Nat /\ Number[p] \in Nat
  BY SMT, <1>0, StoreFields, NumberIsNat
<1>2. k \in Nat /\ k <= Len(s.data)
  BY SMT, <1>0, <1>1
<1>3. d \in Seq(Blocks) /\ Len(d) = k
  <2>. HIDE DEF k
  <2>. QED
    BY <1>1, <1>2, LowerPart
<1>4. Becomes(t, s, s.earliest, p, d)
  <2>. HIDE DEF d
  <2>1. Becomes([s EXCEPT !.latest = p, !.data = d], s, s.earliest, p, d)
    BY <1>0, <1>3, RelabelTop
  <2>2. t = [s EXCEPT !.latest = p, !.data = d]
    BY DEF d, UnwindHistory, HeightsUpTo
  <2>. HIDE DEF t
  <2>. QED
    BY <2>1, <2>2
<1>. HIDE DEF t, d
<1>5. Sized(t)
  BY <1>3, <1>4 DEF Sized, Becomes, HeightsUpTo
<1>. QED
  BY <1>4, <1>5 DEF t, d

LEMMA PruneSized ==
  ASSUME NEW s, Sized(s), s.status = "done", NEW p \in Blocks,
         Number[s.earliest] <= Number[p], Number[p] <= Number[s.latest]
  PROVE  /\ Sized(PruneTo(s, p))
         /\ Becomes(PruneTo(s, p), s, p, s.latest,
                    SubSeq(s.data, Number[p] - Number[s.earliest] + 1, Len(s.data)))
<1>. DEFINE t == PruneTo(s, p)
            k == Number[p] - Number[s.earliest] + 1
            d == SubSeq(s.data, k, Len(s.data))
<1>0. s \in Store /\ Len(s.data) = Number[s.latest] - Number[s.earliest] + 1
  BY DEF Sized, HeightsUpTo
<1>1. /\ s.data \in Seq(Blocks)
      /\ Number[s.earliest] \in Nat /\ Number[s.latest] \in Nat /\ Number[p] \in Nat
  BY SMT, <1>0, StoreFields, NumberIsNat
<1>2. k \in 1 .. Len(s.data) /\ Len(s.data) - k + 1 = Number[s.latest] - Number[p] + 1
  BY SMTT(30), <1>0, <1>1
<1>3. d \in Seq(Blocks) /\ Len(d) = Number[s.latest] - Number[p] + 1
  <2>. HIDE DEF k
  <2>. QED
    BY <1>1, <1>2, UpperPart
<1>4. Becomes(t, s, p, s.latest, d)
  <2>. HIDE DEF d
  <2>1. Becomes([s EXCEPT !.earliest = p, !.data = d], s, p, s.latest, d)
    BY <1>0, <1>3, RelabelStart
  <2>2. t = [s EXCEPT !.earliest = p, !.data = d]
    BY DEF d, PruneTo, HeightsUpTo
  <2>. HIDE DEF t
  <2>. QED
    BY <2>1, <2>2
<1>. HIDE DEF t, d
<1>5. Sized(t)
  BY <1>3, <1>4 DEF Sized, Becomes, HeightsUpTo
<1>. QED
  BY <1>4, <1>5 DEF t, d

LEMMA PrependSized ==
  ASSUME NEW s, Sized(s), s.status = "done", s.earliest # Genesis
  PROVE  /\ Sized(Prepend(s, Parent[s.earliest]))
         /\ Becomes(Prepend(s, Parent[s.earliest]), s, Parent[s.earliest], s.latest,
                    <<Parent[s.earliest]>> \o s.data)
<1>. DEFINE b == Parent[s.earliest]
            t == Prepend(s, b)
            d == <<b>> \o s.data
<1>0. s \in Store /\ Len(s.data) = Number[s.latest] - Number[s.earliest] + 1
  BY DEF Sized, HeightsUpTo
<1>1. /\ s.data \in Seq(Blocks) /\ s.earliest \in Blocks
      /\ Number[s.earliest] \in Nat /\ Number[s.latest] \in Nat
  BY SMT, <1>0, StoreFields
<1>2. b \in Blocks /\ Number[s.earliest] = Number[b] + 1 /\ Number[b] \in Nat
  BY <1>1, ParentOf
<1>. HIDE DEF b
<1>3. <<b>> \in Seq(Blocks) /\ Len(<<b>>) = 1
  BY SMT, <1>2
<1>4. d \in Seq(Blocks) /\ Len(d) = 1 + Len(s.data)
  BY <1>1, <1>3, Joined
<1>5. Len(d) = Number[s.latest] - Number[b] + 1
  BY SMTT(30), <1>0, <1>1, <1>2, <1>4
<1>6. Becomes(t, s, b, s.latest, d)
  <2>. HIDE DEF d
  <2>1. Becomes([s EXCEPT !.earliest = b, !.data = d], s, b, s.latest, d)
    BY <1>0, <1>2, <1>4, RelabelStart
  <2>2. t = [s EXCEPT !.earliest = b, !.data = d]
    BY DEF d, Prepend
  <2>. HIDE DEF t
  <2>. QED
    BY <2>1, <2>2
<1>. HIDE DEF t, d
<1>7. Sized(t)
  BY <1>5, <1>6 DEF Sized, Becomes, HeightsUpTo
<1>. QED
  BY <1>6, <1>7 DEF t, d, b

LEMMA InitializedSized ==
  ASSUME NEW b \in Blocks
  PROVE  /\ Sized(InitializedAt(b)) /\ InitializedAt(b).status = "done"
         /\ InitializedAt(b).earliest = b /\ InitializedAt(b).latest = b
         /\ InitializedAt(b).data = <<b>>
<1>1. /\ InitializedAt(b).status = "done" /\ InitializedAt(b).earliest = b
      /\ InitializedAt(b).latest = b /\ InitializedAt(b).data = <<b>>
  BY SMT DEF InitializedAt
<1>2. InitializedAt(b) \in Store
  BY SMT DEF InitializedAt, Store, Statuses
<1>3. Len(<<b>>) = Number[b] - Number[b] + 1
  BY SMT, NumberIsNat
<1>. QED
  BY <1>1, <1>2, <1>3 DEF Sized, HeightsUpTo

-----------------------------------------------------------------------------
(* The data of an initialized store is the part of one branch between its   *)
(* labels.                                                                  *)
Spans(s) ==
  s.status = "done" => IsAncestor(s.earliest, s.latest) /\ s.data = Span(s.earliest, s.latest)

(* The same, of a store with these labels. *)
SpansFromTo(s, e, l) ==
  Sized(s) /\ Spans(s) /\ s.status = "done" /\ s.earliest = e /\ s.latest = l

LEMMA SpansBecomes ==
  ASSUME NEW s, NEW t, NEW e, NEW l, NEW d, Sized(t), s.status = "done", Becomes(t, s, e, l, d),
         IsAncestor(e, l), d = Span(e, l)
  PROVE  SpansFromTo(t, e, l)
BY DEF Becomes, Spans, SpansFromTo

LEMMA SpansAppend ==
  ASSUME NEW s, Sized(s), Spans(s), s.status = "done", NEW b \in Blocks, StoreAccepts(s, b)
  PROVE  SpansFromTo(StoreTrieUpdates(s, b), s.earliest, b)
<1>1. s.earliest \in Blocks /\ s.latest \in Blocks
  BY StoreFields DEF Sized
<1>2. /\ b # Genesis /\ Parent[b] = s.latest /\ IsAncestor(s.earliest, s.latest)
      /\ s.data = Span(s.earliest, s.latest)
  BY DEF Spans, StoreAccepts
<1>3. IsAncestor(s.earliest, b) /\ Append(s.data, b) = Span(s.earliest, b)
  BY ZenonT(30), <1>1, <1>2, SpanAppend
<1>. QED
  BY <1>3, AppendSized, SpansBecomes

LEMMA SpansUnwind ==
  ASSUME NEW s, Sized(s), Spans(s), s.status = "done", NEW p \in Blocks,
         Number[s.earliest] <= Number[p], IsAncestor(p, s.latest)
  PROVE  SpansFromTo(UnwindHistory(s, p), s.earliest, p)
<1>1. s.earliest \in Blocks /\ s.latest \in Blocks /\ Number[p] <= Number[s.latest]
  BY StoreFields DEF Sized, IsAncestor
<1>2. IsAncestor(s.earliest, s.latest) /\ s.data = Span(s.earliest, s.latest)
  BY DEF Spans
<1>3. IsAncestor(s.earliest, p)
  BY <1>1, <1>2, AncestorsAreOnALine
<1>4. SubSeq(s.data, 1, Number[p] - Number[s.earliest] + 1) = Span(s.earliest, p)
  <2>1. SubSeq(Span(s.earliest, s.latest), 1, Number[p] - Number[s.earliest] + 1) = Span(s.earliest, p)
    BY <1>1, <1>3, SpanCut
  <2>. QED
    BY <1>2, <2>1
<1>. QED
  BY <1>1, <1>3, <1>4, UnwindSized, SpansBecomes

LEMMA SpansPrune ==
  ASSUME NEW s, Sized(s), Spans(s), s.status = "done", NEW p \in Blocks,
         Number[s.earliest] <= Number[p], IsAncestor(p, s.latest)
  PROVE  SpansFromTo(PruneTo(s, p), p, s.latest)
<1>1. s.earliest \in Blocks /\ s.latest \in Blocks /\ Number[p] <= Number[s.latest]
  BY StoreFields DEF Sized, IsAncestor
<1>2. IsAncestor(s.earliest, s.latest) /\ s.data = Span(s.earliest, s.latest)
  BY DEF Spans
<1>3. IsAncestor(s.earliest, p)
  BY <1>1, <1>2, AncestorsAreOnALine
<1>4. SubSeq(s.data, Number[p] - Number[s.earliest] + 1, Len(s.data)) = Span(p, s.latest)
  <2>. DEFINE D == Span(s.earliest, s.latest)
  <2>1. SubSeq(D, Number[p] - Number[s.earliest] + 1, Len(D)) = Span(p, s.latest)
    BY <1>1, <1>3, SpanDrop
  <2>2. s.data = D
    BY <1>2
  <2>. HIDE DEF D
  <2>. QED
    BY <2>1, <2>2
<1>. QED
  BY <1>1, <1>4, PruneSized, SpansBecomes

LEMMA SpansPrepend ==
  ASSUME NEW s, Sized(s), Spans(s), s.status = "done", s.earliest # Genesis
  PROVE  SpansFromTo(Prepend(s, Parent[s.earliest]), Parent[s.earliest], s.latest)
<1>. DEFINE e == s.earliest
            p == Parent[e]
<1>1. e \in Blocks /\ s.latest \in Blocks
  BY StoreFields DEF Sized
<1>2. IsAncestor(e, s.latest) /\ s.data = Span(e, s.latest)
  BY DEF Spans
<1>3. p \in Blocks /\ IsAncestor(p, p) /\ <<p>> = Span(p, p)
  BY <1>1, ParentOf, AncestorReflexive, SpanOne
<1>4. IsAncestor(p, s.latest) /\ Span(p, p) \o Span(e, s.latest) = Span(p, s.latest)
  BY ZenonT(30), <1>1, <1>2, <1>3, SpanJoin
<1>5. <<p>> \o s.data = Span(p, s.latest)
  BY <1>2, <1>3, <1>4
<1>. QED
  BY <1>4, <1>5, PrependSized, SpansBecomes

LEMMA SpansInit ==
  ASSUME NEW b \in Blocks
  PROVE  SpansFromTo(InitializedAt(b), b, b)
BY InitializedSized, SpanOne, AncestorReflexive DEF SpansFromTo, Spans

(* Consistent is what Spans says block by block. *)
LEMMA SpansConsistent ==
  ASSUME NEW s, Sized(s), Spans(s), s.status = "done"
  PROVE  Consistent(s)
<1>1. s.earliest \in Blocks /\ s.latest \in Blocks
  BY StoreFields DEF Sized
<1>2. IsAncestor(s.earliest, s.latest) /\ s.data = Span(s.earliest, s.latest)
  BY DEF Spans
<1>3. s.data # <<>>
  <2>1. Len(s.data) \in Nat \ {0}
    BY <1>1, <1>2, SpanType
  <2>. QED
    BY SMT, <2>1
<1>. DEFINE D == Span(s.earliest, s.latest)
<1>4. D[1] = s.earliest /\ D[Len(D)] = s.latest
  BY ZenonT(30), <1>1, <1>2, SpanType
<1>5. \A i \in 1 .. Len(D) - 1 : D[i + 1] # Genesis /\ Parent[D[i + 1]] = D[i]
  BY <1>1, <1>2, SpanIsBranch
<1>6. s.data = D
  BY <1>2
<1>. HIDE DEF D
<1>. QED
  BY <1>3, <1>4, <1>5, <1>6 DEF Consistent

-----------------------------------------------------------------------------
USE DEF nodeVars, chanVars, durableVars, taskVars, sharedVars

(* recover_from_lag at work: it holds the write lock. *)
Recovering == caller = "lag" /\ pc \in {"reconcile", "decide", "unwind"}

(* What MoveHead publishes. *)
Sound(n) ==
  /\ n \in Notification /\ n # NoNotif
  /\ IsChain(n.old) /\ IsChain(n.new)
  /\ n.old # <<>> /\ n.new # <<>> => Parent[n.new[1]] = Parent[n.old[1]]

NodeOK ==
  /\ head \in Blocks /\ disk \in Blocks
  /\ moves \in 0 .. MaxMoves /\ crashes \in 0 .. MaxCrashes

ChanOK ==
  /\ chan \in Seq(Notification) /\ Len(chan) <= ChanCap
  /\ lagged \in BOOLEAN
  /\ \A i \in DOMAIN chan : Sound(chan[i])

StoreOK == Sized(store) /\ marker \in BOOLEAN

TaskOK ==
  /\ pc \in Pcs /\ caller \in {"start", "lag"}
  /\ notif = NoNotif \/ Sound(notif)
  /\ seen \in [best : Nat, earliest : Blocks \cup {NoBlock}]
  /\ todo \in Seq(Nat)

(* The heights still to process are heights of the notification. *)
TodoOK ==
  pc = "process" =>
    /\ notif.new # <<>>
    /\ \A i \in DOMAIN todo : todo[i] \in Number[notif.new[1]] .. Number[Top(notif.new)]

SharedOK ==
  /\ ready \in BOOLEAN /\ workers \in BOOLEAN
  /\ lock \in {"free", "sidecar", "sync"}
  /\ sync \in [pc : {"idle", "batch"}, next : Nat, end : Nat]

(* Who runs, who holds the write lock and when readers are served. *)
ControlOK ==
  /\ caller = "lag" => workers
  /\ workers => pc \in {"idle", "lagLock", "handle", "process"} \/ Recovering
  /\ pc \in {"handle", "process", "lagLock"} => workers
  /\ ready <=> workers /\ ~Recovering
  /\ lock = "sidecar" <=> pc = "process" \/ Recovering
  /\ lock = "sync" <=> sync.pc = "batch"
  /\ sync.pc = "batch" => workers
  /\ workers \/ pc \in {"unwind", "backfill"} => store.status = "done"
  /\ pc = "copy" => store.status = "copying"
  /\ pc \in {"idle", "lagLock"} \/ Recovering \/ ~Subscribed => notif = NoNotif
  /\ pc \in {"handle", "process"} => notif # NoNotif
  /\ ~Subscribed => chan = <<>> /\ ~lagged
  /\ marker => pc \in {"down", "wipe"}

SidecarInv ==
  windowOnly \in Modes /\ NodeOK /\ ChanOK /\ StoreOK /\ TaskOK /\ TodoOK /\ SharedOK /\ ControlOK

LEMMA EmptyChan == <<>> \in Seq(Notification) /\ Len(<<>>) <= ChanCap /\ DOMAIN <<>> = {}
BY SMT, SidecarAssumption

LEMMA NodeFrame == ASSUME NodeOK, UNCHANGED nodeVars PROVE NodeOK'
BY DEF NodeOK

LEMMA ChanFrame == ASSUME ChanOK, UNCHANGED chanVars PROVE ChanOK'
BY DEF ChanOK

LEMMA StoreFrame == ASSUME StoreOK, UNCHANGED durableVars PROVE StoreOK'
BY DEF StoreOK

LEMMA SharedFrame == ASSUME SharedOK, UNCHANGED <<sharedVars, sync>> PROVE SharedOK'
BY DEF SharedOK

LEMMA NoNotifType == NoNotif \in Notification /\ NoNotif.old = <<>> /\ NoNotif.new = <<>>
BY SMT DEF NoNotif, Notification

LEMMA NoStoreType == NoStore \in Store /\ NoStore.status # "done"
<1>1. NoStore.status = "none"
  BY SMT DEF NoStore
<1>2. NoStore \in Store
  BY SMT, BlockTreeAssumption DEF NoStore, Store, Statuses
<1>. QED
  BY SMT, <1>1, <1>2

(* What the first start finds. *)
LEMMA FirstStoreType == ASSUME Init PROVE store \in Store /\ store.status # "done"
<1>1. LegacyStore \in Store /\ LegacyStore.status = "legacy"
  BY SMT, NoStoreType DEF LegacyStore, Store, Statuses
<1>. QED
  BY SMT, <1>1, NoStoreType DEF Init

LEMMA NotifNone == ASSUME NEW n \in Notification, n.old = <<>>, n.new = <<>> PROVE n = NoNotif
BY SMT DEF NoNotif, Notification

LEMMA TaskType == ASSUME TaskOK PROVE notif \in Notification
BY NoNotifType DEF TaskOK, Sound

(* The invariant gives the type invariant of the model. *)
LEMMA SidecarInvType == SidecarInv => TypeOK
<1>. SUFFICES ASSUME SidecarInv PROVE TypeOK
  BY SMT
<1>1. notif \in Notification
  BY TaskType DEF SidecarInv
<1>. QED
  BY <1>1 DEF SidecarInv, NodeOK, ChanOK, StoreOK, Sized, TaskOK, SharedOK, TypeOK

LEMMA InitSidecar == Init => SidecarInv
<1>. SUFFICES ASSUME Init PROVE SidecarInv
  BY SMT
<1>1. windowOnly \in Modes /\ NodeOK
  BY SMT, BlockTreeAssumption, SidecarAssumption DEF Init, NodeOK
<1>2. ChanOK
  BY EmptyChan DEF Init, ChanOK
<1>3. StoreOK
  BY FirstStoreType DEF Init, StoreOK, Sized
<1>4. TaskOK /\ TodoOK
  BY SMT DEF Init, TaskOK, TodoOK, Pcs, NothingSeen
<1>5. SharedOK
  BY DEF Init, SharedOK, SyncIdle
<1>6. sync.pc = "idle"
  BY SMT DEF Init, SyncIdle
<1>7. ControlOK
  BY SMT, <1>6 DEF Init, ControlOK, Recovering, Subscribed
<1>. QED
  BY SMT, <1>1, <1>2, <1>3, <1>4, <1>5, <1>7 DEF SidecarInv

(* Going down. *)
LEMMA DownPreserves ==
  ASSUME SidecarInv, LoseMemory, UNCHANGED <<windowOnly, store>>,
         crashes' \in 0 .. MaxCrashes, marker' \in BOOLEAN
  PROVE  SidecarInv'
<1>0. windowOnly' \in Modes
  BY DEF SidecarInv
<1>1. NodeOK'
  BY DEF SidecarInv, NodeOK, LoseMemory
<1>2. ChanOK'
  BY EmptyChan DEF LoseMemory, ChanOK
<1>3. StoreOK'
  BY DEF SidecarInv, StoreOK
<1>4. TaskOK' /\ TodoOK'
  BY SMT DEF LoseMemory, TaskOK, TodoOK, Pcs, NothingSeen
<1>5. SharedOK'
  BY DEF LoseMemory, SharedOK, SyncIdle
<1>6. sync'.pc = "idle"
  BY SMT DEF LoseMemory, SyncIdle
<1>7. ControlOK'
  BY SMT, <1>6 DEF LoseMemory, ControlOK, Recovering, Subscribed
<1>. QED
  BY <1>0, <1>1, <1>2, <1>3, <1>4, <1>5, <1>7 DEF SidecarInv

LEMMA FailDown ==
  ASSUME SidecarInv, UNCHANGED windowOnly, Fail \/ RequestRebuild \/ Crash
  PROVE  SidecarInv' /\ LoseMemory /\ UNCHANGED store
<1>1. LoseMemory /\ UNCHANGED store
  BY DEF Fail, RequestRebuild, Crash
<1>2. marker' \in BOOLEAN
  BY DEF Fail, RequestRebuild, Crash, SidecarInv, StoreOK
<1>3. crashes' \in 0 .. MaxCrashes
  <2>1. CASE Fail \/ RequestRebuild
    BY <2>1 DEF Fail, RequestRebuild, SidecarInv, NodeOK
  <2>2. CASE Crash
    BY SMT, <2>2, SidecarAssumption DEF Crash, SidecarInv, NodeOK
  <2>. QED
    BY <2>1, <2>2
<1>. QED
  BY <1>1, <1>2, <1>3, DownPreserves

LEMMA ReplaceSized ==
  ASSUME Sized(store), store.status = "done",
         NEW new \in Seq(Blocks), new # <<>>, IsChain(new),
         Number[Parent[new[1]]] <= Number[store.latest],
         UnwindAndStore(new) # NoStore
  PROVE  /\ Sized(UnwindAndStore(new)) /\ Number[store.earliest] <= Number[Parent[new[1]]]
         /\ Becomes(UnwindAndStore(new), store, store.earliest, Top(new),
                    SubSeq(store.data, 1, Number[Parent[new[1]]] - Number[store.earliest] + 1) \o new)
<1>. DEFINE t == UnwindAndStore(new)
            c == Parent[new[1]]
            k == Number[c] - Number[store.earliest] + 1
            x == SubSeq(store.data, 1, k)
            d == x \o new
<1>0. store \in Store /\ Len(store.data) = Number[store.latest] - Number[store.earliest] + 1
  BY DEF Sized, HeightsUpTo
<1>1. /\ store.data \in Seq(Blocks)
      /\ Number[store.earliest] \in Nat /\ Number[store.latest] \in Nat
  BY <1>0, StoreFields
<1>2. /\ c \in Blocks /\ Top(new) \in Blocks /\ Number[new[1]] = Number[c] + 1
      /\ Number[new[1]] \in Nat /\ Number[Top(new)] \in Nat
      /\ Len(new) = Number[Top(new)] - Number[new[1]] + 1
  BY ChainFacts
<1>3. Number[c] \in Nat
  BY <1>2, NumberIsNat
<1>4. \/ Number[c] = Number[store.earliest] /\ c = store.earliest
         /\ t = [UnwindHistory(store, c) EXCEPT !.latest = Top(new), !.data = @ \o new]
      \/ Number[c] > Number[store.earliest] /\ t = ReplaceUpdates(store, c, new)
  BY DEF UnwindAndStore, ReplaceAccepts, Top
<1>5. Number[store.earliest] <= Number[c]
  BY SMT, <1>1, <1>3, <1>4
<1>6. k \in Nat /\ k <= Len(store.data)
  BY SMT, <1>0, <1>1, <1>3, <1>5
<1>7. x \in Seq(Blocks) /\ Len(x) = k
  <2>. HIDE DEF k
  <2>. QED
    BY <1>1, <1>6, LowerPart
<1>8. d \in Seq(Blocks) /\ Len(d) = k + Len(new)
  <2>. HIDE DEF x, k
  <2>. QED
    BY <1>7, Joined
<1>9. Len(d) = Number[Top(new)] - Number[store.earliest] + 1
  <2>. HIDE DEF d, k, c
  <2>1. Len(d) = k + (Number[Top(new)] - Number[new[1]] + 1)
    BY <1>2, <1>8
  <2>2. k = Number[c] - Number[store.earliest] + 1
    BY DEF k
  <2>3. \A e, m, n \in Nat : (m - e + 1) + (n - (m + 1) + 1) = n - e + 1
    BY SMT
  <2>4. Len(d) = (Number[c] - Number[store.earliest] + 1) + (Number[Top(new)] - (Number[c] + 1) + 1)
    BY <1>2, <2>1, <2>2
  <2>. QED
    BY ZenonT(30), <1>1, <1>2, <1>3, <2>3, <2>4
<1>10. Becomes([store EXCEPT !.latest = Top(new), !.data = d], store, store.earliest, Top(new), d)
  <2>. HIDE DEF d
  <2>. QED
    BY <1>0, <1>2, <1>8, RelabelTop
<1>11. Becomes(t, store, store.earliest, Top(new), d)
  <2>1. CASE t = ReplaceUpdates(store, c, new)
    <3>1. t = [store EXCEPT !.latest = Top(new), !.data = d]
      BY <2>1 DEF ReplaceUpdates, HeightsUpTo, Top
    <3>. HIDE DEF t, d
    <3>. QED
      BY <1>10, <3>1
  <2>2. CASE t = [UnwindHistory(store, c) EXCEPT !.latest = Top(new), !.data = @ \o new]
    <3>. DEFINE u == UnwindHistory(store, c)
    <3>1. Becomes(u, store, store.earliest, c, x)
      BY <1>2, <1>5, UnwindSized
    <3>2. t = [u EXCEPT !.latest = Top(new), !.data = u.data \o new]
      BY <2>2
    <3>. HIDE DEF u, t, x
    <3>3. u \in Store /\ u.status = store.status /\ u.earliest = store.earliest /\ u.data = x
      BY <3>1 DEF Becomes
    <3>. HIDE DEF d
    <3>4. d = u.data \o new
      BY <3>3 DEF d
    <3>5. Becomes([u EXCEPT !.latest = Top(new), !.data = d], u, u.earliest, Top(new), d)
      BY <1>2, <1>8, <3>3, RelabelTop
    <3>6. Becomes(t, u, u.earliest, Top(new), d)
      BY <3>2, <3>4, <3>5
    <3>. QED
      BY <3>3, <3>6 DEF Becomes
  <2>. QED
    BY <1>4, <2>1, <2>2
<1>. HIDE DEF t, d
<1>12. Sized(t)
  BY <1>9, <1>11 DEF Sized, Becomes, HeightsUpTo
<1>. QED
  BY <1>5, <1>11, <1>12 DEF t, d, x, k, c

-----------------------------------------------------------------------------
(* The execution client. *)

LEMMA CanonIsBlock ==
  ASSUME NodeOK, NEW n \in Nat
  PROVE  /\ CanonAt(n) \in Blocks \cup {NoBlock}
         /\ CanonAt(n) # NoBlock => CanonAt(n) \in Blocks /\ Number[CanonAt(n)] = n
         /\ n <= Number[head] => CanonAt(n) = AncestorAt(head, n) /\ CanonAt(n) # NoBlock
<1>0. head \in Blocks /\ disk \in Blocks /\ Number[head] \in Nat /\ Number[disk] \in Nat
  BY NumberIsNat DEF NodeOK
<1>1. CASE n <= Number[head]
  <2>1. n \in 0 .. Number[head] /\ CanonAt(n) = AncestorAt(head, n)
    BY SMT, <1>0, <1>1 DEF CanonAt
  <2>2. CanonAt(n) \in Blocks /\ Number[CanonAt(n)] = n
    BY <1>0, <2>1, AncestorIsBlock
  <2>. QED
    BY <2>1, <2>2, SidecarAssumption
<1>2. CASE ~(n <= Number[head]) /\ n <= Number[disk]
  <2>1. n \in 0 .. Number[disk] /\ CanonAt(n) = AncestorAt(disk, n)
    BY SMT, <1>0, <1>2 DEF CanonAt
  <2>2. CanonAt(n) \in Blocks /\ Number[CanonAt(n)] = n
    BY <1>0, <2>1, AncestorIsBlock
  <2>. QED
    BY <1>2, <2>1, <2>2, SidecarAssumption
<1>3. CASE ~(n <= Number[head]) /\ ~(n <= Number[disk])
  BY <1>3 DEF CanonAt
<1>. QED
  BY <1>1, <1>2, <1>3

(* What MoveHead publishes. *)
LEMMA PublishedIsSound ==
  ASSUME NodeOK, NEW b \in Blocks, b # head, NEW n,
         n = [old |-> Path(Meet(head, b), head), new |-> Path(Meet(head, b), b)]
  PROVE  /\ Sound(n)
         /\ n.old = <<>> <=> Meet(head, b) = head
         /\ n.old # <<>> => Parent[n.old[1]] = Meet(head, b)
         /\ n.new # <<>> => Parent[n.new[1]] = Meet(head, b) /\ Top(n.new) = b
<1>. DEFINE f == Meet(head, b)
            o == Path(f, head)
            w == Path(f, b)
<1>0. head \in Blocks
  BY DEF NodeOK
<1>1. f \in Blocks /\ IsAncestor(f, head) /\ IsAncestor(f, b)
  BY <1>0, MeetIsCommon
<1>. HIDE DEF f
<1>2. /\ o \in Seq(Blocks) /\ IsChain(o) /\ (o = <<>> <=> f = head)
      /\ (f # head => Parent[o[1]] = f)
  BY <1>0, <1>1, PathIsChain
<1>3. /\ w \in Seq(Blocks) /\ IsChain(w) /\ (w = <<>> <=> f = b)
      /\ (f # b => Parent[w[1]] = f /\ Top(w) = b)
  BY <1>1, PathIsChain
<1>4. n = [old |-> o, new |-> w]
  BY DEF f
<1>. HIDE DEF o, w
<1>5. n.old = o /\ n.new = w /\ n \in Notification
  BY SMT, <1>2, <1>3, <1>4 DEF Notification
<1>6. n # NoNotif
  <2>1. n = NoNotif => n.old = <<>> /\ n.new = <<>>
    BY NoNotifType
  <2>. QED
    BY <1>2, <1>3, <1>5, <2>1
<1>. QED
  BY <1>2, <1>3, <1>5, <1>6 DEF Sound, f

-----------------------------------------------------------------------------
(* The structural invariant, action by action. *)

(* d is c with n queued, perhaps without the oldest entry. *)
QueuedAs(d, c, n) ==
  \E o \in {0, 1} :
    /\ Len(d) = Len(c) + 1 - o /\ d # <<>> /\ d[Len(d)] = n
    /\ \A i \in 1 .. Len(d) - 1 : i + o \in 1 .. Len(c) /\ d[i] = c[i + o]

LEMMA Queued ==
  ASSUME NEW c \in Seq(Notification), NEW n \in Notification, NEW d,
         d = Append(c, n) \/ (c # <<>> /\ d = Append(Tail(c), n))
  PROVE  d \in Seq(Notification) /\ QueuedAs(d, c, n)
<1>1. CASE d = Append(c, n)
  <2>1. /\ d \in Seq(Notification) /\ Len(d) = Len(c) + 1 - 0 /\ d # <<>> /\ d[Len(d)] = n
        /\ \A i \in 1 .. Len(d) - 1 : i + 0 \in 1 .. Len(c) /\ d[i] = c[i + 0]
    BY SMT, <1>1
  <2>. QED
    BY <2>1 DEF QueuedAs
<1>2. CASE c # <<>> /\ d = Append(Tail(c), n)
  <2>. DEFINE t == Tail(c)
  <2>1. t \in Seq(Notification) /\ Len(t) = Len(c) - 1 /\ Len(c) \in Nat \ {0}
        /\ \A i \in 1 .. Len(c) - 1 : t[i] = c[i + 1]
    BY SMT, <1>2
  <2>2. d = Append(t, n)
    BY SMT, <1>2
  <2>. HIDE DEF t
  <2>3. /\ d \in Seq(Notification) /\ Len(d) = Len(t) + 1 /\ d[Len(t) + 1] = n
        /\ \A i \in 1 .. Len(t) : d[i] = t[i]
    BY SMT, <2>1, <2>2
  <2>4. /\ Len(d) = Len(c) /\ Len(d) = Len(c) + 1 - 1 /\ d # <<>> /\ d[Len(d)] = n
        /\ \A i \in 1 .. Len(d) - 1 : i + 1 \in 1 .. Len(c) /\ i \in 1 .. Len(t) /\ i \in 1 .. Len(c) - 1
    BY SMT, <2>1, <2>3
  <2>. QED
    BY <2>1, <2>3, <2>4 DEF QueuedAs
<1>. QED
  BY <1>1, <1>2

LEMMA SoundType == ASSUME NEW n, Sound(n) PROVE n \in Notification
BY DEF Sound

LEMMA PublishPreserves ==
  ASSUME ChanOK, NEW old, NEW new, Sound([old |-> old, new |-> new]), Publish(old, new)
  PROVE  ChanOK' /\ (~Subscribed => UNCHANGED chanVars)
<1>. DEFINE n == [old |-> old, new |-> new]
<1>0. Sound(n)
  OBVIOUS
<1>1. \/ ~Subscribed /\ UNCHANGED chanVars
      \/ Subscribed /\ Len(chan) < ChanCap /\ chan' = Append(chan, n) /\ lagged' = lagged
      \/ Subscribed /\ ~(Len(chan) < ChanCap) /\ chan' = Append(Tail(chan), n) /\ lagged' = TRUE
  BY DEF Publish
<1>. HIDE DEF n
<1>2. CASE UNCHANGED chanVars
  BY <1>2, ChanFrame
<1>3. CASE Subscribed /\ ~UNCHANGED chanVars
  <2>1. chan \in Seq(Notification) /\ Len(chan) <= ChanCap /\ lagged \in BOOLEAN
        /\ n \in Notification /\ ChanCap \in Nat \ {0} /\ \A i \in DOMAIN chan : Sound(chan[i])
    BY SMT, <1>0, SoundType, SidecarAssumption DEF ChanOK
  <2>2. /\ chan' = Append(chan, n) \/ (chan # <<>> /\ chan' = Append(Tail(chan), n))
        /\ Len(chan) < ChanCap \/ chan' = Append(Tail(chan), n)
        /\ lagged' \in BOOLEAN
    <3>1. ~(Len(chan) < ChanCap) => chan # <<>>
      BY SMT, <2>1
    <3>. QED
      BY <1>1, <1>3, <2>1, <3>1
  <2>3. chan' \in Seq(Notification) /\ QueuedAs(chan', chan, n)
    BY <2>1, <2>2, Queued
  <2>4. Len(chan') <= ChanCap
    BY SMT, <2>1, <2>2
  <2>5. ASSUME NEW i \in DOMAIN chan' PROVE Sound(chan'[i])
    <3>1. DOMAIN chan = 1 .. Len(chan) /\ (i \in 1 .. Len(chan') - 1 \/ i = Len(chan'))
      BY SMT, <2>1, <2>3
    <3>. QED
      BY <1>0, <2>1, <2>3, <3>1 DEF QueuedAs
  <2>6. ChanOK'
    BY <2>2, <2>3, <2>4, <2>5 DEF ChanOK
  <2>. QED
    BY <1>3, <2>6
<1>. QED
  BY <1>1, <1>2, <1>3

(* Steps that leave the task, the store and the lock alone. *)
LEMMA OutsideTask ==
  ASSUME SidecarInv, UNCHANGED <<windowOnly, durableVars, taskVars, sharedVars, sync>>,
         NodeOK', ChanOK', ~Subscribed => UNCHANGED chanVars
  PROVE  SidecarInv'
<1>1. StoreOK' /\ TaskOK' /\ TodoOK' /\ SharedOK' /\ windowOnly' \in Modes
  BY StoreFrame, SharedFrame DEF SidecarInv, TaskOK, TodoOK
<1>2. ControlOK'
  BY SMT DEF SidecarInv, ControlOK, Recovering, Subscribed
<1>. QED
  BY <1>1, <1>2 DEF SidecarInv

LEMMA MovePreserves ==
  ASSUME SidecarInv, UNCHANGED windowOnly,
         NEW b \in Blocks, MoveHead(b) \/ PipelineSync(b) \/ Persist(b)
  PROVE  SidecarInv'
<1>1. UNCHANGED <<durableVars, taskVars, sharedVars, sync>>
  BY DEF MoveHead, PipelineSync, Persist
<1>2. NodeOK'
  <2>0. NodeOK /\ MaxMoves \in Nat
    BY SidecarAssumption DEF SidecarInv
  <2>1. head' \in Blocks /\ disk' \in Blocks /\ crashes' = crashes
    BY <2>0 DEF NodeOK, MoveHead, PipelineSync, Persist
  <2>2. moves' = moves \/ (moves < MaxMoves /\ moves' = moves + 1)
    BY DEF MoveHead, PipelineSync, Persist
  <2>3. moves' \in 0 .. MaxMoves
    BY SMT, <2>0, <2>2 DEF NodeOK
  <2>. QED
    BY <2>0, <2>1, <2>3 DEF NodeOK
<1>3. ChanOK' /\ (~Subscribed => UNCHANGED chanVars)
  <2>1. CASE PipelineSync(b) \/ Persist(b)
    <3>1. UNCHANGED chanVars
      BY <2>1 DEF PipelineSync, Persist
    <3>. QED
      BY <3>1, ChanFrame DEF SidecarInv
  <2>2. CASE MoveHead(b)
    <3>. DEFINE f == Meet(head, b)
    <3>1. b # head /\ Publish(Path(f, head), Path(f, b))
      BY <2>2 DEF MoveHead
    <3>2. NodeOK /\ ChanOK
      BY DEF SidecarInv
    <3>3. Sound([old |-> Path(f, head), new |-> Path(f, b)])
      BY <3>1, <3>2, PublishedIsSound
    <3>. HIDE DEF f
    <3>. QED
      BY <3>1, <3>2, <3>3, PublishPreserves
  <2>. QED
    BY <2>1, <2>2
<1>. QED
  BY <1>1, <1>2, <1>3, OutsideTask

(* Steps of the task that keep the chain and the store. *)
LEMMA InsideTask ==
  ASSUME SidecarInv, UNCHANGED <<windowOnly, nodeVars, durableVars>>,
         ChanOK', TaskOK', TodoOK', SharedOK', ControlOK'
  PROVE  SidecarInv'
BY NodeFrame, StoreFrame DEF SidecarInv

LEMMA OpeningPreserves ==
  ASSUME SidecarInv, UNCHANGED windowOnly,
         Restart \/ WipeData \/ WipeMarker \/ Subscribe
  PROVE  SidecarInv'
<1>. USE DEF SidecarInv
<1>1. CASE Restart
  <2>1. /\ pc = "down" /\ pc' \in {"wipe", "boot"} /\ caller' = caller /\ notif' = notif
        /\ seen' = seen /\ todo' = todo
        /\ (marker => pc' = "wipe")
        /\ UNCHANGED <<nodeVars, chanVars, durableVars, sharedVars, sync>>
    BY SMT, <1>1 DEF Restart, Goto, NeedsRebuild
  <2>2. TaskOK' /\ TodoOK'
    BY SMT, <2>1 DEF TaskOK, TodoOK, Pcs
  <2>3. ControlOK'
    BY SMT, <2>1 DEF ControlOK, Recovering, Subscribed
  <2>. QED
    BY <2>1, <2>2, <2>3, ChanFrame, SharedFrame, InsideTask
<1>2. CASE WipeData
  <2>1. /\ pc = "wipe" /\ store' = NoStore
        /\ UNCHANGED <<nodeVars, chanVars, marker, taskVars, sharedVars, sync>>
    BY <1>2 DEF WipeData
  <2>2. StoreOK'
    BY <2>1, NoStoreType DEF StoreOK, Sized
  <2>3. TaskOK' /\ TodoOK'
    BY <2>1 DEF TaskOK, TodoOK
  <2>4. ControlOK'
    BY SMT, <2>1 DEF ControlOK, Recovering, Subscribed
  <2>. QED
    BY <2>1, <2>2, <2>3, <2>4, NodeFrame, ChanFrame, SharedFrame
<1>3. CASE WipeMarker
  <2>1. pc = "wipe" /\ pc' = "boot" /\ marker' = FALSE
        /\ UNCHANGED <<nodeVars, chanVars, store, caller, notif, seen, todo, sharedVars, sync>>
    BY <1>3 DEF WipeMarker
  <2>2. StoreOK'
    BY <2>1 DEF StoreOK
  <2>3. TaskOK' /\ TodoOK'
    BY SMT, <2>1 DEF TaskOK, TodoOK, Pcs
  <2>4. ControlOK'
    BY SMT, <2>1 DEF ControlOK, Recovering, Subscribed
  <2>. QED
    BY <2>1, <2>2, <2>3, <2>4, NodeFrame, ChanFrame, SharedFrame
<1>4. CASE Subscribe
  <2>1. pc = "boot" /\ pc' = "reconcile" /\ caller' = "start" /\ chan' = <<>> /\ lagged' = FALSE
        /\ UNCHANGED <<nodeVars, durableVars, notif, seen, todo, sharedVars, sync>>
    BY <1>4 DEF Subscribe
  <2>2. ChanOK'
    BY <2>1, EmptyChan DEF ChanOK
  <2>3. TaskOK' /\ TodoOK'
    BY SMT, <2>1 DEF TaskOK, TodoOK, Pcs
  <2>4. ControlOK'
    BY SMT, <2>1 DEF ControlOK, Recovering, Subscribed
  <2>. QED
    BY <2>1, <2>2, <2>3, <2>4, SharedFrame, InsideTask
<1>. QED
  BY <1>1, <1>2, <1>3, <1>4

LEMMA GotoStep ==
  ASSUME SidecarInv, UNCHANGED windowOnly, NEW label, Goto(label),
         \/ pc = "decide" /\ label = "unwind" /\ store.status = "done"
         \/ pc = "decide" /\ label = "init" /\ store.status # "done"
         \/ pc = "idle" /\ ~workers /\ label = "reconcile"
  PROVE  SidecarInv'
<1>. USE DEF SidecarInv
<1>1. /\ pc' = label
      /\ UNCHANGED <<nodeVars, chanVars, durableVars, caller, notif, seen, todo, sharedVars, sync>>
  BY DEF Goto
<1>2. TaskOK' /\ TodoOK'
  BY SMT, <1>1 DEF TaskOK, TodoOK, Pcs
<1>3. ControlOK'
  BY SMT, <1>1 DEF ControlOK, Recovering, Subscribed, TaskOK
<1>. QED
  BY <1>1, <1>2, <1>3, ChanFrame, SharedFrame, InsideTask

LEMMA ReadStep ==
  ASSUME SidecarInv, UNCHANGED windowOnly, StartupRead
  PROVE  SidecarInv'
<1>. USE DEF SidecarInv
<1>1. pc = "reconcile" /\ pc' = "decide"
      /\ UNCHANGED <<nodeVars, chanVars, durableVars, caller, notif, todo, sharedVars, sync>>
  BY DEF StartupRead
<1>2. seen' \in [best : Nat, earliest : Blocks \cup {NoBlock}]
  <2>. DEFINE e == IF store.status = "done" THEN CanonAt(Number[store.earliest]) ELSE NoBlock
  <2>1. store \in Store /\ head \in Blocks
    BY DEF StoreOK, Sized, NodeOK
  <2>2. e \in Blocks \cup {NoBlock}
    BY SMT, <2>1, StoreFields, CanonIsBlock
  <2>3. seen' = [best |-> Number[head], earliest |-> e]
    BY DEF StartupRead
  <2>. HIDE DEF e
  <2>. QED
    BY SMT, <2>1, <2>2, <2>3, NumberIsNat
<1>3. TaskOK' /\ TodoOK'
  BY SMT, <1>1, <1>2 DEF TaskOK, TodoOK, Pcs
<1>4. ControlOK'
  BY SMT, <1>1 DEF ControlOK, Recovering, Subscribed
<1>. QED
  BY <1>1, <1>3, <1>4, ChanFrame, SharedFrame, InsideTask

LEMMA WaitStep ==
  ASSUME SidecarInv, UNCHANGED windowOnly, Wait, pc \in {"decide", "backfill"}
  PROVE  SidecarInv'
<1>. USE DEF SidecarInv
<1>1. CASE caller = "lag"
  BY <1>1, FailDown DEF Wait
<1>2. CASE caller # "lag"
  <2>1. /\ pc' = "idle" /\ notif' = NoNotif
        /\ UNCHANGED <<nodeVars, chanVars, durableVars, caller, seen, todo, sharedVars, sync>>
    BY <1>2 DEF Wait
  <2>2. TaskOK' /\ TodoOK'
    BY SMT, <2>1 DEF TaskOK, TodoOK, Pcs
  <2>3. ControlOK'
    BY SMT, <1>2, <2>1 DEF ControlOK, Recovering, Subscribed
  <2>. QED
    BY <2>1, <2>2, <2>3, ChanFrame, SharedFrame, InsideTask
<1>. QED
  BY <1>1, <1>2

(* Workers run once storage is reconciled, and where they run. *)
LEMMA SpawnStep ==
  ASSUME SidecarInv, UNCHANGED windowOnly, SpawnWorkers, caller # "lag",
         pc \in {"decide", "copy", "unwind", "backfill"},
         Sized(store'), store'.status = "done"
  PROVE  SidecarInv'
<1>. USE DEF SidecarInv
<1>1. ready' = TRUE /\ workers' = TRUE /\ pc' = (IF notif = NoNotif THEN "idle" ELSE "handle")
      /\ UNCHANGED <<nodeVars, chanVars, marker, caller, notif, seen, todo, lock, sync>>
  BY DEF SpawnWorkers
<1>2. ~workers /\ ~Recovering /\ sync.pc # "batch" /\ lock = "free"
  BY SMT DEF ControlOK, Recovering, SharedOK
<1>3. TaskOK' /\ TodoOK'
  BY SMT, <1>1 DEF TaskOK, TodoOK, Pcs
<1>4. SharedOK' /\ StoreOK'
  BY <1>1 DEF SharedOK, StoreOK
<1>5. ~Recovering' /\ Subscribed' /\ pc' \in {"idle", "handle"} /\ (pc' = "handle" <=> notif # NoNotif)
  BY SMT, <1>1 DEF Recovering, Subscribed
<1>6. ControlOK'
  BY SMT, <1>1, <1>2, <1>5 DEF ControlOK
<1>. QED
  BY <1>1, <1>3, <1>4, <1>6, NodeFrame, ChanFrame

LEMMA ReconciledStep ==
  ASSUME SidecarInv, UNCHANGED windowOnly, Reconciled,
         pc \in {"decide", "copy", "unwind"},
         Sized(store'), store'.status = "done"
  PROVE  SidecarInv'
<1>. USE DEF SidecarInv
<1>1. CASE caller = "lag"
  <2>1. ready' = TRUE /\ lock' = "free" /\ pc' = "idle"
        /\ UNCHANGED <<nodeVars, chanVars, marker, caller, notif, seen, todo, workers, sync>>
    BY <1>1 DEF Reconciled
  <2>2. workers /\ Recovering /\ lock = "sidecar" /\ notif = NoNotif /\ sync.pc # "batch"
    BY SMTT(30), <1>1 DEF ControlOK, Recovering
  <2>3. TaskOK' /\ TodoOK'
    BY SMT, <2>1 DEF TaskOK, TodoOK, Pcs
  <2>4. SharedOK' /\ StoreOK'
    BY <2>1 DEF SharedOK, StoreOK
  <2>5. ControlOK'
    BY SMT, <1>1, <2>1, <2>2 DEF ControlOK, Recovering, Subscribed
  <2>. QED
    BY <2>1, <2>3, <2>4, <2>5, NodeFrame, ChanFrame
<1>2. CASE caller # "lag" /\ windowOnly
  <2>1. /\ pc' = "backfill"
        /\ UNCHANGED <<nodeVars, chanVars, marker, caller, notif, seen, todo, sharedVars, sync>>
    BY <1>2 DEF Reconciled
  <2>3. TaskOK' /\ TodoOK'
    BY SMT, <2>1 DEF TaskOK, TodoOK, Pcs
  <2>4. SharedOK' /\ StoreOK'
    BY <2>1 DEF SharedOK, StoreOK
  <2>5. ControlOK'
    BY SMT, <1>2, <2>1 DEF ControlOK, Recovering, Subscribed
  <2>. QED
    BY <2>1, <2>3, <2>4, <2>5, NodeFrame, ChanFrame
<1>3. CASE caller # "lag" /\ ~windowOnly
  BY <1>3, SpawnStep DEF Reconciled
<1>. QED
  BY <1>1, <1>2, <1>3

LEMMA StartupActionDone ==
  StartupAction = "uninitialized" <=> store.status # "done"
<1>1. CASE store.status # "done"
  BY SMT, <1>1 DEF StartupAction
<1>2. CASE store.status = "done"
  <2>1. StartupAction \in {"wait", "rebuild", "error", "ready", "unwind"}
    BY SMT, <1>2 DEF StartupAction
  <2>. QED
    BY SMT, <1>2, <2>1
<1>. QED
  BY <1>1, <1>2

LEMMA DecideStep ==
  ASSUME SidecarInv, UNCHANGED windowOnly, Decide
  PROVE  SidecarInv'
<1>0. pc = "decide" /\ Sized(store)
  BY DEF Decide, SidecarInv, StoreOK
<1>1. \/ Wait \/ Fail \/ RequestRebuild
      \/ store.status = "done" /\ Reconciled /\ UNCHANGED store
      \/ store.status = "done" /\ Goto("unwind")
      \/ store.status # "done" /\ Goto("init")
  BY SMT, StartupActionDone DEF Decide
<1>. QED
  BY <1>0, <1>1, WaitStep, FailDown, ReconciledStep, GotoStep

LEMMA CopyStep ==
  ASSUME SidecarInv, UNCHANGED windowOnly, BeginCopy \/ EndCopy
  PROVE  SidecarInv'
<1>. USE DEF SidecarInv
<1>1. CASE BeginCopy
  <2>1. pc = "init" /\ pc' = "copy"
        /\ store' = [NoStore EXCEPT !.status = "copying", !.earliest = disk, !.latest = disk]
        /\ UNCHANGED <<nodeVars, chanVars, marker, caller, notif, seen, todo, sharedVars, sync>>
    BY <1>1 DEF BeginCopy
  <2>2. store' \in Store /\ store'.status = "copying"
    <3>1. disk \in Blocks
      BY DEF NodeOK
    <3>2. NoStore \in [status : Statuses, earliest : Blocks, latest : Blocks, data : Seq(Blocks)]
      BY NoStoreType DEF Store
    <3>. QED
      BY <2>1, <3>1, <3>2 DEF Store, Statuses
  <2>3. StoreOK'
    BY SMT, <2>1, <2>2 DEF StoreOK, Sized
  <2>4. TaskOK' /\ TodoOK'
    BY SMT, <2>1 DEF TaskOK, TodoOK, Pcs
  <2>5. ControlOK'
    BY SMT, <2>1, <2>2 DEF ControlOK, Recovering, Subscribed
  <2>. QED
    BY ZenonT(30), <2>1, <2>3, <2>4, <2>5, NodeFrame, ChanFrame, SharedFrame
<1>2. CASE EndCopy
  <2>1. pc = "copy" /\ store' = InitializedAt(store.latest) /\ Reconciled /\ store.latest \in Blocks
    BY <1>2, StoreFields DEF EndCopy, StoreOK, Sized
  <2>2. Sized(store') /\ store'.status = "done"
    BY <2>1, InitializedSized
  <2>. QED
    BY <2>1, <2>2, ReconciledStep
<1>. QED
  BY <1>1, <1>2

LEMMA UnwindStep ==
  ASSUME SidecarInv, UNCHANGED windowOnly, UnwindToEarliest
  PROVE  SidecarInv'
<1>1. pc = "unwind" /\ Sized(store) /\ store.status = "done"
  BY SMT DEF UnwindToEarliest, SidecarInv, StoreOK, ControlOK
<1>2. /\ store.earliest \in Blocks
      /\ Number[store.earliest] \in Nat /\ Number[store.latest] \in Nat
  BY <1>1, StoreFields DEF Sized
<1>3. CASE Reconciled /\ UNCHANGED store
  BY <1>1, <1>3, ReconciledStep
<1>4. CASE Fail
  BY <1>4, FailDown
<1>5. CASE /\ ~(Number[store.latest] <= Number[store.earliest])
           /\ store' = UnwindHistory(store, store.earliest) /\ Reconciled
  <2>1. /\ Number[store.earliest] <= Number[store.earliest]
        /\ Number[store.earliest] <= Number[store.latest]
    BY SMT, <1>2, <1>5
  <2>2. Sized(store') /\ store'.status = "done"
    BY ZenonT(30), <1>1, <1>2, <1>5, <2>1, UnwindSized DEF Becomes
  <2>. QED
    BY ZenonT(30), <1>1, <1>5, <2>2, ReconciledStep
<1>. QED
  BY <1>3, <1>4, <1>5 DEF UnwindToEarliest

LEMMA TargetIsNat ==
  ASSUME SidecarInv
  PROVE  BackfillTarget \in Nat
<1>. DEFINE top == Max({Number[store.latest], Number[disk]})
<1>1. Number[store.latest] \in Nat /\ Number[disk] \in Nat /\ Window \in Nat
  BY SMT, StoreFields, NumberIsNat, SidecarAssumption DEF SidecarInv, StoreOK, Sized, NodeOK
<1>2. top \in Nat
  <2>. DEFINE S == {Number[store.latest], Number[disk]}
  <2>1. \E x \in S : \A y \in S : x >= y
    BY SMT, <1>1
  <2>2. top \in S
    BY <2>1 DEF Max
  <2>. QED
    BY SMT, <1>1, <2>2
<1>3. BackfillTarget = IF top > Window THEN top - Window ELSE 0
  BY DEF BackfillTarget
<1>. HIDE DEF top
<1>. QED
  BY SMT, <1>1, <1>2, <1>3

LEMMA BackfillStep ==
  ASSUME SidecarInv, UNCHANGED windowOnly, Backfill
  PROVE  SidecarInv'
<1>. USE DEF SidecarInv
<1>1. pc = "backfill" /\ Sized(store) /\ store.status = "done" /\ caller # "lag"
  BY SMT DEF Backfill, StoreOK, ControlOK, Recovering
<1>2. CASE SpawnWorkers /\ UNCHANGED store
  BY <1>1, <1>2, SpawnStep
<1>3. CASE Wait
  BY <1>1, <1>3, WaitStep
<1>4. CASE Fail \/ RequestRebuild
  BY <1>4, FailDown
<1>5. CASE /\ ~(Number[store.earliest] <= BackfillTarget)
           /\ store' = Prepend(store, Parent[store.earliest])
           /\ UNCHANGED <<nodeVars, chanVars, marker, taskVars, sharedVars, sync>>
  <2>1. store.earliest # Genesis
    BY SMT, <1>5, TargetIsNat, BlockTreeAssumption
  <2>2. Sized(store') /\ store'.status = "done"
    BY <1>1, <1>5, <2>1, PrependSized DEF Becomes
  <2>3. StoreOK' /\ TaskOK' /\ TodoOK'
    BY ZenonT(30), <1>5, <2>2 DEF StoreOK, TaskOK, TodoOK
  <2>4. ControlOK'
    BY SMT, <1>1, <1>5, <2>2 DEF ControlOK, Recovering, Subscribed
  <2>. QED
    BY ZenonT(30), <1>5, <2>3, <2>4, NodeFrame, ChanFrame, SharedFrame
<1>. QED
  BY ZenonT(30), <1>2, <1>3, <1>4, <1>5 DEF Backfill

LEMMA Dequeued ==
  ASSUME NEW c \in Seq(Notification), c # <<>>
  PROVE  /\ Tail(c) \in Seq(Notification) /\ Len(Tail(c)) = Len(c) - 1
         /\ Head(c) = c[1] /\ 1 \in DOMAIN c
         /\ \A i \in DOMAIN Tail(c) : i + 1 \in DOMAIN c /\ Tail(c)[i] = c[i + 1]
BY SMT

LEMMA RecvStep ==
  ASSUME SidecarInv, UNCHANGED windowOnly, RecvLagged \/ LagLock \/ Recv
  PROVE  SidecarInv'
<1>. USE DEF SidecarInv
<1>1. CASE RecvLagged
  <2>1. /\ pc = "idle" /\ pc' = (IF workers THEN "lagLock" ELSE "reconcile") /\ chan' = <<>>
        /\ lagged' = FALSE
        /\ UNCHANGED <<nodeVars, durableVars, caller, notif, seen, todo, sharedVars, sync>>
    BY <1>1 DEF RecvLagged
  <2>2. ChanOK'
    BY ZenonT(30), <2>1, EmptyChan DEF ChanOK
  <2>3. TaskOK' /\ TodoOK'
    BY SMT, <2>1 DEF TaskOK, TodoOK, Pcs
  <2>4. ControlOK'
    BY SMT, <2>1 DEF ControlOK, Recovering, Subscribed, TaskOK
  <2>. QED
    BY ZenonT(30), <2>1, <2>2, <2>3, <2>4, SharedFrame, InsideTask
<1>2. CASE LagLock
  <2>1. /\ pc = "lagLock" /\ lock = "free" /\ lock' = "sidecar" /\ ready' = FALSE
        /\ pc' = "reconcile" /\ caller' = "lag"
        /\ UNCHANGED <<nodeVars, chanVars, durableVars, notif, seen, todo, workers, sync>>
    BY <1>2 DEF LagLock
  <2>2. TaskOK' /\ TodoOK'
    BY SMT, <2>1 DEF TaskOK, TodoOK, Pcs
  <2>3. SharedOK'
    BY <2>1 DEF SharedOK
  <2>4. ControlOK'
    BY SMT, <2>1 DEF ControlOK, Recovering, Subscribed
  <2>. QED
    BY ZenonT(30), <2>1, <2>2, <2>3, <2>4, ChanFrame, InsideTask
<1>3. CASE Recv
  <2>1. pc = "idle" /\ chan # <<>> /\ chan' = Tail(chan) /\ notif' = Head(chan)
        /\ pc' = (IF workers THEN "handle" ELSE "reconcile") /\ caller' = "start"
        /\ UNCHANGED <<nodeVars, lagged, durableVars, seen, todo, sharedVars, sync>>
    BY <1>3 DEF Recv
  <2>2. chan \in Seq(Notification) /\ Len(chan) <= ChanCap /\ lagged \in BOOLEAN
        /\ \A i \in DOMAIN chan : Sound(chan[i])
    BY DEF ChanOK
  <2>3. /\ chan' \in Seq(Notification) /\ Len(chan') = Len(chan) - 1 /\ notif' = chan[1]
        /\ 1 \in DOMAIN chan
        /\ \A i \in DOMAIN chan' : i + 1 \in DOMAIN chan /\ chan'[i] = chan[i + 1]
    BY <2>1, <2>2, Dequeued
  <2>4. Len(chan') <= ChanCap
    BY SMTT(30), <2>2, <2>3, SidecarAssumption
  <2>5. Sound(notif') /\ \A i \in DOMAIN chan' : Sound(chan'[i])
    BY <2>2, <2>3
  <2>6. ChanOK'
    BY ZenonT(30), <2>1, <2>2, <2>3, <2>4, <2>5 DEF ChanOK
  <2>7. notif' # NoNotif
    BY ZenonT(30), <2>5 DEF Sound
  <2>8. TaskOK' /\ TodoOK'
    BY SMT, <2>1, <2>5 DEF TaskOK, TodoOK, Pcs
  <2>9. ControlOK'
    BY SMT, <2>1, <2>7 DEF ControlOK, Recovering, Subscribed, TaskOK
  <2>. QED
    BY ZenonT(30), <2>1, <2>6, <2>8, <2>9, SharedFrame, InsideTask
<1>. QED
  BY <1>1, <1>2, <1>3

-----------------------------------------------------------------------------
(* handle_notification. *)

LEMMA NoteStep ==
  ASSUME SidecarInv, UNCHANGED windowOnly, pc = "handle", NoteDone,
         Sized(store'), store'.status = "done"
  PROVE  SidecarInv'
<1>. USE DEF SidecarInv
<1>1. /\ pc' = "idle" /\ notif' = NoNotif
      /\ UNCHANGED <<nodeVars, chanVars, marker, caller, seen, todo, sharedVars, sync>>
  BY DEF NoteDone
<1>2. TaskOK' /\ TodoOK'
  BY SMT, <1>1 DEF TaskOK, TodoOK, Pcs
<1>3. StoreOK'
  BY <1>1 DEF StoreOK
<1>4. ControlOK'
  BY SMT, <1>1 DEF ControlOK, Recovering, Subscribed
<1>. QED
  BY ZenonT(30), <1>1, <1>2, <1>3, <1>4, NodeFrame, ChanFrame, SharedFrame

LEMMA HeightsType ==
  ASSUME NEW a \in Nat, NEW b \in Nat
  PROVE  Heights(a, b) \in Seq(Nat) /\ \A i \in DOMAIN Heights(a, b) : Heights(a, b)[i] \in a .. b
<1>. DEFINE n == IF b < a THEN 0 ELSE b - a + 1
<1>1. n \in Nat /\ Heights(a, b) = [i \in 1 .. n |-> a + i - 1]
  BY SMT DEF Heights
<1>2. \A i \in 1 .. n : a + i - 1 \in Nat /\ a + i - 1 \in a .. b
  BY SMT
<1>. HIDE DEF n
<1>. QED
  BY SMT, <1>1, <1>2

LEMMA ProcessStep ==
  ASSUME SidecarInv, UNCHANGED windowOnly, pc = "handle", lock = "free",
         NEW a \in Nat, NEW b \in Nat, ProcessHeights(Heights(a, b)),
         notif.new # <<>>, Number[notif.new[1]] \in Nat,
         Number[notif.new[1]] <= a, b = Number[Top(notif.new)],
         Sized(store'), store'.status = "done"
  PROVE  SidecarInv'
<1>. USE DEF SidecarInv
<1>1. pc' = "process" /\ todo' = Heights(a, b) /\ lock' = "sidecar"
      /\ UNCHANGED <<nodeVars, chanVars, marker, caller, notif, seen, ready, workers, sync>>
  BY DEF ProcessHeights
<1>2. todo' \in Seq(Nat) /\ \A i \in DOMAIN todo' : todo'[i] \in a .. b
  BY <1>1, HeightsType
<1>3. \A i \in DOMAIN todo' : todo'[i] \in Number[notif.new[1]] .. Number[Top(notif.new)]
  <2>1. \A x \in a .. b : x \in Number[notif.new[1]] .. b
    BY SMT
  <2>. QED
    BY <1>2, <2>1
<1>4. TodoOK'
  BY ZenonT(30), <1>1, <1>3 DEF TodoOK
<1>5. TaskOK'
  BY ZenonT(30), <1>1, <1>2 DEF TaskOK, Pcs
<1>6. StoreOK' /\ SharedOK'
  BY ZenonT(30), <1>1 DEF StoreOK, SharedOK
<1>7. ControlOK'
  BY SMT, <1>1 DEF ControlOK, Recovering, Subscribed
<1>. QED
  BY ZenonT(30), <1>1, <1>4, <1>5, <1>6, <1>7, NodeFrame, ChanFrame

(* The notification being handled. *)
LEMMA HandledFacts ==
  ASSUME SidecarInv, pc \in {"handle", "process"}
  PROVE  /\ Sound(notif) /\ notif.old \in Seq(Blocks) /\ notif.new \in Seq(Blocks)
         /\ IsChain(notif.old) /\ IsChain(notif.new)
         /\ notif.old # <<>> \/ notif.new # <<>>
         /\ notif.old # <<>> /\ notif.new # <<>> => Parent[notif.new[1]] = Parent[notif.old[1]]
         /\ Sized(store) /\ store.status = "done"
<1>1. Sound(notif)
  BY DEF SidecarInv, TaskOK, ControlOK
<1>2. notif \in Notification /\ notif # NoNotif
  BY <1>1 DEF Sound
<1>3. notif.old \in Seq(Blocks) /\ notif.new \in Seq(Blocks)
  BY SMT, <1>2 DEF Notification
<1>4. notif.old # <<>> \/ notif.new # <<>>
  BY <1>2, NotifNone
<1>5. Sized(store) /\ store.status = "done"
  BY SMT DEF SidecarInv, StoreOK, ControlOK
<1>. QED
  BY <1>1, <1>3, <1>4, <1>5 DEF Sound

LEMMA CommittedStep ==
  ASSUME SidecarInv, UNCHANGED windowOnly, HandleCommitted
  PROVE  SidecarInv'
<1>1. pc = "handle" /\ lock = "free" /\ notif.old = <<>> /\ UNCHANGED store
  BY DEF HandleCommitted
<1>2. /\ notif.new \in Seq(Blocks) /\ notif.new # <<>> /\ IsChain(notif.new) /\ Sized(store)
      /\ store.status = "done"
  BY <1>1, HandledFacts
<1>3. Number[notif.new[1]] \in Nat /\ Number[Top(notif.new)] \in Nat
  BY <1>2, ChainFacts
<1>4. Number[store.latest] \in Nat
  BY <1>2, StoreFields DEF Sized
<1>5. CASE NoteDone
  BY <1>1, <1>2, <1>5, NoteStep
<1>6. CASE /\ TakesCommit(notif.new)
           /\ ProcessHeights(Heights(Number[store.latest] + 1, Number[Top(notif.new)]))
  <2>1. Number[store.latest] + 1 \in Nat /\ Number[notif.new[1]] <= Number[store.latest] + 1
    BY SMT, <1>4, <1>6 DEF TakesCommit
  <2>2. Sized(store') /\ store'.status = "done"
    BY <1>1, <1>2
  <2>. QED
    BY ZenonT(30), <1>1, <1>2, <1>3, <1>6, <2>1, <2>2, ProcessStep
<1>. QED
  BY <1>5, <1>6 DEF HandleCommitted, Top

(* The parent of the first block that left the chain lies in the window.    *)
LEMMA ForkInWindow ==
  ASSUME SidecarInv, pc \in {"handle", "process"}, notif.old # <<>>, ~AboveStore, ~TouchesEarliest
  PROVE  /\ Parent[notif.old[1]] \in Blocks
         /\ Number[store.earliest] <= Number[Parent[notif.old[1]]]
         /\ Number[Parent[notif.old[1]]] <= Number[store.latest]
<1>1. /\ Parent[notif.old[1]] \in Blocks /\ Number[notif.old[1]] \in Nat
      /\ Number[notif.old[1]] = Number[Parent[notif.old[1]]] + 1
  BY HandledFacts, ChainFacts
<1>2. Number[store.earliest] \in Nat /\ Number[store.latest] \in Nat
  BY HandledFacts, StoreFields DEF Sized
<1>3. Number[Parent[notif.old[1]]] \in Nat
  BY <1>1, NumberIsNat
<1>4. /\ ~(Number[notif.old[1]] > Number[store.latest])
      /\ ~(Number[notif.old[1]] <= Number[store.earliest])
  BY DEF AboveStore, TouchesEarliest
<1>5. /\ Number[store.earliest] <= Number[Parent[notif.old[1]]]
      /\ Number[Parent[notif.old[1]]] <= Number[store.latest]
  BY SMT, <1>1, <1>2, <1>3, <1>4
<1>. QED
  BY <1>1, <1>5

LEMMA ReorgStep ==
  ASSUME SidecarInv, UNCHANGED windowOnly, HandleReorged \/ HandleReverted
  PROVE  SidecarInv'
<1>. DEFINE p == Parent[notif.old[1]]
<1>1. pc = "handle" /\ lock = "free" /\ notif.old # <<>>
  BY DEF HandleReorged, HandleReverted
<1>2. /\ notif.new \in Seq(Blocks) /\ IsChain(notif.new) /\ Sized(store) /\ store.status = "done"
      /\ notif.new # <<>> => Parent[notif.new[1]] = p
  BY <1>1, HandledFacts
<1>3. \/ Fail
      \/ NoteDone /\ UNCHANGED store
      \/ ~AboveStore /\ ~TouchesEarliest /\ store' = UnwindHistory(store, p) /\ NoteDone
      \/ /\ notif.new # <<>> /\ ~AboveStore /\ ~TouchesEarliest /\ store' = UnwindHistory(store, p)
         /\ ProcessHeights(Heights(Number[notif.new[1]], Number[Top(notif.new)]))
      \/ /\ notif.new # <<>> /\ ~AboveStore /\ ~TouchesEarliest /\ UnwindAndStore(notif.new) # NoStore
         /\ store' = UnwindAndStore(notif.new) /\ NoteDone
  BY DEF HandleReorged, HandleReverted, Top
<1>4. CASE ~AboveStore /\ ~TouchesEarliest
  <2>1. p \in Blocks /\ Number[store.earliest] <= Number[p] /\ Number[p] <= Number[store.latest]
    BY <1>1, <1>4, ForkInWindow
  <2>. HIDE DEF p
  <2>2. store' = UnwindHistory(store, p) => Sized(store') /\ store'.status = "done"
    <3>1. Sized(UnwindHistory(store, p)) /\ UnwindHistory(store, p).status = "done"
      BY <1>2, <2>1, UnwindSized DEF Becomes
    <3>. QED
      BY <3>1
  <2>3. ASSUME notif.new # <<>>, UnwindAndStore(notif.new) # NoStore,
               store' = UnwindAndStore(notif.new)
        PROVE  Sized(store') /\ store'.status = "done"
    <3>1. Number[Parent[notif.new[1]]] <= Number[store.latest]
      BY <1>2, <2>1, <2>3
    <3>2. Sized(UnwindAndStore(notif.new)) /\ UnwindAndStore(notif.new).status = "done"
      BY <1>2, <2>3, <3>1, ReplaceSized DEF Becomes
    <3>. QED
      BY <2>3, <3>2
  <2>4. notif.new # <<>> => /\ Number[notif.new[1]] \in Nat /\ Number[Top(notif.new)] \in Nat
                            /\ Number[notif.new[1]] <= Number[notif.new[1]]
    BY SMT, <1>2, ChainFacts
  <2>5. CASE Fail
    BY <2>5, FailDown
  <2>6. CASE NoteDone /\ Sized(store') /\ store'.status = "done"
    BY <1>1, <2>6, NoteStep
  <2>7. CASE /\ notif.new # <<>> /\ ProcessHeights(Heights(Number[notif.new[1]], Number[Top(notif.new)]))
             /\ Sized(store') /\ store'.status = "done"
    BY <1>1, <2>4, <2>7, ProcessStep
  <2>8. UNCHANGED store => Sized(store') /\ store'.status = "done"
    BY ZenonT(30), <1>2
  <2>. QED
    BY ZenonT(30), <1>3, <2>2, <2>3, <2>5, <2>6, <2>7, <2>8 DEF p
<1>5. CASE Fail
  BY <1>5, FailDown
<1>6. CASE NoteDone /\ UNCHANGED store
  <2>1. Sized(store') /\ store'.status = "done"
    BY <1>2, <1>6
  <2>. QED
    BY <1>1, <1>6, <2>1, NoteStep
<1>. QED
  BY <1>3, <1>4, <1>5, <1>6

(* What process_block takes from the notification is a block of it.         *)
LEMMA ProcessedBlock ==
  ASSUME SidecarInv, pc = "process", todo # <<>>,
         NEW n, n = Head(todo), NEW b,
         b = notif.new[n - Number[notif.new[1]] + 1] \/ (b = CanonAt(n) /\ b # NoBlock)
  PROVE  b \in Blocks /\ n \in Nat /\ Tail(todo) \in Seq(Nat)
         /\ n - Number[notif.new[1]] + 1 \in 1 .. Len(notif.new)
         /\ \A i \in DOMAIN Tail(todo) : i + 1 \in DOMAIN todo /\ Tail(todo)[i] = todo[i + 1]
<1>. DEFINE new == notif.new
<1>1. todo \in Seq(Nat) /\ NodeOK
  BY DEF SidecarInv, TaskOK
<1>2. new # <<>> /\ \A i \in DOMAIN todo : todo[i] \in Number[new[1]] .. Number[Top(new)]
  BY DEF SidecarInv, TodoOK
<1>3. n \in Nat /\ n = todo[1] /\ 1 \in DOMAIN todo /\ Tail(todo) \in Seq(Nat)
      /\ \A i \in DOMAIN Tail(todo) : i + 1 \in DOMAIN todo /\ Tail(todo)[i] = todo[i + 1]
  BY SMT, <1>1
<1>4. new \in Seq(Blocks) /\ IsChain(new)
  BY HandledFacts
<1>. HIDE DEF new
<1>5. /\ Number[new[1]] \in Nat /\ Number[Top(new)] \in Nat
      /\ Len(new) = Number[Top(new)] - Number[new[1]] + 1
  BY <1>2, <1>4, ChainFacts
<1>6. n \in Number[new[1]] .. Number[Top(new)]
  BY <1>2, <1>3
<1>7. n - Number[new[1]] + 1 \in 1 .. Len(new)
  <2>1. \A i, j, k \in Nat : k \in i .. j => k - i + 1 \in 1 .. j - i + 1
    BY SMT
  <2>. QED
    BY <1>3, <1>5, <1>6, <2>1
<1>8. new[n - Number[new[1]] + 1] \in Blocks
  BY SMT, <1>4, <1>7
<1>9. b = CanonAt(n) /\ b # NoBlock => b \in Blocks
  BY <1>1, <1>3, CanonIsBlock
<1>. QED
  BY <1>3, <1>7, <1>8, <1>9 DEF new

LEMMA ProcessBlockStep ==
  ASSUME SidecarInv, UNCHANGED windowOnly, ProcessBlock \/ ProcessDone
  PROVE  SidecarInv'
<1>. USE DEF SidecarInv
<1>1. CASE ProcessDone
  <2>1. pc = "process" /\ pc' = "idle" /\ notif' = NoNotif /\ lock' = "free"
        /\ UNCHANGED <<nodeVars, chanVars, durableVars, caller, seen, todo, ready, workers, sync>>
    BY <1>1 DEF ProcessDone
  <2>2. TaskOK' /\ TodoOK'
    BY SMT, <2>1 DEF TaskOK, TodoOK, Pcs
  <2>3. SharedOK'
    BY <2>1 DEF SharedOK
  <2>4. ControlOK'
    BY SMT, <2>1 DEF ControlOK, Recovering, Subscribed
  <2>. QED
    BY <2>1, <2>2, <2>3, <2>4, ChanFrame, InsideTask
<1>2. CASE Fail
  BY <1>2, FailDown
<1>3. CASE ProcessBlock /\ ~Fail
  <2>1. pc = "process" /\ todo # <<>>
    BY <1>3 DEF ProcessBlock
  <2>2. PICK b : /\ b = notif.new[Head(todo) - Number[notif.new[1]] + 1] \/ (b = CanonAt(Head(todo)) /\ b # NoBlock)
                 /\ StoreAccepts(store, b)
                 /\ store' = StoreTrieUpdates(store, b) /\ todo' = Tail(todo)
                 /\ UNCHANGED <<nodeVars, chanVars, marker, pc, caller, notif, seen, sharedVars, sync>>
    BY <1>3 DEF ProcessBlock, Executes
  <2>3. b \in Blocks /\ todo' \in Seq(Nat) /\ \A i \in DOMAIN todo' : i + 1 \in DOMAIN todo /\ todo'[i] = todo[i + 1]
    BY <2>1, <2>2, ProcessedBlock
  <2>4. Sized(store) /\ store.status = "done"
    BY <2>1, HandledFacts
  <2>5. Sized(store') /\ store'.status = "done"
    BY <2>2, <2>3, <2>4, AppendSized DEF Becomes
  <2>6. TaskOK' /\ TodoOK'
    BY <2>2, <2>3 DEF TaskOK, TodoOK
  <2>7. StoreOK'
    BY ZenonT(30), <2>2, <2>5 DEF StoreOK
  <2>8. ControlOK'
    BY SMT, <2>1, <2>2, <2>5 DEF ControlOK, Recovering, Subscribed
  <2>. QED
    BY ZenonT(30), <2>2, <2>6, <2>7, <2>8, NodeFrame, ChanFrame, SharedFrame
<1>. QED
  BY <1>1, <1>2, <1>3

LEMMA SyncBatchType ==
  ASSUME NEW l \in Nat, NEW d \in Nat
  PROVE  Min({l + SyncBatch, d}) \in Nat /\ Min({l + SyncBatch, d}) <= d
<1>. DEFINE S == {l + SyncBatch, d}
<1>1. SyncBatch \in Nat
  BY SMT, SidecarAssumption
<1>2. \E x \in S : \A y \in S : x <= y
  BY SMT, <1>1
<1>3. Min(S) \in S /\ \A y \in S : Min(S) <= y
  BY <1>2 DEF Min
<1>. QED
  BY SMT, <1>1, <1>3

LEMMA SyncStep ==
  ASSUME SidecarInv, UNCHANGED windowOnly, SyncStart \/ SyncBlock \/ SyncRelease
  PROVE  SidecarInv'
<1>. USE DEF SidecarInv
<1>0. Number[store.latest] \in Nat /\ Number[disk] \in Nat /\ NodeOK /\ Sized(store)
  BY StoreFields, NumberIsNat DEF StoreOK, Sized, NodeOK
<1>1. CASE SyncStart \/ SyncRelease
  <2>1. UNCHANGED <<nodeVars, chanVars, durableVars, taskVars, ready, workers>>
    BY <1>1 DEF SyncStart, SyncRelease
  <2>2. \/ /\ workers /\ lock = "free" /\ lock' = "sync" /\ sync'.pc = "batch"
           /\ sync' \in [pc : {"idle", "batch"}, next : Nat, end : Nat]
        \/ /\ sync.pc = "batch" /\ lock' = "free" /\ sync'.pc = "idle"
           /\ sync' \in [pc : {"idle", "batch"}, next : Nat, end : Nat]
    <3>1. CASE SyncStart
      <4>. DEFINE e == Min({Number[store.latest] + SyncBatch, Number[disk]})
                  m == Number[store.latest] + 1
      <4>1. e \in Nat /\ m \in Nat
        BY SMT, <1>0, SyncBatchType
      <4>2. /\ workers /\ lock = "free" /\ lock' = "sync"
            /\ sync' = [pc |-> "batch", next |-> m, end |-> e]
        BY <3>1 DEF SyncStart
      <4>. HIDE DEF e, m
      <4>. QED
        BY SMT, <4>1, <4>2
    <3>2. CASE SyncRelease
      BY SMT, <3>2 DEF SyncRelease, SyncIdle
    <3>. QED
      BY <1>1, <3>1, <3>2
  <2>3. SharedOK'
    BY SMT, <2>1, <2>2 DEF SharedOK
  <2>4. TaskOK' /\ TodoOK'
    BY ZenonT(30), <2>1 DEF TaskOK, TodoOK
  <2>5. ControlOK'
    BY SMT, <2>1, <2>2 DEF ControlOK, Recovering, Subscribed
  <2>. QED
    BY <2>1, <2>3, <2>4, <2>5, ChanFrame, InsideTask
<1>2. CASE SyncBlock
  <2>. DEFINE b == CanonAt(sync.next)
  <2>1. /\ sync.pc = "batch" /\ b # NoBlock /\ StoreAccepts(store, b)
        /\ store' = StoreTrieUpdates(store, b) /\ sync' = [sync EXCEPT !.next = @ + 1]
        /\ UNCHANGED <<nodeVars, chanVars, marker, taskVars, sharedVars>>
    BY <1>2 DEF SyncBlock, Executes
  <2>2. sync.next \in Nat
    BY SMT DEF SharedOK
  <2>3. b \in Blocks
    BY ZenonT(30), <1>0, <2>1, <2>2, CanonIsBlock
  <2>. HIDE DEF b
  <2>4. workers /\ store.status = "done"
    BY SMT, <2>1 DEF ControlOK
  <2>5. Sized(store') /\ store'.status = "done"
    BY ZenonT(30), <1>0, <2>1, <2>3, <2>4, AppendSized DEF Becomes
  <2>6. SharedOK' /\ sync'.pc = sync.pc
    BY SMT, <2>1 DEF SharedOK
  <2>7. TaskOK' /\ TodoOK' /\ StoreOK'
    BY <2>1, <2>5 DEF TaskOK, TodoOK, StoreOK
  <2>8. ControlOK'
    BY SMT, <2>1, <2>4, <2>5, <2>6 DEF ControlOK, Recovering, Subscribed
  <2>. QED
    BY <2>1, <2>6, <2>7, <2>8, NodeFrame, ChanFrame
<1>. QED
  BY <1>1, <1>2

LEMMA PruneFacts ==
  ASSUME SidecarInv, Prune
  PROVE  LET p == CanonAt(Number[store.latest] - Window)
         IN  /\ Number[store.latest] - Window \in Nat
             /\ p \in Blocks /\ Number[p] = Number[store.latest] - Window
             /\ Number[store.earliest] <= Number[p] /\ Number[p] <= Number[store.latest]
             /\ Number[p] # Number[store.earliest]
             /\ Sized(store) /\ store.status = "done" /\ store' = PruneTo(store, p)
<1>. DEFINE start == Number[store.latest] - Window
<1>1. /\ Sized(store) /\ NodeOK /\ Number[store.latest] \in Nat /\ Number[store.earliest] \in Nat
      /\ Window \in Nat
  BY SMT, StoreFields, SidecarAssumption DEF SidecarInv, StoreOK, Sized
<1>2. /\ start > Number[store.earliest] /\ workers /\ CanonAt(start) # NoBlock
      /\ store' = PruneTo(store, CanonAt(start))
  BY DEF Prune
<1>3. /\ start \in Nat /\ Number[store.earliest] <= start /\ start <= Number[store.latest]
      /\ start # Number[store.earliest]
  BY SMT, <1>1, <1>2
<1>. HIDE DEF start
<1>4. CanonAt(start) \in Blocks /\ Number[CanonAt(start)] = start
  BY <1>1, <1>2, <1>3, CanonIsBlock
<1>5. store.status = "done"
  BY SMT, <1>2 DEF SidecarInv, ControlOK
<1>. QED
  BY ZenonT(30), <1>1, <1>2, <1>3, <1>4, <1>5 DEF start

LEMMA PruneStep ==
  ASSUME SidecarInv, UNCHANGED windowOnly, Prune
  PROVE  SidecarInv'
<1>. USE DEF SidecarInv
<1>1. workers /\ UNCHANGED <<nodeVars, chanVars, marker, taskVars, sharedVars, sync>>
  BY DEF Prune
<1>2. Sized(store') /\ store'.status = "done"
  BY ZenonT(30), PruneFacts, PruneSized DEF Becomes
<1>3. TaskOK' /\ TodoOK' /\ StoreOK'
  BY <1>1, <1>2 DEF TaskOK, TodoOK, StoreOK
<1>4. ControlOK'
  BY SMT, <1>1, <1>2 DEF ControlOK, Recovering, Subscribed
<1>. QED
  BY <1>1, <1>3, <1>4, NodeFrame, ChanFrame, SharedFrame

LEMMA NextSidecar == SidecarInv /\ [Next]_vars => SidecarInv'
<1>. SUFFICES ASSUME SidecarInv, [Next]_vars PROVE SidecarInv'
  BY SMT
<1>1. CASE UNCHANGED vars
  <2>1. UNCHANGED <<windowOnly, nodeVars, chanVars, durableVars, taskVars, sharedVars, sync>>
    BY <1>1 DEF vars
  <2>. QED
    BY <2>1, NodeFrame, ChanFrame, OutsideTask DEF SidecarInv
<1>2. CASE Next
  <2>0. UNCHANGED windowOnly
    BY <1>2 DEF Next
  <2>1. ASSUME NEW b \in Blocks, MoveHead(b) \/ PipelineSync(b) \/ Persist(b) PROVE SidecarInv'
    BY <2>0, <2>1, MovePreserves
  <2>2. CASE Crash
    BY <2>0, <2>2, FailDown
  <2>3. CASE Restart \/ WipeData \/ WipeMarker \/ Subscribe
    BY <2>0, <2>3, OpeningPreserves
  <2>4. CASE RetryTick
    BY <2>0, <2>4, GotoStep DEF RetryTick
  <2>5. CASE StartupRead \/ Decide \/ BeginCopy \/ EndCopy \/ UnwindToEarliest \/ Backfill
    BY ZenonT(30), <2>0, <2>5, ReadStep, DecideStep, CopyStep, UnwindStep, BackfillStep
  <2>6. CASE RecvLagged \/ LagLock \/ Recv
    BY <2>0, <2>6, RecvStep
  <2>7. CASE HandleCommitted \/ HandleReorged \/ HandleReverted
    BY <2>0, <2>7, CommittedStep, ReorgStep
  <2>8. CASE ProcessBlock \/ ProcessDone
    BY <2>0, <2>8, ProcessBlockStep
  <2>9. CASE SyncLoop
    BY <2>0, <2>9, SyncStep DEF SyncLoop
  <2>10. CASE Prune
    BY <2>0, <2>10, PruneStep
  <2>. QED
    BY ZenonT(30), <1>2, <2>1, <2>2, <2>3, <2>4, <2>5, <2>6, <2>7, <2>8, <2>9, <2>10 DEF Next,
       Task, Node
<1>. QED
  BY <1>1, <1>2

(* The variables of the sidecar keep their types (the type invariant of the *)
(* model): in particular every store the handlers, the sync loop, the       *)
(* pruner, backfill and startup leave holds exactly the heights between its *)
(* two labels, whatever the chain does and however deep its reorgs are.     *)
THEOREM SidecarTypes == Spec => []TypeOK
<1>. QED
  BY InitSidecar, NextSidecar, SidecarInvType, PTL DEF Spec

-----------------------------------------------------------------------------
(* While the marker exists no reader is sent to the store (readiness), and  *)
(* the marker goes only in a step that leaves no data behind                *)
(* (remove_proof_history_store_files), over any number of crashes and       *)
(* restarts.                                                                *)
THEOREM CondemnedStoreIsWiped == Spec => CondemnedIsWiped
<1>1. SidecarInv /\ [Next]_vars
        => [marker => ~ready /\ (marker' \/ store' = NoStore)]_vars
  <2>. SUFFICES ASSUME SidecarInv, Next, marker
                PROVE  ~ready /\ (marker' \/ store' = NoStore)
    BY DEF vars
  <2>1. pc \in {"down", "wipe"} /\ ~ready /\ ~workers /\ sync.pc # "batch"
    BY SMT DEF SidecarInv, ControlOK, Recovering
  <2>2. ASSUME NEW b \in Blocks, MoveHead(b) \/ PipelineSync(b) \/ Persist(b)
        PROVE  marker'
    BY <2>2 DEF MoveHead, PipelineSync, Persist
  <2>3. CASE WipeMarker
    BY SMT, <2>1, <2>3 DEF WipeMarker
  <2>4. CASE Crash \/ Restart \/ WipeData
    BY <2>1, <2>4 DEF Crash, Restart, Goto, WipeData
  <2>5. CASE SyncLoop \/ Prune
    BY <2>1, <2>5 DEF SyncLoop, SyncStart, SyncBlock, SyncRelease, Prune
  <2>6. ~(Subscribe \/ StartupRead \/ Decide \/ BeginCopy \/ EndCopy \/ UnwindToEarliest)
    BY <2>1 DEF Subscribe, StartupRead, Decide, BeginCopy, EndCopy, UnwindToEarliest
  <2>7. ~(Backfill \/ RecvLagged \/ LagLock \/ Recv \/ RetryTick)
    BY <2>1 DEF Backfill, RecvLagged, LagLock, Recv, RetryTick
  <2>8. ~(HandleCommitted \/ HandleReorged \/ HandleReverted \/ ProcessBlock \/ ProcessDone)
    BY <2>1 DEF HandleCommitted, HandleReorged, HandleReverted, ProcessBlock, ProcessDone
  <2>. QED
    BY ZenonT(30), <2>1, <2>2, <2>3, <2>4, <2>5, <2>6, <2>7, <2>8 DEF Next, Task, Node
<1>. QED
  BY <1>1, InitSidecar, NextSidecar, PTL DEF Spec, CondemnedIsWiped

-----------------------------------------------------------------------------
(* In window-only mode the workers of try_start are spawned on a window     *)
(* whose backfill is complete, for every window and every way an earlier    *)
(* start ended.                                                             *)
THEOREM WholeWindowIsServed == Spec => ServesWholeWindow
<1>1. ASSUME Next, windowOnly, ~workers, workers'
      PROVE  Number[store'.earliest] <= BackfillTarget'
  <2>0. /\ ~UNCHANGED workers /\ ~LoseMemory
    BY <1>1 DEF LoseMemory
  <2>1. ~Fail /\ ~RequestRebuild /\ ~Crash /\ ~Wait /\ ~Reconciled /\ ~(\E label : Goto(label))
    BY <1>1, <2>0 DEF Fail, RequestRebuild, Crash, Wait, Reconciled, Goto
  <2>2. \A b \in Blocks : ~MoveHead(b) /\ ~PipelineSync(b) /\ ~Persist(b)
    BY <2>0 DEF MoveHead, PipelineSync, Persist
  <2>3. ~Restart /\ ~WipeData /\ ~WipeMarker /\ ~Subscribe /\ ~StartupRead /\ ~Decide
    BY <2>0, <2>1 DEF Restart, WipeData, WipeMarker, Subscribe, StartupRead, Decide
  <2>4. /\ ~BeginCopy /\ ~EndCopy /\ ~UnwindToEarliest /\ ~RecvLagged /\ ~LagLock /\ ~Recv
        /\ ~RetryTick
    BY <2>0, <2>1 DEF BeginCopy, EndCopy, UnwindToEarliest, RecvLagged, LagLock, Recv, RetryTick
  <2>5. ~NoteDone /\ ~(\E hs : ProcessHeights(hs))
    BY <2>0 DEF NoteDone, ProcessHeights
  <2>6. ~HandleCommitted /\ ~HandleReorged /\ ~HandleReverted
    BY <2>1, <2>5 DEF HandleCommitted, HandleReorged, HandleReverted
  <2>7. ~ProcessBlock /\ ~ProcessDone
    BY <2>0, <2>1 DEF ProcessBlock, ProcessDone
  <2>8. ~SyncLoop /\ ~Prune
    BY <2>0 DEF SyncLoop, SyncStart, SyncBlock, SyncRelease, Prune
  <2>9. Backfill
    BY ZenonT(30), <1>1, <2>1, <2>2, <2>3, <2>4, <2>6, <2>7, <2>8 DEF Next, Task, Node
  <2>10. Number[store.earliest] <= BackfillTarget /\ UNCHANGED <<store, disk>>
    BY <2>0, <2>1, <2>9 DEF Backfill, SpawnWorkers
  <2>11. BackfillTarget' = BackfillTarget
    BY <2>10 DEF BackfillTarget
  <2>. QED
    BY <2>10, <2>11
<1>2. [Next]_vars => [windowOnly /\ ~workers /\ workers' => Number[store'.earliest] <= BackfillTarget']_vars
  BY <1>1
<1>. QED
  BY <1>2, PTL DEF Spec, ServesWholeWindow

-----------------------------------------------------------------------------
(* Persisted blocks, when no reorg or revert reaches them.                  *)

(* The chain on disk is part of the canonical chain, and a sync batch ends  *)
(* on it.                                                                   *)
DiskInv ==
  /\ IsAncestor(disk, head)
  /\ sync.pc = "batch" => sync.end <= Number[disk]

(* Where the chain and the sync loop's batch come from. *)
LEMMA NodeSteps ==
  ASSUME [Next]_vars
  PROVE  \/ \E b \in Blocks : MoveHead(b) \/ PipelineSync(b) \/ Persist(b)
         \/ LoseMemory
         \/ SyncStart \/ SyncBlock \/ SyncRelease
         \/ UNCHANGED <<head, disk, sync>>
<1>1. CASE Next
  <2>1. CASE Restart \/ WipeData \/ WipeMarker \/ Subscribe \/ StartupRead \/ BeginCopy
    BY <2>1 DEF Restart, Goto, WipeData, WipeMarker, Subscribe, StartupRead, BeginCopy
  <2>2. CASE Wait \/ Fail \/ RequestRebuild \/ Crash \/ Reconciled \/ SpawnWorkers
    BY <2>2 DEF Wait, Fail, RequestRebuild, Crash, Reconciled, SpawnWorkers
  <2>3. CASE Decide \/ EndCopy \/ UnwindToEarliest \/ Backfill
    BY <2>2, <2>3 DEF Decide, EndCopy, UnwindToEarliest, Backfill, Goto
  <2>4. CASE RecvLagged \/ LagLock \/ Recv \/ RetryTick \/ Prune \/ ProcessDone
    BY <2>4 DEF RecvLagged, LagLock, Recv, RetryTick, Goto, Prune, ProcessDone
  <2>5. CASE NoteDone \/ \E hs : ProcessHeights(hs)
    BY <2>5 DEF NoteDone, ProcessHeights
  <2>6. CASE HandleCommitted \/ HandleReorged \/ HandleReverted \/ ProcessBlock
    BY <2>2, <2>5, <2>6 DEF HandleCommitted, HandleReorged, HandleReverted, ProcessBlock
  <2>. QED
    BY ZenonT(30), <1>1, <2>1, <2>2, <2>3, <2>4, <2>6 DEF Next, Task, SyncLoop, Node
<1>2. CASE UNCHANGED vars
  BY <1>2 DEF vars
<1>. QED
  BY <1>1, <1>2

LEMMA NextDisk ==
  ASSUME ~DiskReorgs, SidecarInv, SidecarInv', DiskInv, [Next]_vars
  PROVE  DiskInv'
<1>0. /\ head \in Blocks /\ disk \in Blocks /\ disk' \in Blocks
      /\ Number[disk] \in Nat /\ Number[disk'] \in Nat /\ Number[store.latest] \in Nat
      /\ sync \in [pc : {"idle", "batch"}, next : Nat, end : Nat]
  BY NumberIsNat, StoreFields DEF SidecarInv, NodeOK, StoreOK, Sized, SharedOK
<1>1. ASSUME NEW b \in Blocks, MoveHead(b) PROVE DiskInv'
  BY <1>1 DEF MoveHead, DiskInv
<1>2. ASSUME NEW b \in Blocks, PipelineSync(b) PROVE DiskInv'
  <2>1. head' = b /\ disk' = b /\ head = disk /\ IsAncestor(disk, b) /\ UNCHANGED sync
    BY <1>2 DEF PipelineSync
  <2>2. Number[disk] <= Number[disk'] /\ IsAncestor(disk', head')
    BY <2>1, AncestorReflexive DEF IsAncestor
  <2>. QED
    BY SMT, <1>0, <2>1, <2>2 DEF DiskInv
<1>3. ASSUME NEW b \in Blocks, Persist(b) PROVE DiskInv'
  <2>1. disk' = b /\ IsAncestor(disk, b) /\ IsAncestor(b, head) /\ UNCHANGED <<head, sync>>
    BY <1>3 DEF Persist, DiskInv
  <2>2. Number[disk] <= Number[disk'] /\ IsAncestor(disk', head')
    BY <2>1 DEF IsAncestor
  <2>. QED
    BY SMT, <1>0, <2>1, <2>2 DEF DiskInv
<1>4. CASE LoseMemory
  <2>1. head' = disk /\ disk' = disk /\ sync'.pc = "idle"
    BY SMT, <1>4 DEF LoseMemory, SyncIdle
  <2>. QED
    BY SMT, <1>0, <2>1, AncestorReflexive DEF DiskInv
<1>5. CASE SyncStart
  <2>. DEFINE e == Min({Number[store.latest] + SyncBatch, Number[disk]})
  <2>1. e <= Number[disk]
    BY <1>0, SyncBatchType
  <2>2. sync'.end = e /\ UNCHANGED <<head, disk>>
    BY SMT, <1>5 DEF SyncStart
  <2>. HIDE DEF e
  <2>. QED
    BY <2>1, <2>2 DEF DiskInv
<1>6. CASE SyncBlock
  <2>1. sync'.end = sync.end /\ sync'.pc = sync.pc /\ UNCHANGED <<head, disk>>
    BY SMT, <1>0, <1>6 DEF SyncBlock
  <2>. QED
    BY <2>1 DEF DiskInv
<1>7. CASE SyncRelease
  <2>1. sync'.pc = "idle" /\ UNCHANGED <<head, disk>>
    BY SMT, <1>7 DEF SyncRelease, SyncIdle
  <2>. QED
    BY SMT, <2>1 DEF DiskInv
<1>8. CASE UNCHANGED <<head, disk, sync>>
  BY <1>8 DEF DiskInv
<1>. QED
  BY ZenonT(30), <1>1, <1>2, <1>3, <1>4, <1>5, <1>6, <1>7, <1>8, NodeSteps

LEMMA InitDisk == Init => DiskInv
<1>. SUFFICES ASSUME Init PROVE DiskInv
  BY SMT
<1>1. sync.pc = "idle" /\ head = Genesis /\ disk = Genesis
  BY SMT DEF Init, SyncIdle
<1>. QED
  BY SMTT(30), <1>1, BlockTreeAssumption, AncestorReflexive DEF DiskInv

-----------------------------------------------------------------------------
(* Where the notifications the sidecar has not handled yet lead: from the   *)
(* branch its store is on to the canonical head (Leads), over commits,      *)
(* reorgs, reverts, staged sync, persistence, lost notifications and        *)
(* restarts.  BranchInv relates the store to them.                          *)

(* b is at most d blocks above an ancestor it shares with h. *)
Close(b, h, d) ==
  \E f \in Blocks : IsAncestor(f, b) /\ IsAncestor(f, h) /\ Number[b] <= Number[f] + d

(* b is canonical, with h the head, or was before the branch of left was    *)
(* abandoned.                                                               *)
On(b, left, h) == IsAncestor(b, left) \/ IsAncestor(b, h)

(* The blocks that a notification adds are canonical or were; those of a    *)
(* reorg are, and it left the branch of left where that of h begins.        *)
Follows(n, left, h) ==
  /\ n.new # <<>> => On(Top(n.new), left, h)
  /\ n.old # <<>> =>
       /\ IsAncestor(Parent[n.old[1]], left) /\ IsAncestor(Parent[n.old[1]], h)
       /\ n.new # <<>> => IsAncestor(Top(n.new), h)

(* A commit of blocks that are still canonical. *)
Extends(n, h) == n.old = <<>> /\ (n.new # <<>> => IsAncestor(Top(n.new), h))

(* No reorg or revert is on its way: c queued, m in hand, none lost. *)
Undisturbed(c, m, lost) == ~lost /\ m.old = <<>> /\ \A i \in DOMAIN c : c[i].old = <<>>

(* What is on its way leads from the branch of left to h. *)
Leads(left, h, c, m, lost) ==
  /\ left \in Blocks /\ Close(left, h, MaxReorg)
  /\ Undisturbed(c, m, lost) => left = h
  /\ Follows(m, left, h)
  /\ \A i \in DOMAIN c : Follows(c[i], left, h)
  /\ m.old # <<>> => \A j \in DOMAIN c : Extends(c[j], h)
  /\ \A i, j \in DOMAIN c : i < j /\ c[i].old # <<>> => Extends(c[j], h)

-----------------------------------------------------------------------------
LEMMA CloseSelf ==
  ASSUME NEW b \in Blocks, NEW h \in Blocks, IsAncestor(b, h), NEW d \in Nat
  PROVE  Close(b, h, d)
<1>1. Number[b] \in Nat
  BY NumberIsNat
<1>2. Number[b] <= Number[b] + d
  BY SMT, <1>1
<1>. QED
  BY <1>2, AncestorReflexive DEF Close

LEMMA CloseWeaken ==
  ASSUME NEW b \in Blocks, NEW h \in Blocks, NEW k \in Blocks, NEW d \in Nat, NEW e \in Nat,
         Close(b, h, d), d <= e, IsAncestor(h, k)
  PROVE  Close(b, k, e)
<1>1. PICK f \in Blocks : IsAncestor(f, b) /\ IsAncestor(f, h) /\ Number[b] <= Number[f] + d
  BY DEF Close
<1>2. Number[b] \in Nat /\ Number[f] \in Nat
  BY NumberIsNat
<1>3. Number[b] <= Number[f] + e
  BY SMT, <1>1, <1>2
<1>4. IsAncestor(f, k)
  BY <1>1, AncestorTransitive
<1>. QED
  BY <1>1, <1>3, <1>4 DEF Close

(* The tip of the store is as close to the head as the branch it is on. *)
LEMMA CloseOn ==
  ASSUME NEW b \in Blocks, NEW left \in Blocks, NEW h \in Blocks, NEW d \in Nat,
         On(b, left, h), Close(left, h, d)
  PROVE  Close(b, h, d)
<1>1. CASE IsAncestor(b, h)
  BY <1>1, CloseSelf
<1>2. CASE IsAncestor(b, left)
  <2>1. PICK f \in Blocks : IsAncestor(f, left) /\ IsAncestor(f, h) /\ Number[left] <= Number[f] + d
    BY DEF Close
  <2>2. Number[b] \in Nat /\ Number[f] \in Nat /\ Number[left] \in Nat /\ Number[b] <= Number[left]
    BY <1>2, NumberIsNat DEF IsAncestor
  <2>3. CASE Number[f] <= Number[b]
    <3>1. IsAncestor(f, b)
      BY <1>2, <2>1, <2>3, AncestorsAreOnALine
    <3>2. Number[b] <= Number[f] + d
      BY SMT, <2>1, <2>2
    <3>. QED
      BY <2>1, <3>1, <3>2 DEF Close
  <2>4. CASE Number[b] <= Number[f]
    <3>1. IsAncestor(b, h)
      BY <1>2, <2>1, <2>4, AncestorsAreOnALine, AncestorTransitive
    <3>. QED
      BY <3>1, CloseSelf
  <2>5. Number[f] <= Number[b] \/ Number[b] <= Number[f]
    BY SMT, <2>2
  <2>. QED
    BY <2>3, <2>4, <2>5
<1>. QED
  BY <1>1, <1>2 DEF On

(* Two reorgs, one after the other. *)
LEMMA CloseTwice ==
  ASSUME NEW b \in Blocks, NEW h \in Blocks, NEW k \in Blocks, NEW d \in Nat,
         Close(b, h, d), Close(h, k, d)
  PROVE  Close(b, k, 2 * d)
<1>1. PICK f \in Blocks : IsAncestor(f, b) /\ IsAncestor(f, h) /\ Number[b] <= Number[f] + d
  BY DEF Close
<1>2. PICK m \in Blocks : IsAncestor(m, h) /\ IsAncestor(m, k) /\ Number[h] <= Number[m] + d
  BY DEF Close
<1>3. Number[b] \in Nat /\ Number[f] \in Nat /\ Number[m] \in Nat /\ Number[h] \in Nat
  BY NumberIsNat
<1>4. Number[f] <= Number[h]
  BY <1>1 DEF IsAncestor
<1>5. CASE Number[f] <= Number[m]
  <2>1. IsAncestor(f, k)
    BY <1>1, <1>2, <1>5, AncestorsAreOnALine, AncestorTransitive
  <2>2. Number[b] <= Number[f] + 2 * d
    BY SMT, <1>1, <1>3
  <2>. QED
    BY <1>1, <2>1, <2>2 DEF Close
<1>6. CASE Number[m] <= Number[f]
  <2>1. IsAncestor(m, b)
    BY <1>1, <1>2, <1>6, AncestorsAreOnALine, AncestorTransitive
  <2>2. Number[b] <= Number[m] + 2 * d
    BY SMT, <1>1, <1>2, <1>3, <1>4
  <2>. QED
    BY <1>2, <2>1, <2>2 DEF Close
<1>. QED
  BY SMT, <1>3, <1>5, <1>6

(* Far enough below, b and h have the same ancestors. *)
LEMMA CloseAgrees ==
  ASSUME NEW b \in Blocks, NEW h \in Blocks, NEW d \in Nat, Close(b, h, d),
         NEW n \in Nat, n + d <= Number[b]
  PROVE  /\ n \in 0 .. Number[b] /\ n <= Number[h]
         /\ AncestorAt(b, n) = AncestorAt(h, n)
<1>1. PICK f \in Blocks : IsAncestor(f, b) /\ IsAncestor(f, h) /\ Number[b] <= Number[f] + d
  BY DEF Close
<1>2. Number[b] \in Nat /\ Number[f] \in Nat /\ Number[h] \in Nat /\ Number[f] <= Number[h]
  BY <1>1, NumberIsNat DEF IsAncestor
<1>3. n \in 0 .. Number[b] /\ n <= Number[h] /\ n \in 0 .. Number[f]
  BY SMT, <1>1, <1>2
<1>4. AncestorAt(f, n) = AncestorAt(b, n) /\ AncestorAt(f, n) = AncestorAt(h, n)
  BY <1>1, <1>3, AncestorAgrees
<1>. QED
  BY <1>3, <1>4

LEMMA OnLonger ==
  ASSUME NEW b \in Blocks, NEW left \in Blocks, NEW h \in Blocks, NEW k \in Blocks,
         On(b, left, h), IsAncestor(h, k)
  PROVE  On(b, left, k)
BY AncestorTransitive DEF On

(* A block below the place where two branches part. *)
LEMMA BelowFork ==
  ASSUME NEW b \in Blocks, NEW left \in Blocks, NEW h \in Blocks, NEW p \in Blocks,
         On(b, left, h), IsAncestor(p, left), IsAncestor(p, h)
  PROVE  /\ Number[b] <= Number[p] => IsAncestor(b, h)
         /\ Number[p] <= Number[b] => IsAncestor(p, b)
<1>1. CASE IsAncestor(b, left)
  BY <1>1, AncestorsAreOnALine, AncestorTransitive
<1>2. CASE IsAncestor(b, h)
  BY <1>2, AncestorsAreOnALine
<1>. QED
  BY <1>1, <1>2 DEF On

(* The blocks of a chain are ancestors of its last one. *)
LEMMA ChainBelowTop ==
  ASSUME NEW s \in Seq(Blocks), s # <<>>, IsChain(s), NEW i \in 1 .. Len(s)
  PROVE  s[i] \in Blocks /\ IsAncestor(s[i], Top(s))
<1>1. /\ s[1] \in Blocks /\ Top(s) \in Blocks /\ IsAncestor(s[1], Top(s))
      /\ Len(s) = Number[Top(s)] - Number[s[1]] + 1
  BY ChainFacts
<1>2. s = Span(s[1], Top(s))
  BY DEF IsChain
<1>3. i \in 1 .. Number[Top(s)] - Number[s[1]] + 1
  BY <1>1
<1>4. Span(s[1], Top(s))[i] \in Blocks /\ IsAncestor(Span(s[1], Top(s))[i], Top(s))
  BY <1>1, <1>3, SpanAt
<1>. QED
  BY <1>2, <1>4

-----------------------------------------------------------------------------
(* The notifications c queued and m in hand. *)
InFlight(c, m) ==
  /\ c \in Seq(Notification) /\ \A i \in DOMAIN c : Sound(c[i])
  /\ m = NoNotif \/ Sound(m)

LEMMA NotifBlocks ==
  ASSUME NEW n, n = NoNotif \/ Sound(n)
  PROVE  /\ n.new # <<>> => Top(n.new) \in Blocks
         /\ n.old # <<>> => Parent[n.old[1]] \in Blocks
<1>1. CASE n = NoNotif
  BY <1>1, NoNotifType
<1>2. CASE Sound(n)
  <2>1. n.old \in Seq(Blocks) /\ n.new \in Seq(Blocks)
    BY SMT, <1>2 DEF Sound, Notification
  <2>2. IsChain(n.old) /\ IsChain(n.new)
    BY <1>2 DEF Sound
  <2>. QED
    BY <2>1, <2>2, ChainFacts
<1>. QED
  BY <1>1, <1>2

LEMMA ExtendsLonger ==
  ASSUME NEW n, n = NoNotif \/ Sound(n), NEW h \in Blocks, NEW k \in Blocks,
         Extends(n, h), IsAncestor(h, k)
  PROVE  Extends(n, k)
BY NotifBlocks, AncestorTransitive DEF Extends

LEMMA ExtendsFollows ==
  ASSUME NEW n, NEW left, NEW h, Extends(n, h)
  PROVE  Follows(n, left, h)
BY DEF Extends, Follows, On

LEMMA FollowsLonger ==
  ASSUME NEW n, n = NoNotif \/ Sound(n), NEW left \in Blocks, NEW h \in Blocks, NEW k \in Blocks,
         Follows(n, left, h), IsAncestor(h, k)
  PROVE  Follows(n, left, k)
<1>1. n.new # <<>> => Top(n.new) \in Blocks
  BY NotifBlocks
<1>2. n.old # <<>> => Parent[n.old[1]] \in Blocks
  BY NotifBlocks
<1>3. n.new # <<>> => On(Top(n.new), left, k)
  BY <1>1, OnLonger DEF Follows
<1>4. n.old # <<>> => IsAncestor(Parent[n.old[1]], k)
  BY <1>2, AncestorTransitive DEF Follows
<1>5. n.old # <<>> /\ n.new # <<>> => IsAncestor(Top(n.new), k)
  BY <1>1, AncestorTransitive DEF Follows
<1>. QED
  BY <1>3, <1>4, <1>5 DEF Follows

LEMMA FollowsOne ==
  ASSUME NEW n, NEW h, Follows(n, h, h), n.old = <<>>
  PROVE  Extends(n, h)
BY DEF Follows, Extends, On

LEMMA LeadsEmpty ==
  ASSUME NEW h \in Blocks
  PROVE  Leads(h, h, <<>>, NoNotif, FALSE)
<1>1. Close(h, h, MaxReorg)
  BY SMT, AncestorReflexive, CloseSelf, SidecarAssumption
<1>2. Follows(NoNotif, h, h) /\ NoNotif.old = <<>>
  BY NoNotifType DEF Follows
<1>3. DOMAIN <<>> = {}
  BY SMT
<1>. QED
  BY <1>1, <1>2, <1>3 DEF Leads

(* The notification in hand has been dealt with. *)
LEMMA LeadsDrop ==
  ASSUME NEW left, NEW h \in Blocks, NEW c, NEW m, NEW lost, Leads(left, h, c, m, lost)
  PROVE  /\ m.old = <<>> => Leads(left, h, c, NoNotif, lost)
         /\ m.old # <<>> => Leads(h, h, c, NoNotif, lost)
<1>0. NoNotif.old = <<>> /\ \A l : Follows(NoNotif, l, h)
  BY NoNotifType DEF Follows
<1>1. CASE m.old = <<>>
  <2>1. Undisturbed(c, NoNotif, lost) => Undisturbed(c, m, lost)
    BY <1>1 DEF Undisturbed
  <2>. QED
    BY <1>0, <1>1, <2>1 DEF Leads
<1>2. CASE m.old # <<>>
  <2>1. \A j \in DOMAIN c : Extends(c[j], h)
    BY <1>2 DEF Leads
  <2>2. \A j \in DOMAIN c : Follows(c[j], h, h)
    BY <2>1, ExtendsFollows
  <2>3. Close(h, h, MaxReorg)
    BY SMT, AncestorReflexive, CloseSelf, SidecarAssumption
  <2>. QED
    BY <1>0, <1>2, <2>1, <2>2, <2>3 DEF Leads
<1>. QED
  BY <1>1, <1>2

(* The oldest queued one is taken in hand. *)
LEMMA LeadsTake ==
  ASSUME NEW left, NEW h \in Blocks, NEW c \in Seq(Notification), c # <<>>, NEW lost,
         Leads(left, h, c, NoNotif, lost)
  PROVE  Leads(left, h, Tail(c), Head(c), lost)
<1>. DEFINE t == Tail(c)
<1>1. /\ Head(c) = c[1] /\ 1 \in DOMAIN c
      /\ \A i \in DOMAIN t : i + 1 \in DOMAIN c /\ t[i] = c[i + 1]
  BY Dequeued
<1>2. \A i \in DOMAIN t : 1 < i + 1
  BY SMT DEF t
<1>3. \A i, j \in DOMAIN t : i < j => i + 1 < j + 1
  BY SMT DEF t
<1>4. \A i \in DOMAIN c : i = 1 \/ \E j \in DOMAIN t : c[i] = t[j]
  <2>. SUFFICES ASSUME NEW i \in DOMAIN c, i # 1 PROVE \E j \in DOMAIN t : c[i] = t[j]
    OBVIOUS
  <2>1. i - 1 \in DOMAIN t /\ t[i - 1] = c[i]
    BY SMT
  <2>. QED
    BY <2>1
<1>. HIDE DEF t
<1>5. Undisturbed(t, c[1], lost) => Undisturbed(c, NoNotif, lost)
  BY <1>4, NoNotifType DEF Undisturbed
<1>6. /\ left \in Blocks /\ Close(left, h, MaxReorg)
      /\ Undisturbed(t, c[1], lost) => left = h
  BY <1>5 DEF Leads
<1>7. Follows(c[1], left, h) /\ \A i \in DOMAIN t : Follows(t[i], left, h)
  BY <1>1 DEF Leads
<1>8. c[1].old # <<>> => \A j \in DOMAIN t : Extends(t[j], h)
  BY <1>1, <1>2 DEF Leads
<1>9. \A i, j \in DOMAIN t : i < j /\ t[i].old # <<>> => Extends(t[j], h)
  BY <1>1, <1>3 DEF Leads
<1>10. Leads(left, h, t, c[1], lost)
  BY <1>6, <1>7, <1>8, <1>9 DEF Leads
<1>. QED
  BY <1>1, <1>10 DEF t

(* d is c with commits of canonical blocks queued, or less. *)
Grows(d, c, k) ==
  /\ \A j \in DOMAIN d : Extends(d[j], k) \/ \E i \in DOMAIN c : d[j] = c[i]
  /\ \A i, j \in DOMAIN d :
       i < j => Extends(d[j], k)
                  \/ \E x, y \in DOMAIN c : x < y /\ d[i] = c[x] /\ d[j] = c[y]

(* The chain grows. *)
LEMMA LeadsLonger ==
  ASSUME NEW left, NEW h \in Blocks, NEW k \in Blocks, NEW c, NEW m, NEW lost,
         InFlight(c, m), Leads(left, h, c, m, lost), IsAncestor(h, k),
         NEW d, NEW gone, Grows(d, c, k), Undisturbed(d, m, gone) => Undisturbed(c, m, lost)
  PROVE  /\ Undisturbed(c, m, lost) => Leads(k, k, d, m, gone)
         /\ ~Undisturbed(c, m, lost) => Leads(left, k, d, m, gone)
<1>0. (m = NoNotif \/ Sound(m)) /\ \A i \in DOMAIN c : Sound(c[i])
  BY DEF InFlight
<1>1. CASE Undisturbed(c, m, lost)
  <2>1. left = h /\ m.old = <<>> /\ \A i \in DOMAIN c : c[i].old = <<>>
    BY <1>1 DEF Leads, Undisturbed
  <2>2. Extends(m, h) /\ \A i \in DOMAIN c : Extends(c[i], h)
    BY <2>1, FollowsOne DEF Leads
  <2>3. Extends(m, k) /\ \A i \in DOMAIN c : Extends(c[i], k)
    BY <1>0, <2>2, ExtendsLonger
  <2>4. \A j \in DOMAIN d : Extends(d[j], k)
    BY <2>3 DEF Grows
  <2>5. Follows(m, k, k) /\ \A j \in DOMAIN d : Follows(d[j], k, k)
    BY ZenonT(30), <2>3, <2>4, ExtendsFollows
  <2>6. Close(k, k, MaxReorg)
    BY SMT, AncestorReflexive, CloseSelf, SidecarAssumption
  <2>7. Leads(k, k, d, m, gone)
    BY <2>4, <2>5, <2>6 DEF Leads
  <2>. QED
    BY <1>1, <2>7
<1>2. CASE ~Undisturbed(c, m, lost)
  <2>1. left \in Blocks /\ Close(left, k, MaxReorg)
    <3>1. left \in Blocks /\ Close(left, h, MaxReorg) /\ MaxReorg \in Nat /\ MaxReorg <= MaxReorg
      BY SMT, SidecarAssumption DEF Leads
    <3>. QED
      BY ZenonT(30), <3>1, CloseWeaken
  <2>2. Follows(m, left, k) /\ \A i \in DOMAIN c : Follows(c[i], left, k)
    BY <1>0, <2>1, FollowsLonger DEF Leads
  <2>3. \A j \in DOMAIN d : Follows(d[j], left, k)
    BY <2>2, ExtendsFollows DEF Grows
  <2>4. m.old # <<>> => \A j \in DOMAIN c : Extends(c[j], k)
    BY <1>0, ExtendsLonger DEF Leads
  <2>5. m.old # <<>> => \A j \in DOMAIN d : Extends(d[j], k)
    BY <2>4 DEF Grows
  <2>6. \A i, j \in DOMAIN c : i < j /\ c[i].old # <<>> => Extends(c[j], k)
    BY <1>0, ExtendsLonger DEF Leads
  <2>7. ASSUME NEW i \in DOMAIN d, NEW j \in DOMAIN d, i < j, d[i].old # <<>>
        PROVE  Extends(d[j], k)
    <3>1. Extends(d[j], k) \/ \E x, y \in DOMAIN c : x < y /\ d[i] = c[x] /\ d[j] = c[y]
      BY <2>7 DEF Grows
    <3>. QED
      BY <2>6, <2>7, <3>1
  <2>8. Leads(left, k, d, m, gone)
    BY <1>2, <2>1, <2>2, <2>3, <2>5, <2>7 DEF Leads
  <2>. QED
    BY <1>2, <2>8
<1>. QED
  BY <1>1, <1>2

LEMMA GrowsSelf == ASSUME NEW c, NEW k PROVE Grows(c, c, k)
BY DEF Grows

LEMMA GrowsQueued ==
  ASSUME NEW c \in Seq(Notification), NEW d \in Seq(Notification), NEW n, NEW k,
         QueuedAs(d, c, n), Extends(n, k)
  PROVE  Grows(d, c, k)
<1>1. PICK o \in {0, 1} :
        /\ Len(d) = Len(c) + 1 - o /\ d # <<>> /\ d[Len(d)] = n
        /\ \A i \in 1 .. Len(d) - 1 : i + o \in 1 .. Len(c) /\ d[i] = c[i + o]
  BY DEF QueuedAs
<1>2. DOMAIN c = 1 .. Len(c) /\ \A j \in DOMAIN d : j = Len(d) \/ j \in 1 .. Len(d) - 1
  BY SMT
<1>3. \A j \in DOMAIN d : Extends(d[j], k) \/ \E i \in DOMAIN c : d[j] = c[i]
  BY <1>1, <1>2
<1>4. ASSUME NEW i \in DOMAIN d, NEW j \in DOMAIN d, i < j, j # Len(d)
      PROVE  \E x, y \in DOMAIN c : x < y /\ d[i] = c[x] /\ d[j] = c[y]
  <2>1. i \in 1 .. Len(d) - 1 /\ j \in 1 .. Len(d) - 1 /\ i + o < j + o
    BY SMT, <1>1, <1>4
  <2>. QED
    BY <1>1, <1>2, <2>1
<1>. QED
  BY <1>1, <1>3, <1>4 DEF Grows

(* The first reorg or revert. *)
LEMMA LeadsReorg ==
  ASSUME NEW left, head \in Blocks, NEW b \in Blocks, chan \in Seq(Notification),
         Leads(left, head, chan, notif, lagged), Undisturbed(chan, notif, lagged), Close(head, b, MaxReorg),
         chan' \in Seq(Notification), NEW n, QueuedAs(chan', chan, n),
         n.old # <<>>, IsAncestor(Parent[n.old[1]], head), IsAncestor(Parent[n.old[1]], b),
         n.new # <<>> => Top(n.new) = b
  PROVE  left = head /\ Leads(head, b, chan', notif, lagged') /\ ~Undisturbed(chan', notif, lagged')
<1>1. left = head /\ notif.old = <<>> /\ \A i \in DOMAIN chan : chan[i].old = <<>>
  BY DEF Leads, Undisturbed
<1>2. PICK o \in {0, 1} :
        /\ Len(chan') = Len(chan) + 1 - o /\ chan' # <<>> /\ chan'[Len(chan')] = n
        /\ \A i \in 1 .. Len(chan') - 1 : i + o \in 1 .. Len(chan) /\ chan'[i] = chan[i + o]
  BY DEF QueuedAs
<1>3. /\ DOMAIN chan = 1 .. Len(chan) /\ DOMAIN chan' = 1 .. Len(chan') /\ Len(chan') \in DOMAIN chan'
      /\ \A j \in DOMAIN chan' : j = Len(chan') \/ j \in 1 .. Len(chan') - 1
      /\ \A i, j \in DOMAIN chan' : i < j => i # Len(chan')
  <2>1. DOMAIN chan = 1 .. Len(chan) /\ DOMAIN chan' = 1 .. Len(chan') /\ Len(chan') \in Nat \ {0}
    BY SMTT(30), <1>2
  <2>2. \A x \in Nat \ {0} : x \in 1 .. x /\ \A j \in 1 .. x : j = x \/ j \in 1 .. x - 1
    BY SMTT(30)
  <2>3. \A x \in Nat : \A i, j \in 1 .. x : i < j => i # x
    BY SMT
  <2>. QED
    BY ZenonT(30), <2>1, <2>2, <2>3
<1>4. Follows(n, head, b)
  BY AncestorReflexive DEF Follows, On
<1>5. ASSUME NEW x, x.old = <<>>, Follows(x, head, head) PROVE Follows(x, head, b)
  BY <1>5 DEF Follows, On
<1>6. Follows(notif, head, b) /\ \A i \in DOMAIN chan : Follows(chan[i], head, b)
  BY <1>1, <1>5 DEF Leads
<1>7. \A j \in DOMAIN chan' : Follows(chan'[j], head, b) /\ (j # Len(chan') => chan'[j].old = <<>>)
  BY <1>1, <1>2, <1>3, <1>4, <1>6
<1>8. ~Undisturbed(chan', notif, lagged')
  BY <1>2, <1>3 DEF Undisturbed
<1>9. Leads(head, b, chan', notif, lagged')
  BY <1>1, <1>3, <1>6, <1>7, <1>8 DEF Leads
<1>. QED
  BY <1>1, <1>8, <1>9

-----------------------------------------------------------------------------
(* What the channel still holds leads from the branch of left to the head.  *)
ChainInv(left) == Leads(left, head, chan, notif, lagged)

(* How far the sidecar is behind, by the place its task has reached. *)
TipInv(left) ==
  /\ (workers /\ ~Recovering /\ pc # "lagLock") \/ pc = "backfill"
       => On(store.latest, left, head)
  /\ pc = "process" /\ notif.old # <<>> => IsAncestor(store.latest, head)
  /\ pc = "lagLock" =>
       Close(store.latest, head,
             IF Undisturbed(chan, notif, lagged) THEN MaxReorg ELSE 2 * MaxReorg)
  /\ pc = "decide" /\ seen.earliest # NoBlock => On(seen.earliest, left, head)
  /\ pc = "unwind" => On(store.earliest, left, head)
  /\ pc = "copy" => IsAncestor(store.latest, disk)

BranchInv == Spans(store) /\ \E left \in Blocks : ChainInv(left) /\ TipInv(left)

-----------------------------------------------------------------------------
LEMMA InvFacts ==
  ASSUME SidecarInv
  PROVE  /\ head \in Blocks /\ disk \in Blocks
         /\ store \in Store /\ store.earliest \in Blocks /\ store.latest \in Blocks
         /\ Number[store.earliest] \in Nat /\ Number[store.latest] \in Nat
         /\ (seen.earliest # NoBlock => seen.earliest \in Blocks)
         /\ chan \in Seq(Notification) /\ InFlight(chan, notif)
<1>1. head \in Blocks /\ disk \in Blocks /\ store \in Store /\ chan \in Seq(Notification)
  BY DEF SidecarInv, NodeOK, StoreOK, Sized, ChanOK
<1>2. InFlight(chan, notif)
  BY DEF SidecarInv, ChanOK, TaskOK, InFlight
<1>3. seen.earliest # NoBlock => seen.earliest \in Blocks
  BY SMT DEF SidecarInv, TaskOK
<1>. QED
  BY <1>1, <1>2, <1>3, StoreFields

(* What the provider returns is canonical. *)
LEMMA CanonIsAncestor ==
  ASSUME SidecarInv, DiskInv, NEW n \in Nat, CanonAt(n) # NoBlock
  PROVE  CanonAt(n) \in Blocks /\ Number[CanonAt(n)] = n /\ IsAncestor(CanonAt(n), head)
<1>1. NodeOK /\ head \in Blocks /\ disk \in Blocks /\ IsAncestor(disk, head)
  BY DEF SidecarInv, NodeOK, DiskInv
<1>2. CanonAt(n) \in Blocks /\ Number[CanonAt(n)] = n
  BY <1>1, CanonIsBlock
<1>3. Number[head] \in Nat /\ Number[disk] \in Nat
  BY <1>1, NumberIsNat
<1>4. CASE n <= Number[head]
  <2>1. n \in 0 .. Number[head] /\ CanonAt(n) = AncestorAt(head, n)
    BY SMT, <1>3, <1>4 DEF CanonAt
  <2>. QED
    BY <1>1, <1>2, <2>1, AncestorAtIsAncestor
<1>5. CASE ~(n <= Number[head])
  <2>1. n <= Number[disk] /\ CanonAt(n) = AncestorAt(disk, n)
    BY <1>5 DEF CanonAt
  <2>2. n \in 0 .. Number[disk]
    BY SMT, <1>3, <2>1
  <2>3. IsAncestor(CanonAt(n), disk)
    BY <1>1, <2>1, <2>2, AncestorAtIsAncestor
  <2>. QED
    BY <1>1, <1>2, <2>3, AncestorTransitive
<1>. QED
  BY <1>4, <1>5

LEMMA NoPendingReorg ==
  ASSUME SidecarInv
  PROVE  PendingReorgs \in Nat /\ (PendingReorgs = 0 => Undisturbed(chan, notif, lagged))
<1>. DEFINE S == {i \in DOMAIN chan : chan[i].old # <<>>}
            T == {n \in {notif} : n.old # <<>>}
            L == IF lagged THEN 1 ELSE 0
<1>0. chan \in Seq(Notification) /\ lagged \in BOOLEAN
  BY DEF SidecarInv, ChanOK
<1>1. IsFiniteSet(S) /\ Cardinality(S) \in Nat
  <2>1. DOMAIN chan = 1 .. Len(chan) /\ Len(chan) \in Int /\ 1 \in Int
    BY SMT, <1>0
  <2>2. IsFiniteSet(DOMAIN chan)
    BY <2>1, FS_Interval
  <2>3. S \in SUBSET DOMAIN chan
    BY SMT
  <2>. HIDE DEF S
  <2>. QED
    BY <2>2, <2>3, FS_Subset, FS_CardinalityType
<1>2. IsFiniteSet(T) /\ Cardinality(T) \in Nat
  <2>1. T \in SUBSET {notif}
    BY SMT
  <2>. HIDE DEF T
  <2>. QED
    BY <2>1, FS_Singleton, FS_Subset, FS_CardinalityType
<1>3. PendingReorgs = Cardinality(S) + Cardinality(T) + L /\ L \in Nat
  BY SMT DEF PendingReorgs
<1>. HIDE DEF S, T
<1>. SUFFICES ASSUME PendingReorgs = 0 PROVE Undisturbed(chan, notif, lagged)
  BY SMT, <1>1, <1>2, <1>3
<1>4. Cardinality(S) = 0 /\ Cardinality(T) = 0 /\ L = 0
  BY SMT, <1>1, <1>2, <1>3
<1>5. S = {} /\ T = {}
  BY <1>1, <1>2, <1>4, FS_EmptySet
<1>6. ~lagged
  BY SMT, <1>4
<1>7. notif.old = <<>> /\ \A i \in DOMAIN chan : chan[i].old = <<>>
  BY <1>5 DEF S, T
<1>. QED
  BY <1>6, <1>7 DEF Undisturbed

-----------------------------------------------------------------------------
(* Steps of the execution client. *)

(* The chain grows, with or without a notification, or persists blocks. *)
LEMMA TipLonger ==
  ASSUME SidecarInv, NEW left \in Blocks, TipInv(left),
         UNCHANGED <<durableVars, taskVars, sharedVars>>,
         head' \in Blocks, disk' \in Blocks, IsAncestor(head, head'), IsAncestor(disk, disk'),
         Undisturbed(chan', notif', lagged') => Undisturbed(chan, notif, lagged),
         NEW l \in Blocks, l = left \/ (left = head /\ l = head')
  PROVE  TipInv(l)'
<1>0. /\ head \in Blocks /\ disk \in Blocks /\ store.earliest \in Blocks /\ store.latest \in Blocks
      /\ (seen.earliest # NoBlock => seen.earliest \in Blocks)
  BY InvFacts
<1>1. ASSUME NEW b \in Blocks, On(b, left, head) PROVE On(b, l, head')
  BY <1>0, <1>1, AncestorTransitive DEF On
<1>2. Recovering' <=> Recovering
  BY DEF Recovering
<1>3. (workers /\ ~Recovering /\ pc # "lagLock") \/ pc = "backfill" => On(store.latest, l, head')
  BY <1>0, <1>1 DEF TipInv
<1>4. pc = "process" /\ notif.old # <<>> => IsAncestor(store.latest, head')
  BY <1>0, AncestorTransitive DEF TipInv
<1>5. pc = "lagLock" =>
        Close(store.latest, head',
              IF Undisturbed(chan', notif', lagged') THEN MaxReorg ELSE 2 * MaxReorg)
  <2>. DEFINE x == IF Undisturbed(chan, notif, lagged) THEN MaxReorg ELSE 2 * MaxReorg
              y == IF Undisturbed(chan', notif', lagged') THEN MaxReorg ELSE 2 * MaxReorg
  <2>1. x \in Nat /\ y \in Nat /\ x <= y
    <3>1. /\ MaxReorg \in Nat /\ 2 * MaxReorg \in Nat /\ MaxReorg <= MaxReorg
          /\ MaxReorg <= 2 * MaxReorg
      BY SMT, SidecarAssumption
    <3>2. 2 * MaxReorg <= 2 * MaxReorg
      BY SMT, <3>1
    <3>. QED
      BY <3>1, <3>2
  <2>2. pc = "lagLock" => Close(store.latest, head, x)
    BY DEF TipInv
  <2>. HIDE DEF x, y
  <2>3. pc = "lagLock" => Close(store.latest, head', y)
    BY <1>0, <2>1, <2>2, CloseWeaken
  <2>. QED
    BY <2>3 DEF y
<1>6. pc = "decide" /\ seen.earliest # NoBlock => On(seen.earliest, l, head')
  BY <1>0, <1>1 DEF TipInv
<1>7. pc = "unwind" => On(store.earliest, l, head')
  BY <1>0, <1>1 DEF TipInv
<1>8. pc = "copy" => IsAncestor(store.latest, disk')
  BY <1>0, AncestorTransitive DEF TipInv
<1>. QED
  BY <1>2, <1>3, <1>4, <1>5, <1>6, <1>7, <1>8 DEF TipInv

-----------------------------------------------------------------------------
(* Where nothing is said of the store's tip. *)
LEMMA TipSilent ==
  ASSUME NEW l, pc' \in {"down", "wipe", "boot", "reconcile", "init", "idle"},
         workers' => pc' # "idle" /\ Recovering'
  PROVE  TipInv(l)'
BY SMT DEF TipInv

(* The channel after a notification n was sent to a subscriber. *)
LEMMA Published ==
  ASSUME ChanOK, Subscribed, NEW old, NEW new, NEW n, n = [old |-> old, new |-> new],
         Sound(n), Publish(old, new)
  PROVE  /\ chan' \in Seq(Notification) /\ QueuedAs(chan', chan, n)
         /\ \A m : Undisturbed(chan', m, lagged') => Undisturbed(chan, m, lagged)
<1>1. \/ Len(chan) < ChanCap /\ chan' = Append(chan, n) /\ lagged' = lagged
      \/ ~(Len(chan) < ChanCap) /\ chan' = Append(Tail(chan), n) /\ lagged' = TRUE
  BY DEF Publish
<1>2. chan \in Seq(Notification) /\ n \in Notification /\ ChanCap \in Nat \ {0}
  BY SMT, SoundType, SidecarAssumption DEF ChanOK
<1>3. ~(Len(chan) < ChanCap) => chan # <<>>
  BY SMT, <1>2
<1>4. chan' \in Seq(Notification) /\ QueuedAs(chan', chan, n)
  BY <1>1, <1>2, <1>3, Queued
<1>5. chan' = Append(chan, n) => \A i \in DOMAIN chan : i \in DOMAIN chan' /\ chan'[i] = chan[i]
  BY SMT, <1>2
<1>6. \A m : Undisturbed(chan', m, lagged') => Undisturbed(chan, m, lagged)
  BY <1>1, <1>5 DEF Undisturbed
<1>. QED
  BY <1>4, <1>6

LEMMA CommitBranch ==
  ASSUME SidecarInv, NEW left \in Blocks, ChainInv(left), TipInv(left),
         NEW b \in Blocks, MoveHead(b), IsAncestor(head, b)
  PROVE  \E l \in Blocks : ChainInv(l)' /\ TipInv(l)'
<1>. DEFINE f == Meet(head, b)
            n == [old |-> Path(f, head), new |-> Path(f, b)]
<1>0. /\ head \in Blocks /\ disk \in Blocks /\ chan \in Seq(Notification) /\ InFlight(chan, notif)
      /\ NodeOK /\ ChanOK
  BY InvFacts DEF SidecarInv
<1>1. /\ b # head /\ head' = b /\ Publish(Path(f, head), Path(f, b))
      /\ UNCHANGED <<disk, crashes, durableVars, taskVars, sharedVars, sync>>
  BY DEF MoveHead
<1>2. f = head
  BY <1>0, MeetIsCommon
<1>3. Sound(n) /\ n.old = <<>> /\ (n.new # <<>> => Top(n.new) = b)
  BY <1>0, <1>1, <1>2, PublishedIsSound
<1>4. Extends(n, b)
  BY <1>3, AncestorReflexive DEF Extends
<1>5. /\ Grows(chan', chan, b)
      /\ Undisturbed(chan', notif, lagged') => Undisturbed(chan, notif, lagged)
  <2>1. CASE Subscribed
    <3>1. /\ chan' \in Seq(Notification) /\ QueuedAs(chan', chan, n)
          /\ Undisturbed(chan', notif, lagged') => Undisturbed(chan, notif, lagged)
      BY <1>0, <1>1, <1>3, <2>1, Published
    <3>. HIDE DEF n
    <3>. QED
      BY <1>0, <1>4, <3>1, GrowsQueued
  <2>2. CASE ~Subscribed
    <3>1. chan' = chan /\ lagged' = lagged
      BY <1>1, <2>2 DEF Publish
    <3>. QED
      BY <3>1, GrowsSelf
  <2>. QED
    BY <2>1, <2>2
<1>. HIDE DEF n, f
<1>6. /\ Undisturbed(chan, notif, lagged) => Leads(b, b, chan', notif, lagged')
      /\ ~Undisturbed(chan, notif, lagged) => Leads(left, b, chan', notif, lagged')
  BY <1>0, <1>5, LeadsLonger DEF ChainInv
<1>7. Undisturbed(chan, notif, lagged) => left = head
  BY DEF ChainInv, Leads
<1>8. PICK l \in Blocks : Leads(l, b, chan', notif, lagged') /\ (l = left \/ (left = head /\ l = b))
  BY <1>6, <1>7
<1>9. ChainInv(l)'
  BY <1>1, <1>8 DEF ChainInv
<1>10. TipInv(l)'
  <2>1. /\ UNCHANGED <<durableVars, taskVars, sharedVars>> /\ IsAncestor(disk, disk')
        /\ disk' \in Blocks
    BY <1>0, <1>1, AncestorReflexive
  <2>2. Undisturbed(chan', notif', lagged') => Undisturbed(chan, notif, lagged)
    BY <1>1, <1>5
  <2>. QED
    BY <1>1, <1>8, <2>1, <2>2, TipLonger
<1>. QED
  BY <1>9, <1>10

LEMMA ReorgBranch ==
  ASSUME MaxPending <= 1, SidecarInv, NEW left \in Blocks, ChainInv(left), TipInv(left),
         NEW b \in Blocks, MoveHead(b), ~IsAncestor(head, b)
  PROVE  \E l \in Blocks : ChainInv(l)' /\ TipInv(l)'
<1>. DEFINE f == Meet(head, b)
            n == [old |-> Path(f, head), new |-> Path(f, b)]
<1>0. /\ head \in Blocks /\ disk \in Blocks /\ chan \in Seq(Notification) /\ InFlight(chan, notif)
      /\ NodeOK /\ ChanOK
  BY InvFacts DEF SidecarInv
<1>1. /\ b # head /\ head' = b /\ Publish(Path(f, head), Path(f, b))
      /\ Number[head] - Number[f] <= MaxReorg /\ PendingReorgs < MaxPending
      /\ UNCHANGED <<disk, crashes, durableVars, taskVars, sharedVars, sync>>
  BY DEF MoveHead
<1>2. f \in Blocks /\ IsAncestor(f, head) /\ IsAncestor(f, b) /\ f # head
  <2>1. f \in Blocks /\ IsAncestor(f, head) /\ IsAncestor(f, b)
    BY <1>0, MeetIsCommon
  <2>. HIDE DEF f
  <2>. QED
    BY <2>1
<1>3. /\ Sound(n) /\ n.old # <<>> /\ Parent[n.old[1]] = f
      /\ (n.new # <<>> => Top(n.new) = b)
  BY <1>0, <1>1, <1>2, PublishedIsSound
<1>4. Close(head, b, MaxReorg)
  <2>1. Number[head] \in Nat /\ Number[f] \in Nat /\ MaxReorg \in Nat
    BY SMTT(30), <1>0, <1>2, NumberIsNat, SidecarAssumption
  <2>2. Number[head] <= Number[f] + MaxReorg
    BY SMT, <1>1, <2>1
  <2>. QED
    BY <1>2, <2>2 DEF Close
<1>5. Undisturbed(chan, notif, lagged)
  <2>1. PendingReorgs \in Nat /\ MaxPending \in Nat
    BY SMTT(30), NoPendingReorg, SidecarAssumption
  <2>2. PendingReorgs = 0
    BY SMT, <1>1, <2>1
  <2>. QED
    BY <2>2, NoPendingReorg
<1>6. left = head
  BY <1>5 DEF ChainInv, Leads
<1>7. CASE Subscribed
  <2>1. chan' \in Seq(Notification) /\ QueuedAs(chan', chan, n)
    BY <1>0, <1>1, <1>3, <1>7, Published
  <2>. HIDE DEF n, f
  <2>2. IsAncestor(Parent[n.old[1]], head) /\ IsAncestor(Parent[n.old[1]], b)
    BY <1>2, <1>3
  <2>3. Leads(left, head, chan, notif, lagged)
    BY DEF ChainInv
  <2>4. Leads(head, b, chan', notif, lagged') /\ ~Undisturbed(chan', notif, lagged')
    BY <1>0, <1>3, <1>4, <1>5, <2>1, <2>2, <2>3, LeadsReorg
  <2>5. ChainInv(left)'
    BY <1>1, <1>6, <2>4 DEF ChainInv
  <2>6. ASSUME NEW x, On(x, left, head) PROVE On(x, head, b)
    BY <1>6, <2>6 DEF On
  <2>7. pc = "lagLock" => Close(store.latest, b, 2 * MaxReorg)
    <3>1. MaxReorg \in Nat /\ store.latest \in Blocks
      BY SMTT(30), SidecarAssumption, InvFacts
    <3>2. pc = "lagLock" => Close(store.latest, head, MaxReorg)
      BY <1>5 DEF TipInv
    <3>. QED
      BY <1>0, <1>4, <3>1, <3>2, CloseTwice
  <2>8. notif.old = <<>> /\ (Recovering' <=> Recovering)
    BY <1>1, <1>5 DEF Undisturbed, Recovering
  <2>9. ~Undisturbed(chan', notif', lagged')
    BY <1>1, <2>4
  <2>10. /\ (workers /\ ~Recovering /\ pc # "lagLock") \/ pc = "backfill"
               => On(store.latest, left, b)
         /\ pc = "decide" /\ seen.earliest # NoBlock => On(seen.earliest, left, b)
         /\ pc = "unwind" => On(store.earliest, left, b)
         /\ pc = "copy" => IsAncestor(store.latest, disk)
    BY <1>6, <2>6 DEF TipInv
  <2>11. TipInv(left)'
    BY <1>1, <2>7, <2>8, <2>9, <2>10 DEF TipInv
  <2>. QED
    BY <1>0, <2>5, <2>11
<1>8. CASE ~Subscribed
  <2>1. chan' = chan /\ lagged' = lagged
    BY <1>1, <1>8 DEF Publish
  <2>2. chan = <<>> /\ ~lagged /\ notif = NoNotif /\ lagged \in BOOLEAN
    BY <1>8 DEF SidecarInv, ControlOK, ChanOK
  <2>3. chan' = <<>> /\ lagged' = FALSE /\ notif' = NoNotif
    BY SMTT(30), <1>1, <2>1, <2>2
  <2>4. ChainInv(b)'
    BY <1>1, <2>3, LeadsEmpty DEF ChainInv
  <2>5. pc \in {"down", "wipe", "boot"} /\ ~workers
    BY SMTT(30), <1>8 DEF Subscribed, SidecarInv, ControlOK, Recovering
  <2>6. pc' \in {"down", "wipe", "boot", "reconcile", "init", "idle"} /\ ~workers'
    BY SMTT(30), <1>1, <2>5
  <2>7. TipInv(b)'
    BY SMT, <2>6, TipSilent
  <2>. QED
    BY <2>4, <2>7
<1>. QED
  BY <1>7, <1>8

(* Staged sync and persistence. *)
LEMMA DiskBranch ==
  ASSUME SidecarInv, DiskInv, NEW left \in Blocks, ChainInv(left), TipInv(left),
         NEW b \in Blocks, PipelineSync(b) \/ Persist(b)
  PROVE  \E l \in Blocks : ChainInv(l)' /\ TipInv(l)'
<1>0. head \in Blocks /\ disk \in Blocks /\ InFlight(chan, notif)
  BY InvFacts
<1>1. /\ head' \in Blocks /\ disk' \in Blocks /\ IsAncestor(head, head') /\ IsAncestor(disk, disk')
      /\ UNCHANGED <<chanVars, durableVars, taskVars, sharedVars>>
  BY <1>0, AncestorReflexive DEF PipelineSync, Persist, DiskInv
<1>2. Grows(chan', chan, head') /\ (Undisturbed(chan', notif', lagged') => Undisturbed(chan, notif, lagged))
  BY <1>1, GrowsSelf
<1>3. chan' = chan /\ notif' = notif /\ lagged' = lagged
  BY <1>1
<1>4. /\ Undisturbed(chan, notif, lagged) => Leads(head', head', chan, notif, lagged)
      /\ ~Undisturbed(chan, notif, lagged) => Leads(left, head', chan, notif, lagged)
  BY <1>0, <1>1, LeadsLonger, GrowsSelf DEF ChainInv
<1>5. Undisturbed(chan, notif, lagged) => left = head
  BY DEF ChainInv, Leads
<1>6. PICK l \in Blocks : Leads(l, head', chan, notif, lagged) /\ (l = left \/ (left = head /\ l = head'))
  BY <1>1, <1>4, <1>5
<1>7. ChainInv(l)'
  BY <1>3, <1>6 DEF ChainInv
<1>8. TipInv(l)'
  BY <1>1, <1>2, <1>6, TipLonger
<1>. QED
  BY <1>7, <1>8

(* Nothing in memory survives. *)
LEMMA DownBranch ==
  ASSUME SidecarInv', LoseMemory
  PROVE  \E l \in Blocks : ChainInv(l)' /\ TipInv(l)'
<1>1. head' \in Blocks
  BY DEF SidecarInv, NodeOK
<1>2. PICK l \in Blocks : l = head'
  BY <1>1
<1>3. chan' = <<>> /\ lagged' = FALSE /\ notif' = NoNotif /\ pc' = "down" /\ workers' = FALSE
  BY DEF LoseMemory
<1>4. ChainInv(l)'
  BY <1>2, <1>3, LeadsEmpty DEF ChainInv
<1>5. TipInv(l)'
  BY SMTT(30), <1>3, TipSilent
<1>. QED
  BY <1>4, <1>5

LEMMA ChainFrame ==
  ASSUME NEW left, ChainInv(left), UNCHANGED <<head, chanVars, notif>>
  PROVE  ChainInv(left)'
BY DEF ChainInv

(* A tip on the canonical chain. *)
LEMMA TipCanonical ==
  ASSUME SidecarInv', NEW l, IsAncestor(store'.latest, head'), pc' \notin {"decide", "unwind", "copy"}
  PROVE  TipInv(l)'
<1>. DEFINE d == IF Undisturbed(chan', notif', lagged') THEN MaxReorg ELSE 2 * MaxReorg
<1>1. head' \in Blocks /\ store'.latest \in Blocks
  BY StoreFields DEF SidecarInv, NodeOK, StoreOK, Sized
<1>2. d \in Nat
  BY SMT, SidecarAssumption
<1>. HIDE DEF d
<1>3. Close(store'.latest, head', d)
  BY <1>1, <1>2, CloseSelf
<1>4. On(store'.latest, l, head')
  BY DEF On
<1>5. pc' # "decide" /\ pc' # "unwind" /\ pc' # "copy"
  BY SMT
<1>. QED
  BY <1>3, <1>4, <1>5 DEF TipInv, d

(* A tip that is, or was, while a commit or nothing is in hand. *)
LEMMA TipOn ==
  ASSUME NEW l, On(store'.latest, l, head'), pc' \in {"idle", "handle", "backfill", "process"},
         pc' = "process" => notif'.old = <<>>
  PROVE  TipInv(l)'
<1>1. pc' \notin {"lagLock", "decide", "unwind", "copy"}
  BY SMT
<1>. QED
  BY <1>1 DEF TipInv

(* Steps that only take the task somewhere else, or write below the tip. *)
LEMMA TipFrame ==
  ASSUME NEW l, TipInv(l), UNCHANGED <<head, disk, chanVars, pc, caller, notif, seen, workers>>,
         store'.latest = store.latest, pc # "unwind"
  PROVE  TipInv(l)'
<1>1. Recovering' <=> Recovering
  BY DEF Recovering
<1>. QED
  BY <1>1 DEF TipInv

(* Startup: until it decides, nothing is claimed. *)
LEMMA OpeningBranch ==
  ASSUME SidecarInv, NEW left \in Blocks, ChainInv(left), TipInv(left), Spans(store),
         Restart \/ WipeData \/ WipeMarker \/ Subscribe
  PROVE  Spans(store') /\ \E l \in Blocks : ChainInv(l)' /\ TipInv(l)'
<1>1. Spans(store')
  <2>1. NoStore.status # "done"
    BY NoStoreType
  <2>. QED
    BY <2>1 DEF Restart, Goto, WipeData, WipeMarker, Subscribe, Spans
<1>2. /\ pc \in {"down", "wipe", "boot"} /\ ~workers /\ chan = <<>> /\ ~lagged /\ notif = NoNotif
      /\ lagged \in BOOLEAN
  BY SMT DEF Restart, WipeData, WipeMarker, Subscribe, SidecarInv, ControlOK, Recovering,
     Subscribed, ChanOK
<1>3. chan' = chan /\ lagged' = lagged /\ notif' = notif /\ head' = head /\ workers' = workers
  <2>1. lagged = FALSE
    BY SMTT(30), <1>2
  <2>. QED
    BY <1>2, <2>1 DEF Restart, Goto, WipeData, WipeMarker, Subscribe
<1>4. pc' \in {"down", "wipe", "boot", "reconcile", "init", "idle"} /\ ~workers'
  BY SMTT(30), <1>2, <1>3 DEF Restart, Goto, WipeData, WipeMarker, Subscribe
<1>5. ChainInv(left)'
  BY <1>3, ChainFrame
<1>6. TipInv(left)'
  BY SMT, <1>4, TipSilent
<1>. QED
  BY <1>1, <1>5, <1>6
=============================================================================
