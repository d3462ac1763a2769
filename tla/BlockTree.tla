------------------------------ MODULE BlockTree ------------------------------
(***************************************************************************)
(* The tree of blocks the execution client may ever adopt.  A block stands  *)
(* for its hash, number and post-state.                                     *)
(***************************************************************************)
EXTENDS Integers, Sequences, FiniteSetsExt

CONSTANTS
  Blocks,   \* all blocks
  Genesis,  \* the root
  Parent,   \* the parent of every other block
  Number    \* the block number

ASSUME BlockTreeAssumption ==
  /\ Genesis \in Blocks
  /\ Parent \in [Blocks \ {Genesis} -> Blocks]
  /\ Number \in [Blocks -> Nat]
  /\ Number[Genesis] = 0
  /\ \A b \in Blocks \ {Genesis} : Number[b] = Number[Parent[b]] + 1

MaxNumber == Max({Number[b] : b \in Blocks})

(* The blocks from the genesis block to b. *)
Branch[b \in Blocks] ==
  IF b = Genesis THEN <<b>> ELSE Append(Branch[Parent[b]], b)

AncestorAt(b, n) == Branch[b][n + 1]

IsAncestor(a, b) == Number[a] <= Number[b] /\ AncestorAt(b, Number[a]) = a

(* The last block two branches share. *)
Meet(a, b) ==
  AncestorAt(a, Max({n \in 0 .. Number[a] :
                       n <= Number[b] /\ AncestorAt(a, n) = AncestorAt(b, n)}))

(* The blocks above a, up to and including its descendant b. *)
Path(a, b) == SubSeq(Branch[b], Number[a] + 2, Number[b] + 1)
=============================================================================
