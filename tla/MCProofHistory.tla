--------------------------- MODULE MCProofHistory ---------------------------
(* A main branch of four blocks with a fork at each of the first heights.   *)
EXTENDS ProofReader

CONSTANTS g, a1, a2, a3, b2, b3, c1, c2

MCBlocks == {g, a1, a2, a3, b2, b3, c1, c2}

MCParent ==
  [b \in MCBlocks \ {g} |->
    CASE b \in {a1, c1} -> g [] b \in {a2, b2} -> a1 [] b = a3 -> a2 [] b = b3 -> b2
      [] b = c2 -> c1]

MCNumber ==
  [b \in MCBlocks |->
    CASE b = g -> 0 [] b \in {a1, c1} -> 1 [] b \in {a2, b2, c2} -> 2 [] OTHER -> 3]

=============================================================================
