-------------------------- MODULE MCBlockPipeline --------------------------
(* Lists of an anchor and up to three transactions, in every order and with *)
(* repetition.  The block has zk gas for a few cheap transactions, so that  *)
(* truncation hits at every position, and gas for three.                    *)
EXTENDS BlockPipeline

CONSTANTS anchor, badAnchor, fatAnchor, cheap, heavy, moody, blob, ghost, wide

MCTxs == {anchor, badAnchor, fatAnchor, cheap, heavy, moody, blob, ghost, wide}
MCAnchors == {anchor, badAnchor, fatAnchor}

MCGasLimit == [t \in MCTxs |-> CASE t = wide -> 3 [] t = heavy -> 2 [] OTHER -> 1]

item(r, m) == [raw |-> r, multiplier |-> m]

(* The state counts up to two cheap transactions; moody is valid only after *)
(* the first and costs more after the second.                               *)
MCStates == 0 .. 2

MCRun ==
  [tx \in MCTxs |-> [s \in MCStates |->
    [valid |-> tx # badAnchor /\ (tx = moody => s > 0),
     gas |-> 1,
     next |-> IF tx = cheap /\ s < 2 THEN s + 1 ELSE s,
     work |-> CASE tx = heavy -> <<item(2, 2), item(1, 3)>>
                [] tx = fatAnchor -> <<item(7, 7)>>
                [] tx = moody -> IF s = 2 THEN <<item(1, 3), item(2, 1)>> ELSE <<item(1, 1)>>
                [] OTHER -> <<item(1, 1)>>]]]

Body == {cheap, heavy, moody, blob, ghost, wide}

MCLists ==
  {<<>>} \cup
  {<<a>> \o rest : a \in MCAnchors, rest \in UNION {[1 .. n -> Body] : n \in 0 .. 3}}
(* Bodies with and without a leading anchor, under every difficulty. *)
MCForeignBlocks ==
  [body : UNION {[1 .. n -> {anchor, cheap, heavy, moody, wide, blob}] : n \in 0 .. 3},
   difficulty : 0 .. BlockLimit]
=============================================================================
