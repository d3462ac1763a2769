-------------------------- MODULE MCBlockExecutor --------------------------
(* An instance of the executor whose transactions meet every outcome: a     *)
(* cheap one, a heavy one, one whose work depends on what ran before it, an *)
(* invalid one, one whose multiplication overflows, one too large for the   *)
(* block gas.                                                               *)
EXTENDS TaikoBlockExecutor, FiniteSets

CONSTANTS cheap, heavy, moody, bad, huge, wide

MCTxs == {cheap, heavy, moody, bad, huge, wide}

MCGasLimit == [t \in MCTxs |-> IF t = wide THEN 5 ELSE IF t = heavy THEN 2 ELSE 1]

item(r, m) == [raw |-> r, multiplier |-> m]

(* The state records whether a cheap transaction has run. *)
MCStates == BOOLEAN

MCRun ==
  [tx \in MCTxs |-> [s \in MCStates |->
    [valid |-> tx # bad,
     gas |-> IF tx = heavy THEN 2 ELSE 1,
     next |-> s \/ tx = cheap,
     work |-> CASE tx = cheap -> <<item(1, 1)>>
                [] tx = heavy -> <<item(2, 2), item(1, 3)>>
                [] tx = moody -> IF s THEN <<item(1, 3), item(2, 1)>> ELSE <<>>
                [] tx = huge -> <<item(1, 1), item(7, 7)>>
                [] OTHER -> <<item(1, 1)>>]]]

(* One reservation fits an empty block, one never does. *)
MCReservations == {2, 12}
=============================================================================
