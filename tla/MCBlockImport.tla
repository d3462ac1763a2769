----------------------------- MODULE MCBlockImport -----------------------------
(***************************************************************************)
(* Three blocks on a genesis that may hold one contract: the first before      *)
(* Unzen, later ones on either side of it.                                     *)
(***************************************************************************)
EXTENDS BlockImport

MCZkGas == [gas \in 0 .. GasLimit |-> gas \div 10]
=============================================================================
