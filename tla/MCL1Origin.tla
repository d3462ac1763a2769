---------------------------- MODULE MCL1Origin ----------------------------
(* Instance of L1Origin for TLC: two overlapping forkchoice requests.      *)
EXTENDS L1Origin, TLC

CONSTANTS c1, c2

MCCalls == {c1, c2}
MCSymmetry == Permutations(MCCalls)
=============================================================================
