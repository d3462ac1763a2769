----------------------------- MODULE MCTaikoEvm -----------------------------
(***************************************************************************)
(* A block of an anchor and up to two more transactions on small gas units. *)
(* The zk gas budget fits two light transactions and not two heavy ones.    *)
(***************************************************************************)
EXTENDS TaikoEvm

Tx(caller, nonce, to, gasLimit, maxFee, tip) ==
  [caller |-> caller, nonce |-> nonce, to |-> to, gasLimit |-> gasLimit,
   maxFee |-> maxFee, tip |-> tip]

MCAnchor == Tx(Golden, 0, Treasury, 3, 3, 0)

(* An ordinary call and its successor, a call of a precompile, a caller who *)
(* cannot pay the maximum fee, and a second golden touch call of the        *)
(* treasury.                                                                *)
MCCandidates ==
  { Tx(User, 0, "contract", 5, 5, 1),
    Tx(User, 1, "contract", 4, 4, 2),
    Tx(User, 0, "unlisted", 3, 3, 0),
    Tx(User, 0, "contract", 5, 20, 1),
    Tx(Golden, 1, Treasury, 3, 3, 0) }

MCMultiplier == [op \in {"add", "call"} |-> IF op = "add" THEN 1 ELSE 2]
MCPrecompileMultiplier == [p \in {"listed"} |-> 3]
MCSpawnEstimate == [op \in {"call"} |-> 2]
=============================================================================
