----------------------------- MODULE MCCallTrace -----------------------------
(* CallTrace on blocks of at most two transactions.                          *)
EXTENDS CallTrace
=============================================================================
