----------------------------- MODULE ProofWindow -----------------------------
(***************************************************************************)
(* What the proof history promises to its readers: a window of consecutive  *)
(* blocks of one branch, and a flag that says whether it may be served.     *)
(* While it is served it only follows the chain above its first block and   *)
(* loses its oldest blocks; it is filled, emptied and extended downwards    *)
(* only while it is not.                                                    *)
(***************************************************************************)
EXTENDS BlockTree

VARIABLES
  window,   \* the blocks whose state can be read, oldest first
  serving   \* whether readers are sent to the window

windowVars == <<window, serving>>

(* Consecutive blocks of one branch. *)
Chained(w) ==
  \A i \in 1 .. Len(w) - 1 : w[i + 1] # Genesis /\ Parent[w[i + 1]] = w[i]

OneBranch == window \in Seq(Blocks) /\ Chained(window)

Init == window = <<>> /\ serving = FALSE

(* A copy of the current state of some block. *)
Open ==
  /\ window = <<>> /\ ~serving
  /\ \E b \in Blocks : window' = <<b>>
  /\ serving' \in BOOLEAN

(* Blocks are appended, or replaced from some height on. *)
Follow ==
  /\ serving /\ window # <<>>
  /\ window' \in Seq(Blocks) /\ window' # <<>> /\ Chained(window')
  /\ window'[1] = window[1]
  /\ UNCHANGED serving

(* A reconciliation cuts back to blocks known to be right. *)
Reconcile ==
  /\ ~serving /\ window # <<>>
  /\ \E k \in 1 .. Len(window) : window' = SubSeq(window, 1, k)
  /\ serving' \in BOOLEAN

(* The oldest blocks go. *)
Slide ==
  /\ serving
  /\ \E k \in 2 .. Len(window) : window' = SubSeq(window, k, Len(window))
  /\ UNCHANGED serving

(* One block more at the old end. *)
Deepen ==
  /\ ~serving /\ window # <<>> /\ window[1] # Genesis
  /\ window' = <<Parent[window[1]]>> \o window
  /\ UNCHANGED serving

Clear == ~serving /\ window' = <<>> /\ UNCHANGED serving

Stop == serving /\ serving' = FALSE /\ UNCHANGED window

Next == Open \/ Follow \/ Reconcile \/ Slide \/ Deepen \/ Clear \/ Stop

Spec == Init /\ [][Next]_windowVars
=============================================================================
