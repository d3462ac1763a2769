----------------------------- MODULE ProofStore -----------------------------
(***************************************************************************)
(* The proof-history store as the sidecar uses it (the store itself is the  *)
(* external op-reth trie crate): a proof window of consecutive blocks with  *)
(* the labels of its two ends.  data holds, per height, the block whose     *)
(* state diff was written; a label is what the caller said.                 *)
(***************************************************************************)
EXTENDS BlockTree

Statuses == {"none", "legacy", "copying", "done"}

Store == [status : Statuses, earliest : Blocks, latest : Blocks, data : Seq(Blocks)]

NoStore == [status |-> "none", earliest |-> Genesis, latest |-> Genesis, data |-> <<>>]

(* Data of the former format only, which the current one reads as nothing. *)
LegacyStore == [NoStore EXCEPT !.status = "legacy"]

(* A current-state copy labelled with its anchor. *)
InitializedAt(b) == [status |-> "done", earliest |-> b, latest |-> b, data |-> <<b>>]

(* The number of stored heights up to that of block b. *)
HeightsUpTo(s, b) == Number[b] - Number[s.earliest] + 1

(* store_trie_updates appends on top of the latest label only. *)
StoreAccepts(s, b) == b # Genesis /\ Parent[b] = s.latest

StoreTrieUpdates(s, b) == [s EXCEPT !.latest = b, !.data = Append(s.data, b)]

(* unwind_history reads the unwind height and the parent label it is given. *)
UnwindHistory(s, parent) ==
  [s EXCEPT !.latest = parent, !.data = SubSeq(s.data, 1, HeightsUpTo(s, parent))]

(* replace_updates refuses a common ancestor at or below the window's start. *)
ReplaceAccepts(s, common) == Number[common] > Number[s.earliest]

ReplaceUpdates(s, common, new) ==
  [s EXCEPT !.latest = new[Len(new)],
            !.data = SubSeq(s.data, 1, HeightsUpTo(s, common)) \o new]

(* The pruner drops what is below b and labels the new start with b. *)
PruneTo(s, b) ==
  [s EXCEPT !.earliest = b, !.data = SubSeq(s.data, HeightsUpTo(s, b), Len(s.data))]

(* One backfilled block below the window. *)
Prepend(s, b) == [s EXCEPT !.earliest = b, !.data = <<b>> \o s.data]

(* The window is one branch of the tree and its labels tell the truth. *)
Consistent(s) ==
  /\ s.data # <<>>
  /\ s.data[1] = s.earliest
  /\ s.data[Len(s.data)] = s.latest
  /\ \A i \in 1 .. Len(s.data) - 1 : s.data[i + 1] # Genesis /\ Parent[s.data[i + 1]] = s.data[i]
=============================================================================
