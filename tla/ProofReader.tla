----------------------------- MODULE ProofReader -----------------------------
(***************************************************************************)
(* How eth_getProof picks the state it proves against                       *)
(* (crates/rpc/src/proof_state.rs), on top of the sidecar that maintains    *)
(* the store; and the abstract window (ProofWindow) the sidecar implements. *)
(***************************************************************************)
EXTENDS ProofHistorySidecar

CONSTANTS
  Refused,           \* ProofHistoryDeepHistoryError
  FallbackDistance   \* PROOF_HISTORY_CANONICAL_FALLBACK_MAX_DISTANCE

ASSUME ReaderAssumption == Refused \notin Blocks \cup {NoBlock} /\ FallbackDistance \in Nat

(* proof_history_covers: bounds of a read snapshot s of the store. *)
Covers(n, s) ==
  s.status = "done" /\ Number[s.earliest] <= n /\ n <= Number[s.latest]

(* proof_history_fallback_allowed; the distance saturates at 0. *)
FallbackAllowed(n, tip) == tip <= n + FallbackDistance

(* Mutant of CanServe: the readiness flag is not consulted. *)
ServeWhenCovered(reconciled, n, s) == Covers(n, s)

(* proof_history_can_serve *)
CanServe(reconciled, n, s) == reconciled /\ Covers(n, s)

(* resolve_block_state: the canonical block at the height. *)
ResolveBlockState(n) == CanonAt(n)

(* state_provider_at: whose state the provider reads, of a snapshot s, the  *)
(* flag and the canonical tip.                                              *)
StateProviderAt(canonical, n, s, reconciled, tip) ==
  IF CanServe(reconciled, n, s) THEN s.data[n - Number[s.earliest] + 1]
  ELSE IF FallbackAllowed(n, tip) THEN canonical
  ELSE Refused

ProvenBlock(n) == StateProviderAt(ResolveBlockState(n), n, store, ready, Number[head])

-----------------------------------------------------------------------------
(* A proof is of the canonical block of the requested height or is refused  *)
(* (state_provider_at), whatever the sync loop, the pruner, commits still   *)
(* queued, a restart or a backfill are doing, as long as no reorg or revert *)
(* is still to be applied and no lag recovery waits for the write lock.     *)
ProofsAreCanonical ==
  PendingReorgs = 0 /\ pc # "lagLock"
    => \A n \in 0 .. Number[head] : ProvenBlock(n) \in {CanonAt(n), Refused}

ProofWindowOfStore ==
  INSTANCE ProofWindow WITH
    window <- IF store.status = "done" THEN store.data ELSE <<>>,
    serving <- ready

(* The sidecar implements ProofWindow: the readable blocks are always one   *)
(* branch; while readiness is set they only follow the chain above the      *)
(* anchor or lose their oldest blocks (handle_notification, sync_loop, the  *)
(* pruner); initialization, backfill and the wipe of a condemned store      *)
(* happen out of the readers' sight.                                        *)
ImplementsWindow == ProofWindowOfStore!Spec
=============================================================================
