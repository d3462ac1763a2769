----------------------------- MODULE TraceRequest -----------------------------
(***************************************************************************)
(* The life of a request that works on the blocking pool: trace_debankBlock  *)
(* (crates/rpc/src/trace.rs), the debug witness methods                      *)
(* (crates/rpc/src/debug.rs) and eth_getProof (crates/rpc/src/eth/proofs.rs). *)
(*                                                                         *)
(* A request is an async handler on the RPC runtime; the work itself is a    *)
(* blocking worker that nothing can abort.  Each kind bounds the number of   *)
(* its concurrent workers with a semaphore.  The permit of that semaphore    *)
(* changes hands: the handler takes it, moves it into the worker's closure,  *)
(* and (for a trace) gets it back inside the response.  Meanwhile the        *)
(* deadline may pass, the client may disconnect and the chain may reorg.     *)
(*                                                                         *)
(* Every request names a stable block (`pending` is refused on arrival) and  *)
(* has arrived; how long it waits is up to the scheduler.                    *)
(*                                                                         *)
(* What the worker computes is modelled in CallTrace and StateCommitment;    *)
(* here a worker is a number of stages with a cancellation check before each. *)
(* Which state a proof is computed on is modelled in ProofReader.            *)
(***************************************************************************)
EXTENDS Naturals, FiniteSets

CONSTANTS Requests,         \* calls of the three kinds
          MaxReplays,       \* max_concurrent_replays of DebankTraceExt::new
          MaxWitnesses,     \* MAX_CONCURRENT_WITNESS_REQUESTS
          MaxProofs,        \* MAX_CONCURRENT_PROOF_REQUESTS
          Hashes,           \* the blocks that compete for the requested height
          NoBlock,          \* no block at that height
          Stages,           \* cancellation checks of a replay worker
          MaxReorgs         \* bound: changes of the canonical block

ASSUME CapacityAssumption ==
    /\ {MaxReplays, MaxWitnesses, MaxProofs} \subseteq Nat \ {0}
    /\ Stages \in Nat \ {0} /\ MaxReorgs \in Nat
    /\ NoBlock \notin Hashes
    /\ IsFiniteSet(Requests)

VARIABLES kind,       \* the method each request calls
          pc,         \* where the handler of each request is
          permit,     \* who owns its permit: nobody, the handler or the worker
          worker,     \* its blocking worker
          stage,      \* stages the worker has completed
          cancelled,  \* the CancelOnDrop token, shared with the worker
          expired,    \* the deadline of the request has passed
          target,     \* expected_hash: the block the request resolved to
          error,      \* the error a failing handler is about to report
          canonical,  \* the canonical block of the requested height
          lookup,     \* the provider answers block_hash (FALSE: a provider error)
          reorgs      \* reorgs so far (bound)

vars == <<kind, pc, permit, worker, stage, cancelled, expired, target, error, canonical, lookup, reorgs>>

TraceRequests == {r \in Requests : kind[r] = "trace"}       \* trace_debankBlock
WitnessRequests == {r \in Requests : kind[r] = "witness"}   \* debug_executionWitness...
ProofRequests == {r \in Requests : kind[r] = "proof"}       \* eth_getProof

Kinds == {"trace", "witness", "proof"}

Errors == {"cancelled", "unavailable", "mismatch", "reorged"}
Answers == {"ok", "gone"} \cup Errors
Running == {"acquire", "load", "check", "prepare", "wait", "final", "failing"}

TypeOK ==
    /\ kind \in [Requests -> Kinds]
    /\ pc \in [Requests -> Running \cup Answers]
    /\ permit \in [Requests -> {"none", "handler", "worker"}]
    /\ worker \in [Requests -> {"none", "queued", "running", "finished", "failed"}]
    /\ stage \in [Requests -> 0..Stages]
    /\ cancelled \in [Requests -> BOOLEAN]
    /\ expired \in [Requests -> BOOLEAN]
    /\ target \in [Requests -> Hashes \cup {NoBlock}]
    /\ error \in [Requests -> Errors \cup {"none"}]
    /\ canonical \in Hashes \cup {NoBlock}
    /\ lookup \in BOOLEAN
    /\ reorgs \in 0..MaxReorgs

Init ==
    /\ kind \in [Requests -> Kinds]
    /\ pc = [r \in Requests |-> IF r \in WitnessRequests THEN "load" ELSE "acquire"]
    /\ permit = [r \in Requests |-> "none"]
    /\ worker = [r \in Requests |-> "none"]
    /\ stage = [r \in Requests |-> 0]
    /\ cancelled = [r \in Requests |-> FALSE]
    /\ expired = [r \in Requests |-> FALSE]
    /\ target = [r \in Requests |-> NoBlock]
    /\ error = [r \in Requests |-> "none"]
    /\ canonical \in Hashes
    /\ lookup = TRUE
    /\ reorgs = 0

-----------------------------------------------------------------------------
(* The semaphores, one per kind.                                            *)

\* The requests a request competes with, itself included.
Competing(r) == {q \in Requests : kind[q] = kind[r]}
Capacity(k) ==
    CASE k = "trace" -> MaxReplays [] k = "witness" -> MaxWitnesses [] k = "proof" -> MaxProofs

PermitFree(r) ==
    Cardinality({q \in Competing(r) : permit[q] # "none"}) < Capacity(kind[r])

Goto(r, where) == pc' = [pc EXCEPT ![r] = where]

\* What the handler owns is dropped with its scope: the permit it holds, or the
\* response it was sent and has not taken.
DroppedByHandler(r) ==
    IF permit[r] = "handler" \/ worker[r] = "finished" THEN "none" ELSE permit[r]

\* The receiving end of the worker's result is dropped.
StopListening(r) ==
    worker' = [worker EXCEPT ![r] = IF @ \in {"finished", "failed"} THEN "none" ELSE @]

\* The handler goes on to report e.
Fail(r, e) ==
    /\ Goto(r, "failing")
    /\ error' = [error EXCEPT ![r] = e]
    /\ permit' = [permit EXCEPT ![r] = DroppedByHandler(r)]

\* An early return before the target is resolved: no second canonical check.
Return(r, answer) ==
    /\ Goto(r, answer)
    /\ permit' = [permit EXCEPT ![r] = DroppedByHandler(r)]
    /\ UNCHANGED error

-----------------------------------------------------------------------------
(* trace_debankBlock: the handler.                                          *)

\* Time passes: the request's deadline is behind it.
Expire(r) ==
    /\ r \in TraceRequests
    /\ pc[r] \in Running
    /\ ~expired[r]
    /\ expired' = [expired EXCEPT ![r] = TRUE]
    /\ UNCHANGED <<pc, permit, worker, stage, cancelled, target, error, canonical, lookup, reorgs>>

\* acquire_replay_permit: timeout_at polls the semaphore before the clock, so
\* a permit may still be granted after the deadline.
AcquireReplayPermit(r) ==
    /\ r \in TraceRequests
    /\ pc[r] = "acquire"
    /\ \/ /\ PermitFree(r)
          /\ permit' = [permit EXCEPT ![r] = "handler"]
          /\ Goto(r, "load")
       \/ /\ ~PermitFree(r) /\ expired[r]
          /\ Goto(r, "cancelled")
          /\ UNCHANGED permit
    /\ UNCHANGED <<worker, stage, cancelled, expired, target, error, canonical, lookup, reorgs>>

\* load_block_and_receipts: by number it is the canonical block, by hash any
\* block; it may be missing, and it may take longer than the deadline allows.
LoadBlock(r) ==
    /\ r \in TraceRequests
    /\ pc[r] = "load"
    /\ \/ /\ \E b \in Hashes : target' = [target EXCEPT ![r] = b]
          /\ Goto(r, "check")
          /\ UNCHANGED <<permit, error>>
       \/ Return(r, "unavailable") /\ UNCHANGED target
       \/ expired[r] /\ Return(r, "cancelled") /\ UNCHANGED target
    /\ UNCHANGED <<worker, stage, cancelled, expired, canonical, lookup, reorgs>>

\* assert_canonical: the canonical hash of the target's height is the target's,
\* is another one (or none), or the provider fails to say.
AssertCanonical(r) ==
    IF ~lookup THEN "unavailable" ELSE IF canonical = target[r] THEN "canonical" ELSE "reorged"

\* The first assert_canonical: its error is returned as it is.
InitialCheck(r) ==
    /\ pc[r] = "check"
    /\ IF AssertCanonical(r) = "canonical"
       THEN Goto(r, "prepare") /\ UNCHANGED <<permit, error>>
       ELSE Return(r, AssertCanonical(r))
    /\ UNCHANGED <<worker, stage, cancelled, expired, target, canonical, lookup, reorgs>>

\* The handler spawns the worker and moves its permit into the closure.
SpawnWorker(r) ==
    /\ worker' = [worker EXCEPT ![r] = "queued"]
    /\ permit' = [permit EXCEPT ![r] = "worker"]
    /\ Goto(r, "wait")

\* validate_stored_consensus, the unsupported transaction type, genesis_output
\* or the resolution of the parent state refuse the block; otherwise the replay
\* (or, for the genesis block, the serialisation) is spawned.
Prepare(r) ==
    /\ r \in TraceRequests
    /\ pc[r] = "prepare"
    /\ \/ SpawnWorker(r) /\ UNCHANGED error
       \/ Fail(r, "mismatch") /\ UNCHANGED worker
       \/ Fail(r, "unavailable") /\ UNCHANGED worker
    /\ UNCHANGED <<stage, cancelled, expired, target, canonical, lookup, reorgs>>

\* Mutant: DeadlineFires that gives the permit back although the worker still runs.
DeadlineFreesPermit(r) ==
    /\ pc[r] \in {"prepare", "wait"}
    /\ expired[r]
    /\ cancelled' = [cancelled EXCEPT ![r] = TRUE]
    /\ Goto(r, "failing")
    /\ error' = [error EXCEPT ![r] = "cancelled"]
    /\ permit' = [permit EXCEPT ![r] = "none"]
    /\ StopListening(r)
    /\ UNCHANGED <<stage, expired, target, canonical, lookup, reorgs>>

\* sleep_until(deadline) wins the select: the handler drops the token and stops
\* waiting.  The permit is freed only if the worker was never spawned.
DeadlineFires(r) ==
    /\ pc[r] \in {"prepare", "wait"}
    /\ expired[r]
    /\ cancelled' = [cancelled EXCEPT ![r] = TRUE]
    /\ Fail(r, "cancelled")
    /\ StopListening(r)
    /\ UNCHANGED <<stage, expired, target, canonical, lookup, reorgs>>

\* The replay wins the select: a ReplayResponse carries the permit back.
ReceiveReplay(r) ==
    /\ r \in TraceRequests
    /\ pc[r] = "wait"
    /\ \/ /\ worker[r] = "finished"
          /\ permit' = [permit EXCEPT ![r] = "handler"]
          /\ Goto(r, "final")
          /\ UNCHANGED error
       \/ /\ worker[r] = "failed"
          /\ \E e \in {"mismatch", "unavailable"} : Fail(r, e)
    /\ worker' = [worker EXCEPT ![r] = "none"]
    /\ UNCHANGED <<stage, cancelled, expired, target, canonical, lookup, reorgs>>

\* Mutant: FinalCheck that trusts the check made before the replay.
FinalCheckSkipped(r) ==
    /\ pc[r] = "final"
    /\ IF expired[r] THEN Fail(r, "cancelled") ELSE Return(r, "ok")
    /\ UNCHANGED <<worker, stage, cancelled, expired, target, canonical, lookup, reorgs>>

\* The last deadline check and the last assert_canonical before Ok.
FinalCheck(r) ==
    /\ pc[r] = "final"
    /\ IF expired[r]
       THEN Fail(r, "cancelled")
       ELSE IF AssertCanonical(r) = "canonical" THEN Return(r, "ok") ELSE Fail(r, AssertCanonical(r))
    /\ UNCHANGED <<worker, stage, cancelled, expired, target, canonical, lookup, reorgs>>

\* prefer_reorg_error: an error of a resolved request becomes BLOCK_REORGED if
\* the provider says that the target is no longer canonical; a provider error
\* leaves it as it is.
PreferReorgError(r) ==
    /\ pc[r] = "failing"
    /\ Goto(r, IF AssertCanonical(r) = "reorged" THEN "reorged" ELSE error[r])
    /\ UNCHANGED <<permit, worker, stage, cancelled, expired, target, error, canonical, lookup, reorgs>>

-----------------------------------------------------------------------------
(* debug_executionWitness and its variants.                                 *)

\* recovered_block, then resolve_block_state of the parent: either may fail.
ResolveWitnessState(r) ==
    /\ r \in WitnessRequests
    /\ pc[r] = "load"
    /\ \/ Goto(r, "acquire")
       \/ Goto(r, "unavailable")
    /\ UNCHANGED <<permit, worker, stage, cancelled, expired, target, error, canonical, lookup, reorgs>>

\* acquire_owned has no deadline; the owned permit moves into spawn_blocking.
SpawnWitness(r) ==
    /\ r \in WitnessRequests
    /\ pc[r] = "acquire"
    /\ PermitFree(r)
    /\ SpawnWorker(r)
    /\ UNCHANGED <<stage, cancelled, expired, target, error, canonical, lookup, reorgs>>

-----------------------------------------------------------------------------
(* eth_getProof.                                                            *)

\* The permit comes first, without a deadline.
AcquireProofPermit(r) ==
    /\ r \in ProofRequests
    /\ pc[r] = "acquire"
    /\ PermitFree(r)
    /\ permit' = [permit EXCEPT ![r] = "handler"]
    /\ Goto(r, "load")
    /\ UNCHANGED <<worker, stage, cancelled, expired, target, error, canonical, lookup, reorgs>>

\* resolve_block_state, awaited with the permit held, fails or the permit moves
\* into spawn_blocking.
ResolveProofState(r) ==
    /\ r \in ProofRequests
    /\ pc[r] = "load"
    /\ \/ SpawnWorker(r) /\ UNCHANGED error
       \/ Return(r, "unavailable") /\ UNCHANGED worker
    /\ UNCHANGED <<stage, cancelled, expired, target, canonical, lookup, reorgs>>

\* flatten_blocking_task, for witnesses and proofs: the answer is the task's,
\* without further checks.
ReceiveBlocking(r) ==
    /\ r \notin TraceRequests
    /\ pc[r] = "wait"
    /\ worker[r] \in {"finished", "failed"}
    /\ Goto(r, IF worker[r] = "finished" THEN "ok" ELSE "mismatch")
    /\ worker' = [worker EXCEPT ![r] = "none"]
    /\ UNCHANGED <<permit, stage, cancelled, expired, target, error, canonical, lookup, reorgs>>

-----------------------------------------------------------------------------
(* The workers.                                                             *)

\* The blocking pool starts a queued closure, whoever is still waiting for it.
WorkerStarts(r) ==
    /\ worker[r] = "queued"
    /\ worker' = [worker EXCEPT ![r] = "running"]
    /\ UNCHANGED <<pc, permit, stage, cancelled, expired, target, error, canonical, lookup, reorgs>>

\* Mutant: Deliver of a semaphore released by the handler and not by ownership.
DeliverKeepsPermit(r, outcome, owner) ==
    /\ worker' = [worker EXCEPT ![r] = IF pc[r] = "wait" THEN outcome ELSE "none"]
    /\ permit' = [permit EXCEPT ![r] = IF outcome = "finished" THEN owner ELSE "none"]

\* The result is sent to the handler; if the handler no longer listens it is
\* dropped, and with it a permit that travelled in a ReplayResponse.
Deliver(r, outcome, owner) ==
    LET heard == pc[r] = "wait" IN
    /\ worker' = [worker EXCEPT ![r] = IF heard THEN outcome ELSE "none"]
    /\ permit' = [permit EXCEPT ![r] = IF heard THEN owner ELSE "none"]

\* One stage: check_cancelled, then the stage's work, which may fail.  The
\* closure of a witness or a proof has no token to check.
WorkerStage(r) ==
    /\ worker[r] = "running"
    /\ stage[r] < Stages
    /\ \/ /\ ~(r \in TraceRequests /\ cancelled[r])
          /\ stage' = [stage EXCEPT ![r] = @ + 1]
          /\ UNCHANGED <<worker, permit>>
       \/ Deliver(r, "failed", "none") /\ UNCHANGED stage
    /\ UNCHANGED <<pc, cancelled, expired, target, error, canonical, lookup, reorgs>>

\* The last stage is done.  A trace returns its permit inside the response, the
\* others drop it with the closure.
WorkerFinishes(r) ==
    /\ worker[r] = "running"
    /\ stage[r] = Stages
    /\ Deliver(r, "finished", IF r \in TraceRequests THEN "worker" ELSE "none")
    /\ UNCHANGED <<pc, stage, cancelled, expired, target, error, canonical, lookup, reorgs>>

-----------------------------------------------------------------------------
(* The environment.                                                         *)

\* The client disconnects: the handler's future is dropped at an await point,
\* with its token, its permit and a response not yet taken.
Disconnect(r) ==
    /\ pc[r] \in {"acquire", "load", "prepare", "wait"}
    /\ Goto(r, "gone")
    /\ cancelled' = [cancelled EXCEPT ![r] = TRUE]
    /\ StopListening(r)
    /\ permit' = [permit EXCEPT ![r] = DroppedByHandler(r)]
    /\ UNCHANGED <<stage, expired, target, error, canonical, lookup, reorgs>>

\* Another block, or none, becomes canonical at the requested height.
Reorg ==
    /\ reorgs < MaxReorgs
    /\ canonical' \in (Hashes \cup {NoBlock}) \ {canonical}
    /\ reorgs' = reorgs + 1
    /\ UNCHANGED <<pc, permit, worker, stage, cancelled, expired, target, error, lookup>>

\* block_hash of the provider starts, or stops, to fail.
LookupChanges ==
    /\ lookup' = ~lookup
    /\ UNCHANGED <<pc, permit, worker, stage, cancelled, expired, target, error, canonical, reorgs>>

HandlerStep(r) ==
    \/ AcquireReplayPermit(r) \/ LoadBlock(r) \/ InitialCheck(r) \/ Prepare(r)
    \/ DeadlineFires(r) \/ ReceiveReplay(r) \/ FinalCheck(r) \/ PreferReorgError(r)
    \/ ResolveWitnessState(r) \/ SpawnWitness(r)
    \/ AcquireProofPermit(r) \/ ResolveProofState(r) \/ ReceiveBlocking(r)

WorkerStep(r) == WorkerStarts(r) \/ WorkerStage(r) \/ WorkerFinishes(r)

Next ==
    /\ \/ \E r \in Requests : Expire(r) \/ HandlerStep(r) \/ WorkerStep(r) \/ Disconnect(r)
       \/ Reorg \/ LookupChanges
    /\ UNCHANGED kind

\* Time passes, the runtime polls every handler, the blocking pool runs every
\* closure: none of it waits for a client or for the chain.
Fairness ==
    \A r \in Requests :
        /\ WF_vars(Expire(r) /\ UNCHANGED kind)
        /\ WF_vars(HandlerStep(r) /\ UNCHANGED kind)
        /\ WF_vars(WorkerStep(r) /\ UNCHANGED kind)

Spec == Init /\ [][Next]_vars /\ Fairness

-----------------------------------------------------------------------------
(* Properties.                                                              *)

\* The work in progress never exceeds the configured concurrency, counting the
\* workers whose request has timed out or whose client has gone: a permit ends
\* with the work it stands for (for a trace with its response) and not with the
\* request (trace.rs `ReplayResponse::_permit`, debug.rs and eth/proofs.rs
\* "letting cancelled requests bypass the cap").
WorkBounded ==
    \A k \in Kinds :
        Cardinality({r \in Requests :
            /\ kind[r] = k
            /\ worker[r] \in {"queued", "running"} \/ (k = "trace" /\ worker[r] = "finished")})
          <= Capacity(k)

\* A trace is answered with Ok only in a step in which the provider says that
\* the block it resolved at the start is the canonical one, however the chain
\* moved during the replay; and a resolved request that fails while its block is
\* not canonical says so, unless the provider fails in that very check
\* (trace.rs, assert_canonical and the `_ => original` of prefer_reorg_error).
AnswerKnowsReorg ==
    [][\A r \in TraceRequests :
        /\ pc'[r] = "ok" /\ pc[r] # "ok" => lookup /\ canonical = target[r]
        /\ pc[r] = "failing" /\ pc'[r] \in Answers /\ lookup /\ canonical # target[r]
              => pc'[r] = "reorged"]_vars

\* Every request is answered, or its client has gone; and whatever became of
\* the request, its permit comes back: neither a deadline that beats the worker
\* nor a disconnect at any await point leaks a slot of the semaphore.
PermitsComeBack ==
    \A r \in Requests :
        /\ (pc[r] \in Running) ~> (pc[r] \in Answers)
        /\ (permit[r] # "none") ~> (permit[r] = "none")
=============================================================================
