------------------------- MODULE ProofHistorySidecar -------------------------
(***************************************************************************)
(* The proof-history sidecar (crates/node/src/proof_history): the task that *)
(* follows canonical notifications, its sync loop and pruner, the store     *)
(* they write, and the execution client around them, with reorgs, lagging   *)
(* notifications, crashes and restarts.                                     *)
(***************************************************************************)
EXTENDS ProofStore

CONSTANTS
  NoBlock,           \* no canonical block at a height
  Modes,             \* the values of config.backfill_window_only considered
  Window,            \* config.window
  MaxStartupPrune,   \* config.max_startup_prune_blocks
  RealTimeBlocks,    \* PROOF_HISTORY_REAL_TIME_BLOCKS_THRESHOLD
  SyncBatch,         \* PROOF_HISTORY_SYNC_BATCH_SIZE
  ChanCap,           \* capacity of the notification broadcast channel
  DiskReorgs,        \* whether a reorg or revert may reach persisted blocks
  MaxPending,        \* reorgs the sidecar may still have to handle
  MaxReorg,          \* deepest reorg of the chain
  MaxMoves,          \* bound: how often the canonical head moves
  MaxCrashes         \* bound: how often the node is killed

(* A reorg never reaches below a full retention window. *)
ASSUME SidecarAssumption ==
  /\ NoBlock \notin Blocks
  /\ Modes \subseteq BOOLEAN /\ DiskReorgs \in BOOLEAN
  /\ {Window, MaxStartupPrune, RealTimeBlocks, SyncBatch, ChanCap, MaxPending, MaxReorg,
      MaxMoves, MaxCrashes} \subseteq Nat
  /\ SyncBatch > 0 /\ ChanCap > 0
  /\ MaxReorg <= Window

VARIABLES
  windowOnly,            \* config.backfill_window_only, never changes
  head, disk,            \* tips of the canonical chain in memory and on disk
  moves, crashes,        \* spent bounds
  chan, lagged,          \* the sidecar's notification receiver
  store, marker,         \* the store and the rebuild marker file
  pc, caller, notif, seen, todo,  \* the sidecar task
  ready, workers, lock,  \* readiness flag, workers spawned, write_lock
  sync                   \* the sync loop

nodeVars == <<head, disk, moves, crashes>>
chanVars == <<chan, lagged>>
durableVars == <<store, marker>>
taskVars == <<pc, caller, notif, seen, todo>>
sharedVars == <<ready, workers, lock>>
vars == <<windowOnly, nodeVars, chanVars, durableVars, taskVars, sharedVars, sync>>

Notification == [old : Seq(Blocks), new : Seq(Blocks)]
NoNotif == [old |-> <<>>, new |-> <<>>]
NothingSeen == [best |-> 0, earliest |-> NoBlock]
SyncIdle == [pc |-> "idle", next |-> 0, end |-> 0]

Pcs == {"down", "wipe", "boot", "reconcile", "decide", "init", "copy", "unwind", "backfill",
        "idle", "lagLock", "handle", "process"}

TypeOK ==
  /\ windowOnly \in Modes
  /\ head \in Blocks /\ disk \in Blocks
  /\ moves \in 0 .. MaxMoves /\ crashes \in 0 .. MaxCrashes
  /\ chan \in Seq(Notification) /\ Len(chan) <= ChanCap
  /\ lagged \in BOOLEAN
  /\ store \in Store
  /\ store.status = "done" => Len(store.data) = HeightsUpTo(store, store.latest)
  /\ marker \in BOOLEAN
  /\ pc \in Pcs
  /\ caller \in {"start", "lag"}
  /\ notif \in Notification
  /\ seen \in [best : Nat, earliest : Blocks \cup {NoBlock}]
  /\ todo \in Seq(Nat)
  /\ ready \in BOOLEAN /\ workers \in BOOLEAN
  /\ lock \in {"free", "sidecar", "sync"}
  /\ sync \in [pc : {"idle", "batch"}, next : Nat, end : Nat]

Init ==
  /\ windowOnly \in Modes
  /\ head = Genesis /\ disk = Genesis
  /\ moves = 0 /\ crashes = 0
  /\ chan = <<>> /\ lagged = FALSE
  /\ store \in {NoStore, LegacyStore} /\ marker = FALSE
  /\ pc = "down" /\ caller = "start" /\ notif = NoNotif /\ seen = NothingSeen /\ todo = <<>>
  /\ ready = FALSE /\ workers = FALSE /\ lock = "free"
  /\ sync = SyncIdle

-----------------------------------------------------------------------------
(* The execution client (external).                                         *)

(* provider.block_hash / recovered_block: the in-memory chain, then disk.   *)
CanonAt(n) ==
  IF n <= Number[head] THEN AncestorAt(head, n)
  ELSE IF n <= Number[disk] THEN AncestorAt(disk, n)
  ELSE NoBlock

Subscribed == pc \notin {"down", "wipe", "boot"}

(* The broadcast channel drops the oldest notification when it is full.     *)
Publish(old, new) ==
  LET n == [old |-> old, new |-> new]
  IN  IF ~Subscribed THEN UNCHANGED chanVars
      ELSE IF Len(chan) < ChanCap THEN chan' = Append(chan, n) /\ UNCHANGED lagged
      ELSE chan' = Append(Tail(chan), n) /\ lagged' = TRUE

(* Reorgs and reverts the sidecar has been told of and not yet applied.     *)
PendingReorgs ==
  Cardinality({i \in DOMAIN chan : chan[i].old # <<>>})
    + Cardinality({n \in {notif} : n.old # <<>>}) + (IF lagged THEN 1 ELSE 0)

(* A commit, a reorg or, when b is an ancestor of the head, a revert.       *)
MoveHead(b) ==
  LET fork == Meet(head, b)
  IN  /\ pc # "down"
      /\ moves < MaxMoves
      /\ b # head
      /\ IsAncestor(head, b) \/ PendingReorgs < MaxPending
      /\ DiskReorgs \/ IsAncestor(disk, b)
      /\ Number[head] - Number[fork] <= MaxReorg
      /\ head' = b
      /\ moves' = moves + 1
      /\ Publish(Path(fork, head), Path(fork, b))
      /\ UNCHANGED <<disk, crashes, durableVars, taskVars, sharedVars, sync>>

(* Staged sync extends the chain straight on disk, without a notification.  *)
PipelineSync(b) ==
  /\ pc # "down"
  /\ moves < MaxMoves
  /\ head = disk
  /\ b # head /\ IsAncestor(head, b)
  /\ head' = b /\ disk' = b
  /\ moves' = moves + 1
  /\ UNCHANGED <<crashes, chanVars, durableVars, taskVars, sharedVars, sync>>

(* Persistence appends canonical blocks; after a reorg below the persisted  *)
(* boundary it first removes the blocks that are no longer canonical.       *)
Persist(b) ==
  /\ pc # "down"
  /\ b # disk
  /\ IF IsAncestor(disk, head)
     THEN IsAncestor(disk, b) /\ IsAncestor(b, head)
     ELSE b = Meet(disk, head)
  /\ disk' = b
  /\ UNCHANGED <<head, moves, crashes, chanVars, durableVars, taskVars, sharedVars, sync>>

-----------------------------------------------------------------------------
(* Going down and coming back.                                              *)

(* Whatever is only in memory is lost, the unpersisted blocks included.     *)
LoseMemory ==
  /\ head' = disk
  /\ chan' = <<>> /\ lagged' = FALSE
  /\ pc' = "down" /\ caller' = "start" /\ notif' = NoNotif /\ seen' = NothingSeen /\ todo' = <<>>
  /\ ready' = FALSE /\ workers' = FALSE /\ lock' = "free"
  /\ sync' = SyncIdle
  /\ UNCHANGED <<disk, moves>>

(* An error of the sidecar task ends the node: the task is critical.        *)
Fail == LoseMemory /\ UNCHANGED <<crashes, durableVars>>

Crash ==
  /\ pc # "down"
  /\ crashes < MaxCrashes
  /\ crashes' = crashes + 1
  /\ LoseMemory
  /\ UNCHANGED durableVars

(* Moves of the sidecar task that touch nothing else. *)
Goto(label) ==
  /\ pc' = label
  /\ UNCHANGED <<nodeVars, chanVars, durableVars, caller, notif, seen, todo, sharedVars, sync>>

(* open_proof_history_storage: rebuild_reason. *)
NeedsRebuild == marker \/ store.status \in {"legacy", "copying"}

Restart == pc = "down" /\ Goto(IF NeedsRebuild THEN "wipe" ELSE "boot")

(* remove_proof_history_store_files: the data first, the marker last.       *)
WipeData ==
  /\ pc = "wipe" /\ store # NoStore
  /\ store' = NoStore
  /\ UNCHANGED <<nodeVars, chanVars, marker, taskVars, sharedVars, sync>>

(* Mutant of WipeMarker: the marker goes before the data is gone. *)
WipeMarkerFirst ==
  /\ pc = "wipe"
  /\ marker' = FALSE
  /\ pc' = "boot"
  /\ UNCHANGED <<nodeVars, chanVars, store, caller, notif, seen, todo, sharedVars, sync>>

WipeMarker ==
  /\ pc = "wipe" /\ store = NoStore
  /\ marker' = FALSE
  /\ pc' = "boot"
  /\ UNCHANGED <<nodeVars, chanVars, store, caller, notif, seen, todo, sharedVars, sync>>

(* run: subscribe before the first try_start. *)
Subscribe ==
  /\ pc = "boot"
  /\ chan' = <<>> /\ lagged' = FALSE
  /\ pc' = "reconcile" /\ caller' = "start"
  /\ UNCHANGED <<nodeVars, durableVars, notif, seen, todo, sharedVars, sync>>
-----------------------------------------------------------------------------
(* reconcile_or_wait, for try_start (caller start) and recover_from_lag     *)
(* (caller lag).  startup_action reads the chain more than once.            *)

StartupRead ==
  /\ pc = "reconcile"
  /\ seen' = [best |-> Number[head],
              earliest |-> IF store.status = "done" THEN CanonAt(Number[store.earliest])
                           ELSE NoBlock]
  /\ pc' = "decide"
  /\ UNCHANGED <<nodeVars, chanVars, durableVars, caller, notif, todo, sharedVars, sync>>

(* proof_history_startup_action, on what was read and the latest hash. *)
StartupAction ==
  LET latest == CanonAt(Number[store.latest])
  IN  IF store.status # "done" THEN "uninitialized"
      ELSE IF seen.earliest = NoBlock THEN "wait"
      ELSE IF seen.earliest # store.earliest THEN "rebuild"
      ELSE IF Number[store.latest] > seen.best THEN "wait"
      ELSE IF latest = NoBlock THEN "error"
      ELSE IF latest = store.latest THEN "ready"
      ELSE "unwind"

(* ensure_initialized: the pruner may not have too much to do at once. *)
EnsureInitialized ==
  Number[store.latest] - Window - Number[store.earliest] <= MaxStartupPrune

SpawnWorkers ==
  /\ ready' = TRUE /\ workers' = TRUE
  /\ pc' = IF notif = NoNotif THEN "idle" ELSE "handle"
  /\ UNCHANGED <<nodeVars, chanVars, marker, caller, notif, seen, todo, lock, sync>>

(* Mutant of Reconciled: only a new store is backfilled. *)
BackfillNewStoreOnly ==
  IF caller = "lag"
  THEN /\ ready' = TRUE /\ lock' = "free"
       /\ pc' = "idle"
       /\ UNCHANGED <<nodeVars, chanVars, marker, caller, notif, seen, todo, workers, sync>>
  ELSE IF windowOnly /\ pc = "copy"
  THEN /\ pc' = "backfill"
       /\ UNCHANGED <<nodeVars, chanVars, marker, caller, notif, seen, todo, sharedVars, sync>>
  ELSE SpawnWorkers

(* What follows a reconciliation that succeeded. *)
Reconciled ==
  IF caller = "lag"
  THEN /\ ready' = TRUE /\ lock' = "free"
       /\ pc' = "idle"
       /\ UNCHANGED <<nodeVars, chanVars, marker, caller, notif, seen, todo, workers, sync>>
  ELSE IF windowOnly
  THEN /\ pc' = "backfill"
       /\ UNCHANGED <<nodeVars, chanVars, marker, caller, notif, seen, todo, sharedVars, sync>>
  ELSE SpawnWorkers

(* One that has to wait: try_start returns None and is retried, while       *)
(* recover_from_lag cannot wait with workers running.                       *)
Wait ==
  IF caller = "lag" THEN Fail
  ELSE /\ pc' = "idle" /\ notif' = NoNotif
       /\ UNCHANGED <<nodeVars, chanVars, durableVars, caller, seen, todo, sharedVars, sync>>

(* request_rebuild returns an error, and leaves the marker unless the file  *)
(* cannot be written.                                                       *)
RequestRebuild == LoseMemory /\ marker' \in {TRUE, marker} /\ UNCHANGED <<crashes, store>>

(* finalized_window_start_reached, for the finalized block f or none (-1). *)
WindowStartReached(f) ==
  f # -1 /\ (LET start == IF f > Window THEN f - Window ELSE 0 IN Number[disk] >= start)

Decide ==
  /\ pc = "decide"
  /\ \/ StartupAction = "wait" /\ Wait
     \/ StartupAction = "error" /\ Fail
     \/ StartupAction = "rebuild" /\ RequestRebuild
     \/ StartupAction = "ready" /\ ~EnsureInitialized /\ Fail
     \/ StartupAction = "ready" /\ EnsureInitialized /\ Reconciled /\ UNCHANGED store
     \/ StartupAction = "unwind" /\ Goto("unwind")
     \/ /\ StartupAction = "uninitialized"
        /\ \E f \in -1 .. MaxNumber :
             IF windowOnly /\ ~WindowStartReached(f) THEN Wait ELSE Goto("init")

(* initialize_proof_history_storage copies the state of the on-disk tip. *)
BeginCopy ==
  /\ pc = "init"
  /\ store' = [NoStore EXCEPT !.status = "copying", !.earliest = disk, !.latest = disk]
  /\ pc' = "copy"
  /\ UNCHANGED <<nodeVars, chanVars, marker, caller, notif, seen, todo, sharedVars, sync>>

EndCopy ==
  /\ pc = "copy"
  /\ store' = InitializedAt(store.latest)
  /\ Reconciled

(* unwind_to_earliest needs a canonical block above the anchor. *)
UnwindToEarliest ==
  /\ pc = "unwind"
  /\ IF Number[store.latest] <= Number[store.earliest]
     THEN Reconciled /\ UNCHANGED store
     ELSE IF CanonAt(Number[store.earliest] + 1) = NoBlock
     THEN Fail
     ELSE store' = UnwindHistory(store, store.earliest) /\ Reconciled

(* backfill_proof_history_window, one block at a time. *)
BackfillTarget ==
  LET top == Max({Number[store.latest], Number[disk]})
  IN  IF top > Window THEN top - Window ELSE 0

Backfill ==
  /\ pc = "backfill"
  /\ LET e == store.earliest
     IN  IF Number[e] <= BackfillTarget
         THEN SpawnWorkers /\ UNCHANGED store
         ELSE IF Number[disk] < Number[e]
         THEN Wait
         ELSE IF AncestorAt(disk, Number[e]) # e
         THEN IF CanonAt(Number[e]) = e THEN Fail ELSE RequestRebuild
         ELSE /\ store' = Prepend(store, Parent[e])
              /\ UNCHANGED <<nodeVars, chanVars, marker, taskVars, sharedVars, sync>>

-----------------------------------------------------------------------------
(* The select loop of run.                                                  *)

(* Mutant of RecvLagged: resubscribes without reconciling. *)
LagIgnored ==
  /\ pc = "idle" /\ lagged
  /\ chan' = <<>> /\ lagged' = FALSE
  /\ UNCHANGED <<nodeVars, durableVars, taskVars, sharedVars, sync>>

(* A lagged receiver is replaced before storage is reconciled. *)
RecvLagged ==
  /\ pc = "idle" /\ lagged
  /\ chan' = <<>> /\ lagged' = FALSE
  /\ pc' = IF workers THEN "lagLock" ELSE "reconcile"
  /\ UNCHANGED <<nodeVars, durableVars, caller, notif, seen, todo, sharedVars, sync>>

(* recover_from_lag stops serving once it holds the write lock. *)
LagLock ==
  /\ pc = "lagLock" /\ lock = "free"
  /\ lock' = "sidecar" /\ ready' = FALSE
  /\ pc' = "reconcile" /\ caller' = "lag"
  /\ UNCHANGED <<nodeVars, chanVars, durableVars, notif, seen, todo, workers, sync>>

(* Without workers a notification is first an occasion for try_start. *)
Recv ==
  /\ pc = "idle" /\ ~lagged /\ chan # <<>>
  /\ chan' = Tail(chan)
  /\ notif' = Head(chan)
  /\ pc' = IF workers THEN "handle" ELSE "reconcile"
  /\ caller' = "start"
  /\ UNCHANGED <<nodeVars, lagged, durableVars, seen, todo, sharedVars, sync>>

RetryTick == pc = "idle" /\ ~workers /\ Goto("reconcile")

-----------------------------------------------------------------------------
(* handle_notification, under the write lock.                               *)

Heights(a, b) == [i \in 1 .. IF b < a THEN 0 ELSE b - a + 1 |-> a + i - 1]

NoteDone ==
  /\ pc' = "idle" /\ notif' = NoNotif
  /\ UNCHANGED <<nodeVars, chanVars, marker, caller, seen, todo, sharedVars, sync>>

(* Go on block by block with the lock held. *)
ProcessHeights(heights) ==
  /\ pc' = "process" /\ todo' = heights /\ lock' = "sidecar"
  /\ UNCHANGED <<nodeVars, chanVars, marker, caller, notif, seen, ready, workers, sync>>

(* committed_chain_is_contiguous and the real-time threshold. *)
TakesCommit(new) ==
  /\ Number[new[1]] <= Number[store.latest] + 1
  /\ Number[head] - Number[new[Len(new)]] < RealTimeBlocks

HandleCommitted ==
  /\ pc = "handle" /\ lock = "free"
  /\ notif.old = <<>>
  /\ LET new == notif.new
         tip == Number[new[Len(new)]]
     IN  IF tip > Number[store.latest] /\ TakesCommit(new)
         THEN ProcessHeights(Heights(Number[store.latest] + 1, tip))
         ELSE NoteDone
  /\ UNCHANGED store

(* Mutant of TouchesEarliest: the anchor is not protected. *)
AnchorUnprotected == FALSE

(* ensure_canonical_update_above_earliest, shared by reorgs and reverts.    *)
TouchesEarliest == Number[notif.old[1]] <= Number[store.earliest]

AboveStore == Number[notif.old[1]] > Number[store.latest]

(* unwind_and_store_block_updates: one transaction, Err as NoStore.         *)
UnwindAndStore(new) ==
  LET common == Parent[new[1]]
  IN  IF Number[common] = Number[store.earliest]
      THEN IF common # store.earliest THEN NoStore
           ELSE [UnwindHistory(store, common) EXCEPT !.latest = new[Len(new)], !.data = @ \o new]
      ELSE IF ReplaceAccepts(store, common) THEN ReplaceUpdates(store, common, new)
      ELSE NoStore

HandleReorged ==
  /\ pc = "handle" /\ lock = "free"
  /\ notif.old # <<>> /\ notif.new # <<>>
  /\ LET old == notif.old
         new == notif.new
         first == Number[new[1]]
     IN  IF AboveStore THEN NoteDone /\ UNCHANGED store
         ELSE IF TouchesEarliest THEN Fail
         ELSE \E hasTrieData \in BOOLEAN :
           IF Number[old[1]] = Number[store.earliest] + 1 \/ ~hasTrieData
           THEN /\ store' = UnwindHistory(store, Parent[old[1]])
                /\ ProcessHeights(Heights(first, Number[new[Len(new)]]))
           ELSE IF UnwindAndStore(new) = NoStore THEN Fail
           ELSE store' = UnwindAndStore(new) /\ NoteDone

HandleReverted ==
  /\ pc = "handle" /\ lock = "free"
  /\ notif.old # <<>> /\ notif.new = <<>>
  /\ IF AboveStore THEN NoteDone /\ UNCHANGED store
     ELSE IF TouchesEarliest THEN Fail
     ELSE store' = UnwindHistory(store, Parent[notif.old[1]]) /\ NoteDone

(* execute_and_store_block_updates: the parent must be the stored tip, and  *)
(* the state root only matches on the parent's true state.                  *)
Executes(b) == b # NoBlock /\ StoreAccepts(store, b) /\ Consistent(store)

(* process_block, from the notification's trie data or by execution of the  *)
(* provider's block at that height.                                         *)
ProcessBlock ==
  /\ pc = "process" /\ todo # <<>>
  /\ \E executes \in BOOLEAN :
       LET n == Head(todo)
           b == IF executes THEN CanonAt(n) ELSE notif.new[n - Number[notif.new[1]] + 1]
       IN  IF IF executes THEN Executes(b) ELSE StoreAccepts(store, b)
           THEN /\ store' = StoreTrieUpdates(store, b)
                /\ todo' = Tail(todo)
                /\ UNCHANGED <<nodeVars, chanVars, marker, pc, caller, notif, seen,
                               sharedVars, sync>>
           ELSE Fail

ProcessDone ==
  /\ pc = "process" /\ todo = <<>>
  /\ pc' = "idle" /\ notif' = NoNotif /\ lock' = "free"
  /\ UNCHANGED <<nodeVars, chanVars, durableVars, caller, seen, todo, ready, workers, sync>>

-----------------------------------------------------------------------------
(* The sync loop and the pruner.                                            *)

(* Mutant of SyncStart: the last persisted block is left for later.    *)
SyncStopsOneShort ==
  /\ workers /\ lock = "free" /\ sync.pc = "idle"
  /\ Number[disk] > Number[store.latest] + 1
  /\ lock' = "sync"
  /\ sync' = [pc |-> "batch", next |-> Number[store.latest] + 1,
              end |-> Min({Number[store.latest] + SyncBatch, Number[disk]})]
  /\ UNCHANGED <<nodeVars, chanVars, durableVars, taskVars, ready, workers>>

(* proof_history_sync_target: up to the executed head on disk. *)
SyncStart ==
  /\ workers /\ lock = "free" /\ sync.pc = "idle"
  /\ Number[disk] > Number[store.latest]
  /\ lock' = "sync"
  /\ sync' = [pc |-> "batch", next |-> Number[store.latest] + 1,
              end |-> Min({Number[store.latest] + SyncBatch, Number[disk]})]
  /\ UNCHANGED <<nodeVars, chanVars, durableVars, taskVars, ready, workers>>

(* One block of process_batch; each block commits on its own. *)
SyncBlock ==
  /\ sync.pc = "batch" /\ sync.next <= sync.end
  /\ Executes(CanonAt(sync.next))
  /\ store' = StoreTrieUpdates(store, CanonAt(sync.next))
  /\ sync' = [sync EXCEPT !.next = @ + 1]
  /\ UNCHANGED <<nodeVars, chanVars, marker, taskVars, sharedVars>>

(* The batch ends, or fails and is retried from the stored tip later. *)
SyncRelease ==
  /\ sync.pc = "batch"
  /\ sync.next > sync.end \/ ~Executes(CanonAt(sync.next))
  /\ lock' = "free" /\ sync' = SyncIdle
  /\ UNCHANGED <<nodeVars, chanVars, durableVars, taskVars, ready, workers>>

(* A pruner run: the window's new start is labelled by the canonical hash. *)
Prune ==
  LET start == Number[store.latest] - Window
  IN  /\ workers /\ lock = "free"
      /\ start > Number[store.earliest]
      /\ CanonAt(start) # NoBlock
      /\ store' = PruneTo(store, CanonAt(start))
      /\ UNCHANGED <<nodeVars, chanVars, marker, taskVars, sharedVars, sync>>

-----------------------------------------------------------------------------
Task ==
  \/ WipeData \/ WipeMarker \/ Subscribe
  \/ StartupRead \/ Decide \/ BeginCopy \/ EndCopy \/ UnwindToEarliest \/ Backfill
  \/ RecvLagged \/ LagLock \/ Recv \/ RetryTick
  \/ HandleCommitted \/ HandleReorged \/ HandleReverted \/ ProcessBlock \/ ProcessDone

SyncLoop == SyncStart \/ SyncBlock \/ SyncRelease

Node ==
  \/ \E b \in Blocks : MoveHead(b) \/ PipelineSync(b) \/ Persist(b)
  \/ Crash \/ Restart

Next == (Task \/ SyncLoop \/ Prune \/ Node) /\ UNCHANGED windowOnly

Spec == Init /\ [][Next]_vars

(* The task and the sync loop are never starved, and write_lock is a FIFO   *)
(* mutex: who waits for it gets it.  Nothing is assumed of the chain, of    *)
(* persistence or of restarts.                                              *)
TakeLock == LagLock \/ HandleCommitted \/ HandleReorged \/ HandleReverted

FairSpec ==
  /\ Spec
  /\ WF_vars(Task /\ UNCHANGED windowOnly)
  /\ WF_vars(SyncLoop /\ UNCHANGED windowOnly)
  /\ SF_vars(TakeLock /\ UNCHANGED windowOnly)

-----------------------------------------------------------------------------
(* Nothing is in progress and no notification is pending. *)
Settled == pc = "idle" /\ workers /\ chan = <<>> /\ ~lagged /\ lock = "free"

AnchorIsCanonical == CanonAt(Number[store.earliest]) = store.earliest

(* Once live handlers, sync loop and pruner have gone quiet, the window is  *)
(* one branch of the tree with true labels, and its tip is canonical: no    *)
(* interleaving of a reorg or revert (handle_notification) with queued      *)
(* commits, sync batches, prunes, lag recovery, crashes and restarts leaves *)
(* stale blocks behind.                                                     *)
SettledIsCanonical ==
  Settled => Consistent(store) /\ CanonAt(Number[store.latest]) = store.latest

(* A store marked for rebuild is never served, and stays marked, over       *)
(* crashes and restarts, until all of its data is gone (request_rebuild,    *)
(* rebuild_reason, remove_proof_history_store_files).                       *)
CondemnedIsWiped == [][marker => ~ready /\ (marker' \/ store' = NoStore)]_vars

(* In window-only mode workers start on a full window only, also when an    *)
(* earlier start was killed in the middle of its backfill (try_start).      *)
ServesWholeWindow ==
  [][windowOnly /\ ~workers /\ workers' => Number[store'.earliest] <= BackfillTarget']_vars

(* The sync loop catches up with the executed head on disk and stays there, *)
(* with or without notifications (sync_loop).                               *)
CatchesUp == <>[](workers => Number[store.latest] >= Number[disk])

(* What sidecar.rs says where try_start sets readiness: the bounds of the   *)
(* store were validated against canonical hashes.                           *)
ReadyAnchorIsCanonical == Settled => AnchorIsCanonical

(* What sidecar.rs says next to it: workers only extend storage             *)
(* consistently, so above a canonical anchor the stored tip is canonical.   *)
WorkersExtendConsistently ==
  Settled /\ AnchorIsCanonical => CanonAt(Number[store.latest]) = store.latest

(* What the comment of unwind_to_earliest says: afterwards the latest       *)
(* retained block is the earliest one.                                      *)
UnwoundToAnchor ==
  [][pc = "unwind" /\ pc' \notin {"unwind", "down"} => store'.latest = store'.earliest]_vars
=============================================================================
