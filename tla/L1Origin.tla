------------------------------ MODULE L1Origin ------------------------------
(***************************************************************************)
(* The L1-origin tables and everything that writes or reads them: the      *)
(* engine API's forkchoiceUpdatedV2 (rpc/src/engine/api.rs), the taikoAuth *)
(* setters and batch lookups (rpc/src/eth/auth/mod.rs, auth/lookup.rs) and *)
(* the public taiko_ getters (rpc/src/eth/eth.rs).                         *)
(*                                                                         *)
(* A block is the chain that ends in it, written as the sequence of the    *)
(* proposal ids of its blocks: block number n is its length.  Id 0 stands  *)
(* for a block before Shasta, whose first transaction is not an anchorV4   *)
(* call and whose extra data has no proposal id; later ids never fall      *)
(* along a chain.  An origin row keeps, of the block whose hash it holds,  *)
(* the proposal id, which is what the lookups tell apart, and of the L1    *)
(* origin whether its height is zero.                                      *)
(*                                                                         *)
(* Assumed of the driver: the block_id of the L1 origin it sends is the    *)
(* height of the block its attributes build.  persist_l1_origin stores the *)
(* row under that id and compares it with nothing.                         *)
(*                                                                         *)
(* Several forkchoice calls run at once and interleave at their awaits.    *)
(* A database write transaction is one step, because MDBX has one writer.  *)
(***************************************************************************)
EXTENDS Integers, Sequences, FiniteSetsExt

CONSTANTS Calls,       \* concurrent forkchoiceUpdatedV2 requests
          MaxNumber,   \* bound on block numbers
          MaxBatch,    \* bound on Shasta proposal ids
          ScanLimit,   \* MAX_BACKWARD_SCAN_BLOCKS
          Threshold,   \* last Pacaya block of the network, 0 when it has none
          MaxFaults    \* bound on disturbances: reorganisations, overlaps,
                       \* foreign blocks, crashes, failures, setters

ASSUME BoundsAssumption ==
  MaxNumber \in Nat /\ MaxBatch \in Nat /\ ScanLimit \in Nat /\ Threshold \in Nat

VARIABLES chain,       \* the canonical head block
          origins,     \* StoredL1OriginTable
          headOrigin,  \* StoredL1HeadOriginTable, under its only key
          batchMap,    \* BatchToLastBlock
          calls,       \* forkchoiceUpdatedV2 requests in progress
          mine,        \* history: heights whose block the driver adopted
          scan,        \* one taikoAuth batch lookup
          faults,      \* history: disturbances so far
          calm         \* history: no event yet that can reorder the tables

tables == <<origins, headOrigin, batchMap>>
l1vars == <<chain, origins, headOrigin, batchMap, calls, mine,
            scan, faults, calm>>

None == -1
NoRow == [batch |-> None, l1 |-> None]
Idle == [pc |-> "idle"]

Numbers == 1..MaxNumber
Batches == 1..MaxBatch

BatchOf(block) == IF block = <<>> THEN 0 ELSE block[Len(block)]
BlockAt(n) == SubSeq(chain, 1, n)

(* Blocks that can follow a block: proposal ids never fall.                *)
Children(parent) == {Append(parent, b) : b \in BatchOf(parent)..MaxBatch}

(* StoredL1Origin.  The L1 height is 0 for a block that is only            *)
(* preconfirmed, whether the request left it out or sent zero.             *)
StoredL1Origin == [batch : 0..MaxBatch, l1 : {0, 1}]

(* is_preconf_block of a stored row.                                       *)
IsPreconf(row) == row.l1 = 0

(* decode_shasta_proposal_id, asked only when Shasta is active at the      *)
(* attributes' timestamp.                                                  *)
ProposalId(batch) == IF batch = 0 THEN None ELSE batch

-----------------------------------------------------------------------------
(* Reads of the tables: taiko_l1OriginByID and taiko_headL1Origin          *)
(* (eth/eth.rs), and the batch mapping (auth/lookup.rs).                   *)

L1OriginByID(n) == IF n \in Numbers THEN origins[n] ELSE NoRow
HeadL1Origin == L1OriginByID(headOrigin)
ReadCachedLastBlockNumber(b) == batchMap[b]

-----------------------------------------------------------------------------
(* Batch lookups (auth/lookup.rs).                                         *)

Found(n) == [kind |-> "found", n |-> n]
NotFound == [kind |-> "notFound", n |-> None]
UncertainAtHead == [kind |-> "uncertainAtHead", n |-> None]
LookbackExceeded == [kind |-> "lookbackExceeded", n |-> None]
Filtered == [kind |-> "filtered", n |-> None]
GoOn == [kind |-> "goOn", n |-> None]

(* filter_batch_lookup_block_number.                                       *)
FilterBatchLookup(n) == IF n < Threshold THEN Filtered ELSE Found(n)

(* lastCertainL1OriginByBatchID: the row of the cached block.              *)
LastCertainL1Origin(b) ==
  IF FilterBatchLookup(ReadCachedLastBlockNumber(b)).kind = "found"
  THEN L1OriginByID(ReadCachedLastBlockNumber(b)) ELSE NoRow

(* block_by_number_or_tag(Number(n - 1)) on the canonical chain as it is   *)
(* now; no block, and so no answer, when the chain became shorter.         *)
WalkBack ==
  LET n == scan.n - 1 IN
  scan' = IF n > Len(chain) THEN Idle
          ELSE [scan EXCEPT !.n = n, !.batch = BatchOf(BlockAt(n)),
                            !.scanned = @ + 1]

(* lastBlockIDByBatchID begins with the cache; only a miss scans.          *)
LookupCached(b) ==
  /\ scan.pc = "idle"
  /\ ReadCachedLastBlockNumber(b) = None
  /\ scan' = [pc |-> "head", b |-> b]
  /\ UNCHANGED <<chain, tables, calls, mine, faults, calm>>

(* The latest block is read first ...                                      *)
LookupHead ==
  /\ scan.pc = "head"
  /\ scan' = [pc |-> "snapshot", b |-> scan.b, quiet |-> TRUE,
              head |-> Len(chain), batch |-> BatchOf(chain)]
  /\ UNCHANGED <<chain, tables, calls, mine, faults, calm>>

(* ... and then the read transaction every origin lookup of the scan uses. *)
LookupSnapshot ==
  /\ scan.pc = "snapshot"
  /\ scan' = [pc |-> "scan", b |-> scan.b, quiet |-> scan.quiet,
              head |-> scan.head, n |-> scan.head, batch |-> scan.batch,
              scanned |-> 0, rows |-> [n \in 1..scan.head |-> origins[n].l1]]
  /\ UNCHANGED <<chain, tables, calls, mine, faults, calm>>

(* Mutant: a block that is only preconfirmed ends the scan.                *)
ScanVerdictTakesPreconf ==
  LET l1 == IF scan.n = 0 THEN None ELSE scan.rows[scan.n] IN
  IF scan.scanned >= ScanLimit THEN LookbackExceeded
  ELSE IF scan.n = 0 \/ scan.batch = 0 \/ scan.batch < scan.b THEN NotFound
  ELSE IF scan.batch > scan.b THEN GoOn
  ELSE IF scan.n = scan.head /\ l1 = None THEN UncertainAtHead
  ELSE FilterBatchLookup(scan.n)

(* One turn of the backward scan: the limit, a block without the anchorV4  *)
(* selector or the genesis block, an older or newer proposal, a            *)
(* preconfirmed block of the batch, and at last a match, which at the head *)
(* counts only with a stored origin.  The error for an anchorV4 block with *)
(* extra data too short for a proposal id is left out: consensus asks for  *)
(* that selector from Shasta on only, and there for the full extra data    *)
(* (validate_anchor_transaction, validate_header), so no block has both.   *)
ScanVerdict ==
  LET l1 == IF scan.n = 0 THEN None ELSE scan.rows[scan.n] IN
  IF scan.scanned >= ScanLimit THEN LookbackExceeded
  ELSE IF scan.n = 0 \/ scan.batch = 0 \/ scan.batch < scan.b THEN NotFound
  ELSE IF scan.batch > scan.b \/ l1 = 0 THEN GoOn
  ELSE IF scan.n = scan.head /\ l1 = None THEN UncertainAtHead
  ELSE FilterBatchLookup(scan.n)

(* The scan answers with its verdict, or walks back one block.             *)
ScanStep ==
  /\ scan.pc = "scan"
  /\ IF ScanVerdict = GoOn THEN WalkBack ELSE scan' = Idle
  /\ UNCHANGED <<chain, tables, calls, mine, faults, calm>>

-----------------------------------------------------------------------------
(* The writers end the quiet of a running scan.                            *)
Disturb(s) == IF s.pc \in {"snapshot", "scan"}
              THEN [s EXCEPT !.quiet = FALSE] ELSE s

(* The canonical head moves (engine tree, external): a forkchoice state    *)
(* names a known block.  The heights above the common part are not the     *)
(* driver's any more.                                                      *)
SetHead(block, adopted) ==
  /\ chain' = block
  /\ mine' = {n \in mine : n <= Len(block) /\ SubSeq(block, 1, n) = BlockAt(n)}
               \cup adopted
  /\ scan' = IF block = chain THEN scan ELSE Disturb(scan)

IsReorg(block) ==
  \/ Len(block) < Len(chain)
  \/ SubSeq(block, 1, Len(chain)) # chain

(* forkchoiceUpdatedV2 with attributes, up to its first await: the engine  *)
(* moves the head to the given ancestor and starts a payload job.  The     *)
(* attributes name the block that job builds.                              *)
FcuStart(p, head, built, l1) ==
  /\ calls[p].pc = "idle"
  /\ SetHead(head, {})
  /\ calls' = [calls EXCEPT ![p] = [pc |-> "wait", block |-> built, l1 |-> l1]]
  /\ LET overlap == \E q \in Calls : calls[q].pc # "idle" IN
     /\ faults' = IF IsReorg(head) \/ overlap THEN faults + 1 ELSE faults
     /\ calm' = (/\ calm
                 /\ ~IsReorg(head)
                 /\ ~overlap
                 /\ origins[Len(built)] = NoRow)
  /\ UNCHANGED tables

(* Mutant: the request answers once the payload is built, without waiting  *)
(* for the origin to be stored.                                            *)
WaitForBuiltPayloadReplies(p) ==
  /\ calls[p].pc = "wait"
  /\ calls' = [calls EXCEPT ![p].pc = "ok"]
  /\ UNCHANGED <<chain, tables, mine, scan, faults, calm>>

(* wait_for_built_payload resolves the job with WaitForPending.            *)
WaitForBuiltPayload(p) ==
  /\ calls[p].pc = "wait"
  /\ calls' = [calls EXCEPT ![p].pc = "persist"]
  /\ UNCHANGED <<chain, tables, mine, scan, faults, calm>>

(* The writes of persist_l1_origin: the row always, the head pointer and   *)
(* the batch mapping as told.                                              *)
Persist(p, moveHead, moveBatch) ==
  LET n == Len(calls[p].block)
      batch == BatchOf(calls[p].block)
  IN /\ calls[p].pc = "persist"
     /\ origins' = [origins EXCEPT ![n] = [batch |-> batch, l1 |-> calls[p].l1]]
     /\ headOrigin' = IF moveHead THEN n ELSE headOrigin
     /\ batchMap' = IF moveBatch /\ ProposalId(batch) # None
                    THEN [batchMap EXCEPT ![ProposalId(batch)] = n]
                    ELSE batchMap
     /\ calls' = [calls EXCEPT ![p].pc = "ok"]
     /\ scan' = Disturb(scan)
     /\ UNCHANGED <<chain, mine, faults, calm>>

(* Mutants: the head pointer moves for a preconfirmed block too; the       *)
(* mapping keeps the first block of the batch.                             *)
PersistIgnoresPreconf(p) == Persist(p, TRUE, calls[p].l1 # 0)
PersistKeepsFirst(p) ==
  /\ calls[p].pc = "persist"
  /\ LET batch == ProposalId(BatchOf(calls[p].block)) IN
     Persist(p, calls[p].l1 # 0,
             calls[p].l1 # 0 /\ (batch # None => batchMap[batch] = None))

(* persist_l1_origin in one write transaction, and the Ok answer.          *)
PersistL1Origin(p) ==
  /\ calls[p].pc = "persist"
  /\ Persist(p, calls[p].l1 # 0, calls[p].l1 # 0)

(* No payload id ("missing payload id"), a failed job (MissingPayload) or  *)
(* a failed write: nothing is stored and the request fails.                *)
FcuFails(p) ==
  /\ calls[p].pc \in {"wait", "persist"}
  /\ calls' = [calls EXCEPT ![p] = Idle]
  /\ faults' = faults + 1
  /\ UNCHANGED <<chain, tables, mine, scan, calm>>

(* getPayloadV2, newPayloadV2 and a forkchoice update without attributes:  *)
(* the driver, told Ok, makes the block canonical ...                      *)
Adopt(p) ==
  /\ calls[p].pc = "ok"
  /\ SetHead(calls[p].block, {Len(calls[p].block)})
  /\ calls' = [calls EXCEPT ![p] = Idle]
  /\ faults' = IF IsReorg(calls[p].block) THEN faults + 1 ELSE faults
  /\ calm' = (calm /\ ~IsReorg(calls[p].block))
  /\ UNCHANGED tables

(* ... or does not.                                                        *)
Abandon(p) ==
  /\ calls[p].pc = "ok"
  /\ calls' = [calls EXCEPT ![p] = Idle]
  /\ faults' = faults + 1
  /\ UNCHANGED <<chain, tables, mine, scan, calm>>

(* A block that arrives by newPayload or from a peer, without attributes.  *)
ImportForeign(block) ==
  /\ SetHead(block, {})
  /\ faults' = faults + 1
  /\ calm' = FALSE
  /\ UNCHANGED <<tables, calls>>

(* The node stops and starts again: requests are gone, tables stay, blocks *)
(* not yet persisted are gone.                                             *)
Crash(k) ==
  /\ chain' = BlockAt(k)
  /\ mine' = {n \in mine : n <= k}
  /\ calls' = [p \in Calls |-> Idle]
  /\ scan' = Idle
  /\ faults' = faults + 1
  /\ calm' = FALSE
  /\ UNCHANGED tables

-----------------------------------------------------------------------------
(* taikoAuth setters.  The handlers store what they are given; that the    *)
(* driver points only to heights it stored is an assumption about it.      *)

(* updateL1Origin replaces the whole row, signature included.              *)
UpdateL1Origin(n, row) ==
  /\ origins' = [origins EXCEPT ![n] = row]
  /\ scan' = Disturb(scan)
  /\ faults' = faults + 1
  /\ calm' = FALSE
  /\ UNCHANGED <<chain, headOrigin, batchMap, calls, mine>>

(* setL1OriginSignature reads the row and writes it back in one write      *)
(* transaction; it changes only the signature, which rows leave out here.  *)
SetL1OriginSignature(n) ==
  /\ origins[n] # NoRow
  /\ scan' = Disturb(scan)
  /\ UNCHANGED <<chain, tables, calls, mine, faults, calm>>

(* setHeadL1Origin moves the pointer, forwards or back, ...                *)
SetHeadL1Origin(n) ==
  /\ headOrigin' = n
  /\ faults' = faults + 1
  /\ calm' = FALSE
  /\ UNCHANGED <<chain, origins, batchMap, calls, mine, scan>>

(* ... and setBatchToLastBlock the batch mapping.                          *)
SetBatchToLastBlock(b, n) ==
  /\ batchMap' = [batchMap EXCEPT ![b] = n]
  /\ faults' = faults + 1
  /\ calm' = FALSE
  /\ UNCHANGED <<chain, origins, headOrigin, calls, mine, scan>>

(* The driver (external) sets a pointer after it stored the row.           *)
DriverStored(n) == origins[n] # NoRow

-----------------------------------------------------------------------------
L1Init ==
  /\ chain = <<>>
  /\ origins = [n \in Numbers |-> NoRow]
  /\ headOrigin = None
  /\ batchMap = [b \in Batches |-> None]
  /\ calls = [p \in Calls |-> Idle]
  /\ mine = {}
  /\ scan = Idle
  /\ faults = 0
  /\ calm = TRUE

FcuAction(p) ==
  \/ \E k \in 0..Len(chain), l1 \in {0, 1} :
          /\ k < MaxNumber
          /\ \E built \in Children(BlockAt(k)) : FcuStart(p, BlockAt(k), built, l1)
          /\ faults' <= MaxFaults
  \/ faults < MaxFaults /\ FcuFails(p)
  \/ WaitForBuiltPayload(p)
  \/ PersistL1Origin(p)
  \/ Adopt(p) /\ faults' <= MaxFaults
  \/ faults < MaxFaults /\ Abandon(p)

HeadAction ==
  /\ faults < MaxFaults
  /\ \/ Len(chain) < MaxNumber /\ \E b \in Children(chain) : ImportForeign(b)
     \/ \E k \in 0..Len(chain) : Crash(k)

SetterAction ==
  \E n \in Numbers :
     \/ SetL1OriginSignature(n)
     \/ /\ faults < MaxFaults
        /\ \/ \E row \in StoredL1Origin : UpdateL1Origin(n, row)
           \/ DriverStored(n) /\ SetHeadL1Origin(n)
           \/ DriverStored(n) /\ \E b \in Batches : SetBatchToLastBlock(b, n)

LookupAction ==
  \/ \E b \in Batches : LookupCached(b)
  \/ LookupHead
  \/ LookupSnapshot
  \/ ScanStep

L1Next ==
  \/ \E p \in Calls : FcuAction(p)
  \/ HeadAction
  \/ SetterAction
  \/ LookupAction

L1Spec == L1Init /\ [][L1Next]_l1vars

-----------------------------------------------------------------------------
(* Every block the driver made canonical has an origin row at its height:  *)
(* forkchoiceUpdatedV2 answers only after persist_l1_origin committed, so  *)
(* neither a crash nor a failure between building and persisting leaves a  *)
(* driver block the lookups take for a foreign one.                        *)
DriverBlocksTracked ==
  \A n \in 1..Len(chain) : n \in mine => origins[n] # NoRow

(* The head pointer and the batch mapping only name heights that have a    *)
(* row, whatever overlaps, fails or crashes (persist_l1_origin writes the  *)
(* three tables in one transaction); and as long as nothing was reordered  *)
(* (no reorganisation, rebuilt height, crash, overlapping request, foreign *)
(* block or setter) the row is a confirmed one, and no later row is.       *)
PointersNameRows ==
  /\ headOrigin # None => HeadL1Origin # NoRow
  /\ \A b \in Batches : ReadCachedLastBlockNumber(b) >= Threshold
                         /\ ReadCachedLastBlockNumber(b) # None
                           => LastCertainL1Origin(b) # NoRow
  /\ calm /\ headOrigin # None =>
       headOrigin = Max({0} \cup {n \in Numbers : origins[n] # NoRow
                                                  /\ ~IsPreconf(origins[n])})

(* As long as nothing was reordered the batch mapping names the last       *)
(* confirmed block of the proposal, so the cached lookup agrees with what  *)
(* a scan of the finished batch returns.                                   *)
CacheIsLastOfBatch ==
  calm => \A b \in Batches :
    LET confirmed == {n \in Numbers : /\ origins[n] # NoRow
                                      /\ ~IsPreconf(origins[n])
                                      /\ origins[n].batch = b}
    IN batchMap[b] = IF confirmed = {} THEN None ELSE Max(confirmed)

(* Reference for the scan: the last block that ends it, by definition.     *)
LastBlockReference(b) ==
  LET preconf(n) == origins[n] # NoRow /\ IsPreconf(origins[n])
      match(n) == chain[n] = b /\ ~preconf(n)
      end == Max({0} \cup {n \in 1..Len(chain) :
                   chain[n] < b \/ match(n)})
  IN IF Len(chain) - end >= ScanLimit THEN LookbackExceeded
     ELSE IF end = 0 THEN NotFound
     ELSE IF ~match(end) THEN NotFound
     ELSE IF end = Len(chain) /\ origins[end] = NoRow THEN UncertainAtHead
     ELSE FilterBatchLookup(end)

(* A lookup that scanned while neither the head nor the tables moved       *)
(* answers with the last block of the proposal that is not merely          *)
(* preconfirmed, for every shape of chain, limit and threshold             *)
(* (find_last_block_number_by_batch_id).                                   *)
QuietScanIsExact ==
  scan.pc = "scan" /\ scan.quiet /\ ScanVerdict # GoOn
    => ScanVerdict = LastBlockReference(scan.b)
=============================================================================
