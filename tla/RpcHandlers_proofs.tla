------------------------- MODULE RpcHandlers_proofs -------------------------
(***************************************************************************)
(* The requests the node answers.  For any number of overlapping           *)
(* forkchoice requests, any chain and any sequence of failures,            *)
(* reorganisations and crashes: the driver's blocks have their origin      *)
(* rows, the pointers name rows, and last ones while nothing was           *)
(* reordered, and an undisturbed lookup is exact.  For any number of       *)
(* trace, witness and proof requests, any capacities and any mix of        *)
(* deadlines, disconnects and reorgs: the cap on blocking work holds and   *)
(* an answer knows of the reorgs it saw.                                   *)
(***************************************************************************)
EXTENDS L1Origin, TraceRequest, FiniteSetTheorems, WellFoundedInduction, TLAPS

(***************************************************************************)
(* The L1-origin tables.                                                   *)
(***************************************************************************)
Call == [pc : {"wait", "persist", "ok"}, block : Seq(Int), l1 : {0, 1}]
StoredRow == [batch : Int, l1 : {0, 1}]
Row == StoredRow \cup {NoRow}
HasRow(n) == n \in Numbers /\ origins[n].l1 # None

(* An answered request has its row, because it persisted before it         *)
(* answered; an adopted height has one, because its request was answered;  *)
(* and no step removes a row.                                              *)
TrackedInv ==
  /\ chain \in Seq(Int)
  /\ origins \in [Numbers -> Row]
  /\ calls \in [Calls -> Call \cup {Idle}]
  /\ \A p \in Calls : calls[p].pc # "idle" => Len(calls[p].block) \in Numbers
  /\ \A p \in Calls : calls[p].pc = "ok" => HasRow(Len(calls[p].block))
  /\ \A n \in mine : HasRow(n)
  /\ headOrigin # None => HasRow(headOrigin)

LEMMA ShapeOfCall ==
  ASSUME NEW c \in Call \cup {Idle}, c.pc # "idle"
  PROVE  /\ c \in Call
         /\ \A x \in {"wait", "persist", "ok"} :
              [c EXCEPT !.pc = x] = [pc |-> x, block |-> c.block, l1 |-> c.l1]
<1>1. c \in Call
  BY DEF Idle
<1>. QED
  BY <1>1 DEF Call

LEMMA BlockTypes ==
  ASSUME NEW block \in Seq(Int)
  PROVE  /\ BatchOf(block) \in Int
         /\ \A child \in Children(block) : child \in Seq(Int) /\ Len(child) = Len(block) + 1
<1>1. BatchOf(block) \in Int
  BY DEF BatchOf
<1>2. ASSUME NEW b \in BatchOf(block) .. MaxBatch
      PROVE  Append(block, b) \in Seq(Int) /\ Len(Append(block, b)) = Len(block) + 1
  OBVIOUS
<1>. QED
  BY Zenon, <1>1, <1>2 DEF Children

LEMMA PrefixTypes ==
  ASSUME chain \in Seq(Int), NEW k \in 0 .. Len(chain)
  PROVE  BlockAt(k) \in Seq(Int) /\ Len(BlockAt(k)) = k
BY DEF BlockAt

LEMMA TrackedStart == L1Init => TrackedInv
<1>. SUFFICES ASSUME L1Init PROVE TrackedInv
  OBVIOUS
<1>1. chain \in Seq(Int) /\ mine = {} /\ headOrigin = None
  BY DEF L1Init
<1>2. origins \in [Numbers -> Row]
  BY DEF L1Init, Row
<1>3. calls \in [Calls -> Call \cup {Idle}] /\ \A p \in Calls : calls[p].pc = "idle"
  BY DEF L1Init, Idle
<1>. QED
  BY <1>1, <1>2, <1>3 DEF TrackedInv

(* What a step that only moves the head, and ends requests, must show.     *)
LEMMA HeadMoves ==
  ASSUME TrackedInv, chain' \in Seq(Int),
         UNCHANGED <<origins, headOrigin>>,
         calls' \in [Calls -> Call \cup {Idle}],
         \A p \in Calls : calls'[p] = calls[p] \/ calls'[p].pc = "idle",
         \A n \in mine' : HasRow(n)
  PROVE  TrackedInv'
<1>1. \A n : HasRow(n) => HasRow(n)'
  BY DEF HasRow
<1>2. (\A n \in mine : HasRow(n))'
  BY <1>1
<1>3. /\ \A p \in Calls : calls'[p].pc # "idle" => Len(calls'[p].block) \in Numbers
      /\ (\A p \in Calls : calls[p].pc = "ok" => HasRow(Len(calls[p].block)))'
  BY <1>1 DEF TrackedInv
<1>. QED
  BY <1>1, <1>2, <1>3 DEF TrackedInv

(* What a step that changes one request and no table must show.            *)
LEMMA CallMoves ==
  ASSUME TrackedInv, chain' \in Seq(Int), \A n \in mine' : n \in mine,
         UNCHANGED <<origins, headOrigin>>,
         NEW p \in Calls, NEW c \in Call \cup {Idle},
         calls' = [calls EXCEPT ![p] = c],
         c.pc # "idle" => Len(c.block) \in Numbers,
         c.pc # "ok"
  PROVE  TrackedInv'
<1>1. \A n : HasRow(n) => HasRow(n)'
  BY DEF HasRow
<1>2. /\ calls' \in [Calls -> Call \cup {Idle}]
      /\ \A q \in Calls : calls'[q] = IF q = p THEN c ELSE calls[q]
  BY DEF TrackedInv
<1>3. (\A q \in Calls : calls[q].pc # "idle" => Len(calls[q].block) \in Numbers)'
  BY <1>2 DEF TrackedInv
<1>4. (\A q \in Calls : calls[q].pc = "ok" => HasRow(Len(calls[q].block)))'
  BY <1>1, <1>2 DEF TrackedInv
<1>5. (\A n \in mine : HasRow(n))'
  BY <1>1 DEF TrackedInv
<1>. QED
  BY <1>1, <1>2, <1>3, <1>4, <1>5 DEF TrackedInv

(* What a step that writes a row must show: the row is a row, and any      *)
(* request that becomes answered, and the head pointer, have one.          *)
LEMMA RowWritten ==
  ASSUME TrackedInv, NEW n \in Numbers, NEW row \in StoredRow,
         origins' = [origins EXCEPT ![n] = row],
         UNCHANGED <<chain, mine>>,
         headOrigin' \in {n, headOrigin},
         calls' \in [Calls -> Call \cup {Idle}],
         \A p \in Calls : calls'[p] = calls[p] \/ Len(calls'[p].block) = n
  PROVE  TrackedInv'
<1>1. origins' \in [Numbers -> Row] /\ \A m : HasRow(m) => HasRow(m)'
  <2>1. row \in Row /\ row.l1 # None
    BY DEF Row, StoredRow, None
  <2>. QED
    BY <2>1 DEF TrackedInv, HasRow
<1>2. HasRow(n)'
  <2>1. row.l1 # None
    BY DEF StoredRow, None
  <2>. QED
    BY <2>1 DEF TrackedInv, HasRow
<1>3. (\A q \in Calls : calls[q].pc # "idle" => Len(calls[q].block) \in Numbers)'
  BY DEF TrackedInv
<1>4. (\A q \in Calls : calls[q].pc = "ok" => HasRow(Len(calls[q].block)))'
  BY <1>1, <1>2 DEF TrackedInv
<1>5. (\A m \in mine : HasRow(m))' /\ (headOrigin # None => HasRow(headOrigin))'
  BY <1>1, <1>2 DEF TrackedInv
<1>. QED
  BY <1>1, <1>3, <1>4, <1>5 DEF TrackedInv

LEMMA FcuKeepsTracked ==
  ASSUME TrackedInv, NEW p \in Calls, FcuAction(p)
  PROVE  TrackedInv'
<1>0. /\ chain \in Seq(Int) /\ calls[p] \in Call \cup {Idle}
      /\ Idle \in Call \cup {Idle} /\ Idle.pc = "idle"
  BY DEF TrackedInv, Idle
<1>1. ASSUME NEW k \in 0 .. Len(chain), NEW l1 \in {0, 1}, k < MaxNumber,
             NEW built \in Children(BlockAt(k)), FcuStart(p, BlockAt(k), built, l1)
      PROVE  TrackedInv'
  <2>. DEFINE c == [pc |-> "wait", block |-> built, l1 |-> l1]
  <2>1. BlockAt(k) \in Seq(Int) /\ Len(BlockAt(k)) = k
    BY <1>0, PrefixTypes
  <2>2. built \in Seq(Int) /\ Len(built) = k + 1
    BY <2>1, BlockTypes
  <2>3. c \in Call \cup {Idle} /\ c.pc = "wait" /\ c.block = built
    BY <2>2 DEF Call
  <2>4. Len(built) \in Numbers
    BY <1>1, <2>2, BoundsAssumption DEF Numbers
  <2>5. /\ chain' = BlockAt(k) /\ (\A n \in mine' : n \in mine)
        /\ calls' = [calls EXCEPT ![p] = c] /\ UNCHANGED <<origins, headOrigin>>
    BY <1>1 DEF FcuStart, SetHead, tables
  <2>. HIDE DEF c
  <2>. QED
    BY <2>1, <2>3, <2>4, <2>5, CallMoves, Zenon
<1>2. ASSUME FcuFails(p) \/ Abandon(p)
      PROVE  TrackedInv'
  <2>1. /\ chain' = chain /\ mine' = mine /\ UNCHANGED <<origins, headOrigin>>
        /\ calls' = [calls EXCEPT ![p] = Idle]
    BY <1>2 DEF FcuFails, Abandon, tables
  <2>. QED
    BY <1>0, <2>1, CallMoves, Zenon
<1>3. ASSUME WaitForBuiltPayload(p)
      PROVE  TrackedInv'
  <2>. DEFINE c == [pc |-> "persist", block |-> calls[p].block, l1 |-> calls[p].l1]
  <2>1. calls[p].pc = "wait" /\ calls' = [calls EXCEPT ![p].pc = "persist"]
        /\ chain' = chain /\ mine' = mine /\ UNCHANGED <<origins, headOrigin>>
    BY <1>3 DEF WaitForBuiltPayload, tables
  <2>2. calls[p] \in Call /\ [calls[p] EXCEPT !.pc = "persist"] = c
    BY <1>0, <2>1, ShapeOfCall, Zenon
  <2>3. c \in Call \cup {Idle} /\ c.pc = "persist" /\ c.block = calls[p].block
    BY <2>2 DEF Call
  <2>4. Len(c.block) \in Numbers
    BY <2>1, <2>3 DEF TrackedInv
  <2>5. calls' = [calls EXCEPT ![p] = c]
    BY <2>1, <2>2, Zenon
  <2>. HIDE DEF c
  <2>. QED
    BY <1>0, <2>1, <2>3, <2>4, <2>5, CallMoves, Zenon
<1>4. ASSUME PersistL1Origin(p)
      PROVE  TrackedInv'
  <2>. DEFINE n == Len(calls[p].block)
              row == [batch |-> BatchOf(calls[p].block), l1 |-> calls[p].l1]
              c == [pc |-> "ok", block |-> calls[p].block, l1 |-> calls[p].l1]
  <2>1. /\ calls[p].pc = "persist" /\ calls' = [calls EXCEPT ![p].pc = "ok"]
        /\ origins' = [origins EXCEPT ![n] = row] /\ headOrigin' \in {n, headOrigin}
        /\ UNCHANGED <<chain, mine>>
    BY <1>4 DEF PersistL1Origin, Persist
  <2>2. calls[p] \in Call /\ [calls[p] EXCEPT !.pc = "ok"] = c
    BY <1>0, <2>1, ShapeOfCall, Zenon
  <2>3. n \in Numbers
    BY <2>1 DEF TrackedInv
  <2>4. calls[p].block \in Seq(Int) /\ calls[p].l1 \in {0, 1}
    BY <2>2 DEF Call
  <2>5. row \in StoredRow
    BY <2>4, BlockTypes DEF StoredRow
  <2>6. c \in Call \cup {Idle} /\ c.block = calls[p].block
    BY <2>4 DEF Call
  <2>7. calls' \in [Calls -> Call \cup {Idle}] /\ \A q \in Calls : calls'[q] = IF q = p THEN c ELSE calls[q]
    BY <2>1, <2>2, <2>6 DEF TrackedInv
  <2>8. \A q \in Calls : calls'[q] = calls[q] \/ Len(calls'[q].block) = n
    BY <2>6, <2>7
  <2>. HIDE DEF n, row, c
  <2>. QED
    BY <2>1, <2>3, <2>5, <2>7, <2>8, RowWritten, Zenon
<1>5. ASSUME Adopt(p)
      PROVE  TrackedInv'
  <2>1. /\ calls[p].pc = "ok" /\ chain' = calls[p].block
        /\ \A n \in mine' : n \in mine \/ n = Len(calls[p].block)
        /\ calls' = [calls EXCEPT ![p] = Idle] /\ UNCHANGED <<origins, headOrigin>>
    BY <1>5 DEF Adopt, SetHead, tables
  <2>2. chain' \in Seq(Int)
    BY <1>0, <2>1, ShapeOfCall DEF Call
  <2>3. \A n \in mine' : HasRow(n)
    BY <2>1 DEF TrackedInv
  <2>4. /\ calls' \in [Calls -> Call \cup {Idle}]
        /\ \A q \in Calls : calls'[q] = calls[q] \/ calls'[q].pc = "idle"
    BY <1>0, <2>1 DEF TrackedInv
  <2>. QED
    BY <2>1, <2>2, <2>3, <2>4, HeadMoves
<1>. QED
  BY <1>1, <1>2, <1>3, <1>4, <1>5 DEF FcuAction

LEMMA HeadKeepsTracked ==
  ASSUME TrackedInv, HeadAction
  PROVE  TrackedInv'
<1>0. /\ chain \in Seq(Int) /\ calls \in [Calls -> Call \cup {Idle}]
      /\ \A n \in mine : HasRow(n)
  BY DEF TrackedInv
<1>1. ASSUME NEW b \in Children(chain), ImportForeign(b)
      PROVE  TrackedInv'
  <2>1. /\ chain' = b /\ (\A n \in mine' : n \in mine) /\ calls' = calls
        /\ UNCHANGED <<origins, headOrigin>>
    BY <1>1 DEF ImportForeign, SetHead, tables
  <2>2. b \in Seq(Int)
    BY <1>0, BlockTypes
  <2>. QED
    BY <1>0, <2>1, <2>2, HeadMoves
<1>2. ASSUME NEW k \in 0 .. Len(chain), Crash(k)
      PROVE  TrackedInv'
  <2>1. /\ chain' = BlockAt(k) /\ (\A n \in mine' : n \in mine)
        /\ calls' = [q \in Calls |-> Idle] /\ UNCHANGED <<origins, headOrigin>>
    BY <1>2 DEF Crash, tables
  <2>2. BlockAt(k) \in Seq(Int)
    BY <1>0, PrefixTypes
  <2>3. /\ calls' \in [Calls -> Call \cup {Idle}]
        /\ \A q \in Calls : calls'[q].pc = "idle"
    BY <2>1 DEF Idle
  <2>. QED
    BY <1>0, <2>1, <2>2, <2>3, HeadMoves
<1>. QED
  BY <1>1, <1>2 DEF HeadAction

LEMMA SetterKeepsTracked ==
  ASSUME TrackedInv, SetterAction
  PROVE  TrackedInv'
<1>. PICK n \in Numbers :
       \/ \E row \in StoredL1Origin : UpdateL1Origin(n, row)
       \/ SetL1OriginSignature(n)
       \/ DriverStored(n) /\ SetHeadL1Origin(n)
       \/ \E b \in Batches : SetBatchToLastBlock(b, n)
  BY DEF SetterAction
<1>0. origins[n] \in Row /\ calls \in [Calls -> Call \cup {Idle}]
  BY DEF TrackedInv
<1>1. ASSUME NEW row \in StoredL1Origin, UpdateL1Origin(n, row)
      PROVE  TrackedInv'
  <2>1. row \in StoredRow
    BY BoundsAssumption DEF StoredL1Origin, StoredRow
  <2>2. /\ origins' = [origins EXCEPT ![n] = row] /\ UNCHANGED <<chain, mine>>
        /\ headOrigin' = headOrigin /\ calls' = calls
    BY <1>1 DEF UpdateL1Origin
  <2>. QED
    BY <1>0, <2>1, <2>2, RowWritten, Zenon
<1>2. CASE SetL1OriginSignature(n)
  BY <1>2 DEF SetL1OriginSignature, tables, TrackedInv, HasRow
<1>3. CASE DriverStored(n) /\ SetHeadL1Origin(n)
  <2>1. origins[n] # NoRow /\ headOrigin' = n /\ UNCHANGED <<chain, origins, calls, mine>>
    BY <1>3 DEF DriverStored, SetHeadL1Origin
  <2>2. origins[n].l1 # None
    BY <1>0, <2>1 DEF Row, StoredRow, None
  <2>. QED
    BY <2>1, <2>2 DEF TrackedInv, HasRow
<1>4. CASE \E b \in Batches : SetBatchToLastBlock(b, n)
  BY <1>4 DEF SetBatchToLastBlock, TrackedInv, HasRow
<1>. QED
  BY <1>1, <1>2, <1>3, <1>4

LEMMA LookupKeepsTracked ==
  ASSUME TrackedInv, LookupAction \/ UNCHANGED l1vars
  PROVE  TrackedInv'
<1>1. UNCHANGED <<chain, origins, headOrigin, calls, mine>>
  BY DEF LookupAction, LookupCached, LookupHead, LookupSnapshot, ScanStep, tables, l1vars
<1>. QED
  BY <1>1 DEF TrackedInv, HasRow

LEMMA TrackedAlways == L1Spec => []TrackedInv
<1>1. TrackedInv /\ [L1Next]_l1vars => TrackedInv'
  BY FcuKeepsTracked, HeadKeepsTracked, SetterKeepsTracked, LookupKeepsTracked DEF L1Next
<1>. QED
  BY <1>1, TrackedStart, PTL DEF L1Spec

LEMMA RowIsStored == TrackedInv => \A n : HasRow(n) => origins[n] # NoRow
BY DEF TrackedInv, HasRow, NoRow

(* Every block the driver made canonical has an origin row: the answer of  *)
(* forkchoiceUpdatedV2 comes only after persist_l1_origin committed, for   *)
(* any number of requests that overlap, fail or are cut off by a crash.    *)
THEOREM DriverBlocksAreTracked == L1Spec => []DriverBlocksTracked
<1>1. TrackedInv => DriverBlocksTracked
  BY RowIsStored DEF TrackedInv, DriverBlocksTracked
<1>. QED
  BY <1>1, TrackedAlways, PTL

(* taiko_headL1Origin never follows its pointer to a height without a row: *)
(* persist_l1_origin writes both in one transaction, the driver passes     *)
(* set_head_l1_origin only stored heights, and rows are never removed.     *)
THEOREM HeadPointerNamesRow == L1Spec => [](headOrigin # None => HeadL1Origin # NoRow)
<1>1. TrackedInv => (headOrigin # None => HeadL1Origin # NoRow)
  BY RowIsStored DEF TrackedInv, HeadL1Origin, L1OriginByID, HasRow
<1>. QED
  BY <1>1, TrackedAlways, PTL

-----------------------------------------------------------------------------
(* What the pointers name.                                                  *)

(* The last element of a set of heights, if it has one. *)
IsLast(pointer, heights) ==
  IF pointer = None THEN heights = {} ELSE pointer \in heights /\ \A n \in heights : n <= pointer

Confirmed == {n \in Numbers : origins[n].l1 = 1}
ConfirmedOf(b) == {n \in Confirmed : origins[n].batch = b}

BatchRows ==
  /\ batchMap \in [Batches -> Numbers \cup {None}]
  /\ \A b \in Batches : batchMap[b] # None => HasRow(batchMap[b])

(* While nothing was reordered there is one request at a time, it builds on *)
(* the head, and until it persists no row is above the head: what it writes *)
(* is the last row.                                                         *)
CalmInv ==
  calm =>
    /\ \A p, q \in Calls : calls[p].pc # "idle" /\ calls[q].pc # "idle" => p = q
    /\ \A p \in Calls : calls[p].pc # "idle" => Len(calls[p].block) = Len(chain) + 1
    /\ \A p \in Calls, n \in Numbers :
         calls[p].pc \in {"wait", "persist"} /\ HasRow(n) => n <= Len(chain)
    /\ \A n \in Numbers : HasRow(n) => n <= Len(chain) + 1
    /\ IsLast(headOrigin, Confirmed)
    /\ \A b \in Batches : IsLast(batchMap[b], ConfirmedOf(b))

PointerInv == BatchRows /\ CalmInv

LEMMA PointerStart == L1Init => PointerInv
<1>. SUFFICES ASSUME L1Init PROVE PointerInv
  OBVIOUS
<1>1. \A n \in Numbers : ~HasRow(n)
  BY DEF L1Init, HasRow, NoRow
<1>2. Confirmed = {} /\ \A b \in Batches : ConfirmedOf(b) = {}
  BY DEF L1Init, Confirmed, ConfirmedOf, NoRow, None
<1>3. /\ headOrigin = None /\ batchMap = [b \in Batches |-> None] /\ \A p \in Calls : calls[p].pc = "idle"
  BY DEF L1Init, Idle
<1>4. BatchRows
  BY <1>3 DEF BatchRows
<1>5. IsLast(headOrigin, Confirmed) /\ \A b \in Batches : IsLast(batchMap[b], ConfirmedOf(b))
  BY <1>2, <1>3 DEF IsLast
<1>6. CalmInv
  BY <1>1, <1>3, <1>5, Zenon DEF CalmInv
<1>. QED
  BY <1>4, <1>6 DEF PointerInv

(* What a step that writes no table must show. *)
LEMMA TablesStay ==
  ASSUME PointerInv, UNCHANGED tables,
         calm' => /\ calm
                  /\ \A p, q \in Calls : calls'[p].pc # "idle" /\ calls'[q].pc # "idle" => p = q
                  /\ \A p \in Calls : calls'[p].pc # "idle" => Len(calls'[p].block) = Len(chain') + 1
                  /\ \A p \in Calls, n \in Numbers :
                       calls'[p].pc \in {"wait", "persist"} /\ HasRow(n) => n <= Len(chain')
                  /\ \A n \in Numbers : HasRow(n) => n <= Len(chain') + 1
  PROVE  PointerInv'
<1>1. UNCHANGED <<origins, headOrigin, batchMap>>
  BY DEF tables
<1>2. \A n : HasRow(n)' = HasRow(n)
  BY <1>1, Zenon DEF HasRow
<1>3. Confirmed' = Confirmed /\ \A b : ConfirmedOf(b)' = ConfirmedOf(b)
  BY <1>1, Zenon DEF Confirmed, ConfirmedOf
<1>4. BatchRows'
  BY <1>1, <1>2, Zenon DEF PointerInv, BatchRows
<1>5. CASE calm'
  <2>1. IsLast(headOrigin, Confirmed)'
    BY <1>1, <1>3, <1>5, Zenon DEF PointerInv, CalmInv
  <2>2. \A b \in Batches : IsLast(batchMap'[b], ConfirmedOf(b)')
    BY <1>1, <1>3, <1>5, Zenon DEF PointerInv, CalmInv
  <2>. QED
    BY <1>2, <1>4, <1>5, <2>1, <2>2, Zenon DEF PointerInv, CalmInv
<1>6. CASE ~calm'
  BY <1>4, <1>6, Zenon DEF PointerInv, CalmInv
<1>. QED
  BY <1>5, <1>6, Zenon

(* What a step that ends a calm period must show. *)
LEMMA CalmEnds ==
  ASSUME PointerInv, ~calm', batchMap' \in [Batches -> Numbers \cup {None}],
         \A n : HasRow(n) => HasRow(n)',
         \A b \in Batches : batchMap'[b] = batchMap[b] \/ HasRow(batchMap'[b])
  PROVE  PointerInv'
<1>1. \A b \in Batches : batchMap'[b] # None => HasRow(batchMap'[b])
  BY Zenon DEF PointerInv, BatchRows
<1>2. \A n : HasRow(n) => n \in Numbers /\ origins'[n].l1 # None
  BY Zenon DEF HasRow
<1>3. (\A b \in Batches : batchMap[b] # None => HasRow(batchMap[b]))'
  BY <1>1, <1>2, Zenon DEF HasRow
<1>4. BatchRows'
  BY <1>3, Zenon DEF BatchRows
<1>. QED
  BY <1>4, Zenon DEF PointerInv, CalmInv

LEMMA StartKeepsPointers ==
  ASSUME TrackedInv, PointerInv, NEW p \in Calls, NEW k \in 0 .. Len(chain),
         NEW l1 \in {0, 1}, k < MaxNumber,
         NEW built \in Children(BlockAt(k)), FcuStart(p, BlockAt(k), built, l1)
  PROVE  PointerInv'
<1>1. chain \in Seq(Int) /\ origins \in [Numbers -> Row] /\ calls \in [Calls -> Call \cup {Idle}]
  BY DEF TrackedInv
<1>2. BlockAt(k) \in Seq(Int) /\ Len(BlockAt(k)) = k
  BY <1>1, PrefixTypes
<1>3. built \in Seq(Int) /\ Len(built) = k + 1
  BY <1>2, BlockTypes
<1>4. /\ UNCHANGED tables /\ chain' = BlockAt(k)
      /\ calls' = [calls EXCEPT ![p] = [pc |-> "wait", block |-> built, l1 |-> l1]]
      /\ calm' => /\ calm /\ ~IsReorg(BlockAt(k)) /\ origins[Len(built)] = NoRow
                  /\ \A q \in Calls : calls[q].pc = "idle"
  BY Zenon DEF FcuStart, SetHead
<1>5. /\ \A q \in Calls \ {p} : calls'[q] = calls[q]
      /\ calls'[p].pc = "wait" /\ calls'[p].block = built
  BY <1>1, <1>4
<1>6. ASSUME calm'
      PROVE  /\ calm
             /\ \A q, r \in Calls : calls'[q].pc # "idle" /\ calls'[r].pc # "idle" => q = r
             /\ \A q \in Calls : calls'[q].pc # "idle" => Len(calls'[q].block) = Len(chain') + 1
             /\ \A q \in Calls, n \in Numbers :
                  calls'[q].pc \in {"wait", "persist"} /\ HasRow(n) => n <= Len(chain')
             /\ \A n \in Numbers : HasRow(n) => n <= Len(chain') + 1
  <2>1. k = Len(chain)
    BY <1>1, <1>2, <1>4, <1>6 DEF IsReorg
  <2>2. \A n \in Numbers : HasRow(n) => n <= Len(chain) + 1
    BY <1>4, <1>6, Zenon DEF PointerInv, CalmInv
  <2>3. ~HasRow(Len(chain) + 1)
    BY <1>3, <1>4, <1>6, <2>1 DEF HasRow, NoRow
  <2>4. \A n \in Numbers : HasRow(n) => n <= Len(chain)
    BY <1>1, <2>2, <2>3 DEF Numbers
  <2>5. Len(chain') = Len(chain)
    BY <1>2, <1>4, <2>1
  <2>6. \A q \in Calls : calls'[q].pc # "idle" => q = p
    BY <1>4, <1>5, <1>6, Zenon
  <2>7. Len(built) = Len(chain') + 1
    BY <1>3, <2>1, <2>5
  <2>8. \A q \in Calls : calls'[q].pc # "idle" => Len(calls'[q].block) = Len(chain') + 1
    BY <1>5, <2>6, <2>7, Zenon
  <2>. QED
    BY <1>4, <1>6, <2>2, <2>4, <2>5, <2>6, <2>8, Zenon
<1>. QED
  BY <1>4, <1>6, TablesStay, Zenon

(* A request ends without writing. *)
LEMMA EndKeepsPointers ==
  ASSUME TrackedInv, PointerInv, NEW p \in Calls,
         UNCHANGED tables, calls' = [calls EXCEPT ![p] = Idle],
         \/ chain' = chain /\ calm' = calm
         \/ /\ calls[p].pc = "ok" /\ chain' = calls[p].block
            /\ calm' => calm
  PROVE  PointerInv'
<1>1. chain \in Seq(Int) /\ calls \in [Calls -> Call \cup {Idle}]
  BY DEF TrackedInv
<1>2. calls'[p].pc = "idle" /\ \A q \in Calls \ {p} : calls'[q] = calls[q]
  BY <1>1 DEF Idle
<1>3. CASE chain' = chain /\ calm' = calm
  BY <1>2, <1>3, TablesStay, Zenon DEF PointerInv, CalmInv
<1>4. CASE calls[p].pc = "ok" /\ chain' = calls[p].block /\ (calm' => calm)
  <2>1. ASSUME calm'
        PROVE  /\ calm
               /\ \A q, r \in Calls : calls'[q].pc # "idle" /\ calls'[r].pc # "idle" => q = r
               /\ \A q \in Calls : calls'[q].pc # "idle" => Len(calls'[q].block) = Len(chain') + 1
               /\ \A q \in Calls, n \in Numbers :
                    calls'[q].pc \in {"wait", "persist"} /\ HasRow(n) => n <= Len(chain')
               /\ \A n \in Numbers : HasRow(n) => n <= Len(chain') + 1
    <3>1. calm
      BY <1>4, <2>1
    <3>2. \A q \in Calls : calls[q].pc # "idle" => q = p
      BY <1>4, <3>1 DEF PointerInv, CalmInv
    <3>3. \A q \in Calls : calls'[q].pc = "idle"
      BY <1>2, <3>2, Zenon
    <3>4. Len(chain') = Len(chain) + 1
      BY <1>4, <3>1 DEF PointerInv, CalmInv
    <3>5. \A n \in Numbers : HasRow(n) => n <= Len(chain) + 1
      BY <3>1, Zenon DEF PointerInv, CalmInv
    <3>6. \A n \in Numbers : HasRow(n) => n <= Len(chain') + 1
      BY <1>1, <3>4, <3>5 DEF Numbers
    <3>7. \A q \in Calls : calls'[q].pc \notin {"wait", "persist"}
      BY <3>3
    <3>. QED
      BY <3>1, <3>3, <3>6, <3>7, Zenon
  <2>. QED
    BY <2>1, TablesStay, Zenon
<1>. QED
  BY <1>3, <1>4, Zenon

LEMMA PersistKeepsPointers ==
  ASSUME TrackedInv, PointerInv, NEW p \in Calls, PersistL1Origin(p)
  PROVE  PointerInv'
<1>. DEFINE n == Len(calls[p].block)
            batch == BatchOf(calls[p].block)
            l1 == calls[p].l1
            row == [batch |-> batch, l1 |-> l1]
<1>1. chain \in Seq(Int) /\ origins \in [Numbers -> Row] /\ calls \in [Calls -> Call \cup {Idle}]
  BY DEF TrackedInv
<1>2. /\ calls[p].pc = "persist" /\ calls' = [calls EXCEPT ![p].pc = "ok"]
      /\ origins' = [origins EXCEPT ![n] = row]
      /\ headOrigin' = IF l1 # 0 THEN n ELSE headOrigin
      /\ batchMap' = IF l1 # 0 /\ ProposalId(batch) # None
                     THEN [batchMap EXCEPT ![ProposalId(batch)] = n] ELSE batchMap
      /\ UNCHANGED <<chain, calm>>
  BY DEF PersistL1Origin, Persist
<1>3. calls[p] \in Call
  BY <1>1, <1>2, ShapeOfCall, Zenon
<1>4. l1 \in {0, 1} /\ batch \in Int
  BY <1>3, BlockTypes DEF Call
<1>5. n \in Numbers
  BY <1>2 DEF TrackedInv
<1>6. row.l1 = l1 /\ row.batch = batch
  OBVIOUS
<1>7. /\ \A q \in Calls \ {p} : calls'[q] = calls[q]
      /\ calls'[p].pc = "ok" /\ calls'[p].block = calls[p].block
  BY <1>1, <1>2, <1>3 DEF Call
<1>. HIDE DEF n, batch, l1, row
<1>8. origins'[n] = row /\ \A m \in Numbers \ {n} : origins'[m] = origins[m]
  BY <1>1, <1>2, <1>5
<1>9. l1 # None /\ n # None
  BY <1>4, <1>5 DEF None, Numbers
<1>10. \A m \in Numbers : HasRow(m)' <=> (m = n \/ HasRow(m))
  BY <1>6, <1>8, <1>9 DEF HasRow
<1>11. batchMap \in [Batches -> Numbers \cup {None}] /\ \A b \in Batches : b # 0 /\ b # None
  BY BoundsAssumption DEF PointerInv, BatchRows, Batches, None
<1>12. /\ batchMap' \in [Batches -> Numbers \cup {None}]
       /\ \A b \in Batches : batchMap'[b] = IF l1 # 0 /\ b = batch THEN n ELSE batchMap[b]
  BY <1>2, <1>4, <1>5, <1>11, Zenon DEF ProposalId
<1>13. \A b \in Batches : batchMap[b] # None => HasRow(batchMap[b])
  BY Zenon DEF PointerInv, BatchRows
<1>14. \A b \in Batches : batchMap'[b] # None => batchMap'[b] = n \/ (HasRow(batchMap'[b]) /\ batchMap'[b] \in Numbers)
  BY <1>12, <1>13 DEF HasRow
<1>15. \A m \in Numbers : (m = n \/ HasRow(m)) => origins'[m].l1 # None
  BY <1>10, Zenon DEF HasRow
<1>16. (\A b \in Batches : batchMap[b] # None => HasRow(batchMap[b]))'
  BY <1>5, <1>14, <1>15, Zenon DEF HasRow
<1>17. BatchRows'
  BY <1>12, <1>16, Zenon DEF BatchRows
<1>18. ASSUME calm
       PROVE  CalmInv'
  <2>1. /\ \A q \in Calls : calls[q].pc # "idle" => q = p
        /\ n = Len(chain) + 1
        /\ \A m \in Numbers : HasRow(m) => m <= Len(chain)
        /\ IsLast(headOrigin, Confirmed)
        /\ \A b \in Batches : IsLast(batchMap[b], ConfirmedOf(b))
    BY <1>2, <1>18 DEF PointerInv, CalmInv, n
  <2>2. \A m \in Numbers : HasRow(m) => m < n
    BY <1>1, <2>1 DEF Numbers
  <2>3. Confirmed' = IF l1 # 0 THEN Confirmed \cup {n} ELSE Confirmed
    <3>1. n \notin Confirmed
      BY <1>5, <2>2 DEF Confirmed, HasRow, None, Numbers
    <3>. QED
      BY <1>4, <1>5, <1>6, <1>8, <3>1 DEF Confirmed
  <2>4. ASSUME NEW b \in Batches
        PROVE  ConfirmedOf(b)' = IF l1 # 0 /\ b = batch THEN ConfirmedOf(b) \cup {n} ELSE ConfirmedOf(b)
    <3>1. n \notin Confirmed
      BY <1>5, <2>2 DEF Confirmed, HasRow, None, Numbers
    <3>2. \A m \in Confirmed : m \in Numbers \ {n}
      BY <3>1 DEF Confirmed
    <3>3. \A m \in Confirmed : origins'[m] = origins[m]
      BY <1>8, <3>2
    <3>4. origins'[n].batch = batch
      BY <1>6, <1>8
    <3>. QED
      BY <2>3, <3>1, <3>3, <3>4 DEF ConfirmedOf
  <2>5. \A m \in Confirmed : m < n
    BY <2>2 DEF Confirmed, HasRow, None
  <2>6. IsLast(n, Confirmed \cup {n}) /\ \A b : IsLast(n, ConfirmedOf(b) \cup {n})
    BY <1>5, <1>9, <2>5 DEF IsLast, ConfirmedOf, Confirmed, Numbers
  <2>7. IsLast(headOrigin, Confirmed)'
    BY <1>2, <2>1, <2>3, <2>6, Zenon
  <2>8. \A b \in Batches : IsLast(batchMap'[b], ConfirmedOf(b)')
    BY <1>12, <2>1, <2>4, <2>6, Zenon
  <2>9. /\ \A q \in Calls : calls'[q].pc # "idle" => q = p
        /\ \A q \in Calls : calls'[q].pc # "idle" => Len(calls'[q].block) = Len(chain') + 1
        /\ \A q \in Calls : calls'[q].pc \notin {"wait", "persist"}
    BY <1>2, <1>7, <2>1 DEF n
  <2>10. (\A m \in Numbers : HasRow(m) => m <= Len(chain) + 1)'
    BY <1>1, <1>2, <1>10, <2>1 DEF Numbers
  <2>. QED
    BY <2>7, <2>8, <2>9, <2>10, Zenon DEF CalmInv
<1>. QED
  BY <1>2, <1>17, <1>18, Zenon DEF PointerInv, CalmInv

LEMMA FcuKeepsPointers ==
  ASSUME TrackedInv, PointerInv, NEW p \in Calls, FcuAction(p)
  PROVE  PointerInv'
<1>1. CASE \E k \in 0 .. Len(chain), l1 \in {0, 1} :
             k < MaxNumber /\ \E built \in Children(BlockAt(k)) : FcuStart(p, BlockAt(k), built, l1)
  BY <1>1, StartKeepsPointers, Zenon
<1>2. CASE FcuFails(p) \/ Abandon(p)
  <2>1. UNCHANGED <<tables, chain, calm>> /\ calls' = [calls EXCEPT ![p] = Idle]
    BY <1>2, Zenon DEF FcuFails, Abandon
  <2>. QED
    BY <2>1, EndKeepsPointers, Zenon
<1>3. CASE WaitForBuiltPayload(p)
  <2>1. /\ calls[p].pc = "wait" /\ calls' = [calls EXCEPT ![p].pc = "persist"]
        /\ UNCHANGED <<tables, chain, calm>>
    BY <1>3, Zenon DEF WaitForBuiltPayload
  <2>2. calls[p] \in Call
    BY <2>1, ShapeOfCall, Zenon DEF TrackedInv
  <2>3. /\ \A q \in Calls \ {p} : calls'[q] = calls[q]
        /\ calls'[p].pc = "persist" /\ calls'[p].block = calls[p].block
    BY <2>1, <2>2 DEF TrackedInv, Call
  <2>4. \A q \in Calls : calls'[q].pc # "idle" => calls[q].pc # "idle" /\ calls'[q].block = calls[q].block
    BY <2>1, <2>3
  <2>5. \A q \in Calls : calls'[q].pc \in {"wait", "persist"} => calls[q].pc \in {"wait", "persist"}
    BY <2>1, <2>3
  <2>6. \A q \in Calls : calls'[q].pc # "idle" => Len(calls'[q].block) = Len(calls[q].block)
    BY <2>4
  <2>. QED
    BY <2>1, <2>4, <2>5, <2>6, TablesStay, Zenon DEF PointerInv, CalmInv
<1>4. CASE PersistL1Origin(p)
  BY <1>4, PersistKeepsPointers
<1>5. CASE Adopt(p)
  <2>1. /\ UNCHANGED tables /\ calls' = [calls EXCEPT ![p] = Idle]
        /\ calls[p].pc = "ok" /\ chain' = calls[p].block /\ (calm' => calm)
    BY <1>5, Zenon DEF Adopt, SetHead
  <2>. QED
    BY <2>1, EndKeepsPointers, Zenon
<1>. QED
  BY <1>1, <1>2, <1>3, <1>4, <1>5, Zenon DEF FcuAction

LEMMA OthersKeepPointers ==
  ASSUME TrackedInv, PointerInv, HeadAction \/ SetterAction \/ LookupAction \/ UNCHANGED l1vars
  PROVE  PointerInv'
<1>0. batchMap \in [Batches -> Numbers \cup {None}] /\ origins \in [Numbers -> Row]
  BY DEF PointerInv, BatchRows, TrackedInv
<1>1. CASE HeadAction
  <2>1. ~calm' /\ UNCHANGED tables
    BY <1>1, Zenon DEF HeadAction, ImportForeign, Crash
  <2>. QED
    BY <2>1, TablesStay, Zenon
<1>2. CASE SetterAction
  <2>. PICK n \in Numbers :
         \/ \E row \in StoredL1Origin : UpdateL1Origin(n, row)
         \/ SetL1OriginSignature(n)
         \/ SetHeadL1Origin(n)
         \/ DriverStored(n) /\ \E b \in Batches : SetBatchToLastBlock(b, n)
    BY <1>2, Zenon DEF SetterAction
  <2>1. ASSUME NEW row \in StoredL1Origin, UpdateL1Origin(n, row)
        PROVE  PointerInv'
    <3>1. row.l1 # None
      BY DEF StoredL1Origin, None
    <3>2. origins' = [origins EXCEPT ![n] = row] /\ batchMap' = batchMap /\ ~calm'
      BY <2>1, Zenon DEF UpdateL1Origin
    <3>3. \A m : HasRow(m) => HasRow(m)'
      BY <1>0, <3>1, <3>2 DEF HasRow
    <3>. QED
      BY <1>0, <3>2, <3>3, CalmEnds, Zenon
  <2>2. CASE SetL1OriginSignature(n)
    <3>1. UNCHANGED <<chain, tables, calls, calm>>
      BY <2>2, Zenon DEF SetL1OriginSignature
    <3>. QED
      BY <3>1, TablesStay, Zenon DEF PointerInv, CalmInv
  <2>3. CASE SetHeadL1Origin(n)
    <3>1. UNCHANGED <<origins, batchMap>> /\ ~calm'
      BY <2>3, Zenon DEF SetHeadL1Origin
    <3>2. \A m : HasRow(m) => HasRow(m)'
      BY <3>1, Zenon DEF HasRow
    <3>. QED
      BY <1>0, <3>1, <3>2, CalmEnds, Zenon
  <2>4. ASSUME DriverStored(n), NEW b \in Batches, SetBatchToLastBlock(b, n)
        PROVE  PointerInv'
    <3>1. batchMap' = [batchMap EXCEPT ![b] = n] /\ origins' = origins /\ ~calm'
      BY <2>4, Zenon DEF SetBatchToLastBlock
    <3>2. HasRow(n)
      BY <1>0, <2>4 DEF DriverStored, HasRow, Row, StoredRow, NoRow, None
    <3>3. \A m : HasRow(m) => HasRow(m)'
      BY <3>1, Zenon DEF HasRow
    <3>4. batchMap' \in [Batches -> Numbers \cup {None}] /\ \A c \in Batches : batchMap'[c] = batchMap[c] \/ batchMap'[c] = n
      BY <1>0, <3>1
    <3>. QED
      BY <3>1, <3>2, <3>3, <3>4, CalmEnds, Zenon
  <2>. QED
    BY <2>1, <2>2, <2>3, <2>4, Zenon
<1>3. CASE LookupAction \/ UNCHANGED l1vars
  <2>1. UNCHANGED <<chain, origins, headOrigin, batchMap, calls, calm>>
    BY Zenon, <1>3 DEF LookupAction, LookupCached, LookupHead, LookupSnapshot, ScanStep, tables, l1vars
  <2>2. UNCHANGED <<chain, tables, calls, calm>>
    BY <2>1 DEF tables
  <2>. QED
    BY <2>2, TablesStay, ZenonT(30) DEF PointerInv, CalmInv
<1>. QED
  BY <1>1, <1>2, <1>3, Zenon

LEMMA PointersAlways == L1Spec => []PointerInv
<1>1. TrackedInv /\ PointerInv /\ [L1Next]_l1vars => PointerInv'
  BY FcuKeepsPointers, OthersKeepPointers, Zenon DEF L1Next
<1>. QED
  BY <1>1, PointerStart, TrackedAlways, PTL DEF L1Spec

LEMMA LastIsMax ==
  ASSUME NEW S \in SUBSET Int, NEW n \in S, \A m \in S : m <= n
  PROVE  Max(S) = n
<1>1. \A m \in S : n >= m
  OBVIOUS
<1>2. \A x \in S : (\A m \in S : x >= m) => x = n
  OBVIOUS
<1>. QED
  BY <1>1, <1>2, Zenon DEF Max

LEMMA ConfirmedRows ==
  ASSUME TrackedInv
  PROVE  /\ Confirmed = {n \in Numbers : origins[n] # NoRow /\ ~IsPreconf(origins[n])}
         /\ \A b : ConfirmedOf(b) = {n \in Numbers : /\ origins[n] # NoRow
                                                     /\ ~IsPreconf(origins[n])
                                                     /\ origins[n].batch = b}
<1>1. ASSUME NEW n \in Numbers
      PROVE  origins[n].l1 = 1 <=> origins[n] # NoRow /\ ~IsPreconf(origins[n])
  <2>1. origins[n] \in StoredRow \/ origins[n] = NoRow
    BY DEF TrackedInv, Row
  <2>. QED
    BY <2>1 DEF StoredRow, NoRow, None, IsPreconf
<1>. QED
  BY <1>1, Zenon DEF Confirmed, ConfirmedOf

(* The head pointer and the batch mapping name heights with a row, for any *)
(* overlap, failure, crash, reorganisation and setter; and while nothing   *)
(* was reordered the head pointer is the last confirmed row: the request   *)
(* in progress builds on the head, above every row (persist_l1_origin).    *)
THEOREM PointersAreRows == L1Spec => []PointersNameRows
<1>1. ASSUME TrackedInv, PointerInv
      PROVE  PointersNameRows
  <2>1. headOrigin # None => HeadL1Origin # NoRow
    BY <1>1, RowIsStored DEF TrackedInv, HeadL1Origin, L1OriginByID, HasRow
  <2>2. ASSUME NEW b \in Batches, ReadCachedLastBlockNumber(b) >= Threshold,
               ReadCachedLastBlockNumber(b) # None
        PROVE  LastCertainL1Origin(b) # NoRow
    <3>1. batchMap[b] \in Numbers /\ HasRow(batchMap[b])
      BY <1>1, <2>2, Zenon DEF ReadCachedLastBlockNumber, PointerInv, BatchRows, HasRow
    <3>2. ~(batchMap[b] < Threshold)
      BY <2>2, <3>1, BoundsAssumption DEF ReadCachedLastBlockNumber, Numbers
    <3>3. FilterBatchLookup(batchMap[b]).kind = "found"
      BY <3>2 DEF FilterBatchLookup, Found
    <3>4. LastCertainL1Origin(b) = origins[batchMap[b]]
      BY <3>1, <3>3, Zenon DEF LastCertainL1Origin, ReadCachedLastBlockNumber, L1OriginByID
    <3>. QED
      BY <1>1, <3>1, <3>4, RowIsStored, Zenon
  <2>3. ASSUME calm, headOrigin # None
        PROVE  headOrigin = Max({0} \cup Confirmed)
    <3>1. headOrigin \in Confirmed /\ \A n \in Confirmed : n <= headOrigin
      BY <1>1, <2>3, Zenon DEF PointerInv, CalmInv, IsLast
    <3>2. Confirmed \subseteq Numbers
      BY DEF Confirmed
    <3>3. /\ {0} \cup Confirmed \in SUBSET Int /\ headOrigin \in {0} \cup Confirmed
          /\ \A n \in {0} \cup Confirmed : n <= headOrigin
      BY <3>1, <3>2 DEF Numbers
    <3>. QED
      BY <3>3, LastIsMax, Zenon
  <2>. QED
    BY <1>1, <2>1, <2>2, <2>3, ConfirmedRows, Zenon DEF PointersNameRows
<1>. QED
  BY <1>1, TrackedAlways, PointersAlways, PTL

(* While nothing was reordered the batch mapping names the last confirmed  *)
(* block of every proposal, and nothing for a proposal without one, for    *)
(* any number of proposals and blocks (persist_l1_origin).                 *)
THEOREM CacheNamesLastOfBatch == L1Spec => []CacheIsLastOfBatch
<1>1. ASSUME TrackedInv, PointerInv, calm, NEW b \in Batches
      PROVE  batchMap[b] = IF ConfirmedOf(b) = {} THEN None ELSE Max(ConfirmedOf(b))
  <2>1. IsLast(batchMap[b], ConfirmedOf(b))
    BY <1>1, Zenon DEF PointerInv, CalmInv
  <2>2. ConfirmedOf(b) \in SUBSET Int
    BY DEF ConfirmedOf, Confirmed, Numbers
  <2>3. CASE batchMap[b] = None
    BY <2>1, <2>3, Zenon DEF IsLast
  <2>4. CASE batchMap[b] # None
    <3>1. batchMap[b] \in ConfirmedOf(b) /\ \A n \in ConfirmedOf(b) : n <= batchMap[b]
      BY <2>1, <2>4, Zenon DEF IsLast
    <3>2. Max(ConfirmedOf(b)) = batchMap[b]
      BY <2>2, <3>1, LastIsMax, Zenon
    <3>. QED
      BY <3>1, <3>2, Zenon
  <2>. QED
    BY <2>3, <2>4, Zenon
<1>2. TrackedInv /\ PointerInv => CacheIsLastOfBatch
  BY <1>1, ConfirmedRows, Zenon DEF CacheIsLastOfBatch
<1>. QED
  BY <1>2, TrackedAlways, PointersAlways, PTL

-----------------------------------------------------------------------------
(* What a lookup answers.                                                   *)

Heading == [pc : {"head"}, b : Batches]
Snapshot == [pc : {"snapshot"}, b : Batches, quiet : BOOLEAN, head : 0 .. MaxNumber, batch : Int]
Scanning == [pc : {"scan"}, b : Batches, quiet : BOOLEAN, head : 0 .. MaxNumber, n : Nat,
             batch : Int, scanned : Nat,
             rows : UNION {[1 .. h -> {None, 0, 1}] : h \in 0 .. MaxNumber}]

(* The scan went past block m: a later proposal, or a preconfirmed block of *)
(* its own.                                                                 *)
Passed(m) == chain[m] > scan.b \/ (chain[m] = scan.b /\ origins[m].l1 = 0)

(* A scan that nothing disturbed: its head is the chain's, its snapshot the *)
(* table's, and it went past every block behind it.                         *)
QuietInv ==
  /\ Len(chain) <= MaxNumber
  /\ scan \in {Idle} \cup Heading \cup Snapshot \cup Scanning
  /\ scan.pc = "snapshot" /\ scan.quiet => scan.head = Len(chain) /\ scan.batch = BatchOf(chain)
  /\ scan.pc = "scan" /\ scan.quiet =>
       /\ scan.head = Len(chain) /\ scan.n <= Len(chain)
       /\ scan.scanned = Len(chain) - scan.n
       /\ scan.n > 0 => scan.batch = chain[scan.n]
       /\ \A m \in 1 .. Len(chain) : scan.rows[m] = origins[m].l1
       /\ \A m \in 1 .. Len(chain) : m > scan.n => Passed(m)

LEMMA ScanShapes ==
  ASSUME QuietInv
  PROVE  /\ scan.pc = "head" => scan \in Heading
         /\ scan.pc = "snapshot" => scan \in Snapshot
         /\ scan.pc = "scan" => scan \in Scanning
BY DEF QuietInv, Idle, Heading, Snapshot, Scanning

(* What a step of a writer must show. *)
LEMMA WriterKeepsQuiet ==
  ASSUME QuietInv, Len(chain') <= MaxNumber,
         \/ UNCHANGED <<chain, origins, scan>>
         \/ scan' \in {Idle, Disturb(scan)}
  PROVE  QuietInv'
<1>1. CASE UNCHANGED <<chain, origins, scan>>
  BY <1>1, Zenon DEF QuietInv, Passed, BatchOf
<1>2. CASE scan' = Idle
  BY <1>2 DEF QuietInv, Idle
<1>3. CASE scan' = Disturb(scan)
  <2>1. scan.pc \notin {"snapshot", "scan"} => scan' = scan /\ scan \in {Idle} \cup Heading
    BY <1>3 DEF QuietInv, Disturb, Snapshot, Scanning
  <2>2. scan \in Snapshot => scan' \in Snapshot /\ scan'.quiet = FALSE
    BY <1>3, Zenon DEF Disturb, Snapshot
  <2>3. scan \in Scanning => scan' \in Scanning /\ scan'.quiet = FALSE
    BY <1>3, Zenon DEF Disturb, Scanning
  <2>4. scan \in {Idle} \cup Heading => scan.pc \notin {"snapshot", "scan"}
    BY DEF Idle, Heading
  <2>. QED
    BY <2>1, <2>2, <2>3, <2>4, ScanShapes DEF QuietInv
<1>. QED
  BY <1>1, <1>2, <1>3, Zenon

LEMMA WritersKeepQuiet ==
  ASSUME TrackedInv, QuietInv,
         (\E p \in Calls : FcuAction(p)) \/ HeadAction \/ SetterAction \/ UNCHANGED l1vars
  PROVE  QuietInv'
<1>0. chain \in Seq(Int) /\ Len(chain) <= MaxNumber
  BY DEF TrackedInv, QuietInv
<1>1. ASSUME NEW p \in Calls, FcuAction(p)
      PROVE  QuietInv'
  <2>1. ASSUME NEW k \in 0 .. Len(chain), NEW l1 \in {0, 1}, k < MaxNumber,
               NEW built, FcuStart(p, BlockAt(k), built, l1)
        PROVE  QuietInv'
    <3>1. /\ chain' = BlockAt(k) /\ origins' = origins
          /\ (scan' = scan /\ chain' = chain) \/ scan' = Disturb(scan)
      BY <2>1 DEF FcuStart, SetHead, tables
    <3>2. Len(chain') <= MaxNumber
      BY <1>0, <2>1, <3>1, PrefixTypes, BoundsAssumption
    <3>. QED
      BY <3>1, <3>2, WriterKeepsQuiet, Zenon
  <2>2. CASE FcuFails(p) \/ Abandon(p) \/ WaitForBuiltPayload(p)
    <3>1. UNCHANGED <<chain, origins, scan>>
      BY <2>2 DEF FcuFails, Abandon, WaitForBuiltPayload, tables
    <3>. QED
      BY <1>0, <3>1, WriterKeepsQuiet, Zenon
  <2>3. CASE PersistL1Origin(p)
    <3>1. scan' = Disturb(scan) /\ chain' = chain
      BY <2>3, Zenon DEF PersistL1Origin, Persist
    <3>. QED
      BY <1>0, <3>1, WriterKeepsQuiet, Zenon
  <2>4. CASE Adopt(p)
    <3>1. /\ calls[p].pc = "ok" /\ chain' = calls[p].block /\ origins' = origins
          /\ (scan' = scan /\ chain' = chain) \/ scan' = Disturb(scan)
      BY <2>4 DEF Adopt, SetHead, tables
    <3>2. Len(chain') \in Numbers
      BY <3>1 DEF TrackedInv
    <3>3. Len(chain') <= MaxNumber
      BY <3>2 DEF Numbers
    <3>. QED
      BY <3>1, <3>3, WriterKeepsQuiet, Zenon
  <2>. QED
    BY <1>1, <2>1, <2>2, <2>3, <2>4, Zenon DEF FcuAction
<1>2. CASE HeadAction
  <2>1. ASSUME Len(chain) < MaxNumber, NEW b \in Children(chain), ImportForeign(b)
        PROVE  QuietInv'
    <3>1. chain' = b /\ origins' = origins /\ ((scan' = scan /\ chain' = chain) \/ scan' = Disturb(scan))
      BY <2>1 DEF ImportForeign, SetHead, tables
    <3>2. Len(chain') <= MaxNumber
      BY <1>0, <2>1, <3>1, BlockTypes, BoundsAssumption
    <3>. QED
      BY <3>1, <3>2, WriterKeepsQuiet, Zenon
  <2>2. ASSUME NEW k \in 0 .. Len(chain), Crash(k)
        PROVE  QuietInv'
    <3>1. chain' = BlockAt(k) /\ scan' = Idle
      BY <2>2, Zenon DEF Crash
    <3>2. Len(chain') <= MaxNumber
      BY <1>0, <3>1, PrefixTypes, BoundsAssumption
    <3>. QED
      BY <3>1, <3>2, WriterKeepsQuiet, Zenon
  <2>. QED
    BY <1>2, <2>1, <2>2, Zenon DEF HeadAction
<1>3. CASE SetterAction \/ UNCHANGED l1vars
  <2>1. /\ chain' = chain
        /\ (scan' = scan /\ origins' = origins) \/ scan' = Disturb(scan)
    BY <1>3 DEF SetterAction, UpdateL1Origin, SetL1OriginSignature, SetHeadL1Origin,
                SetBatchToLastBlock, tables, l1vars
  <2>. QED
    BY <1>0, <2>1, WriterKeepsQuiet, Zenon
<1>. QED
  BY <1>1, <1>2, <1>3, ZenonT(30)

LEMMA LookupsKeepQuiet ==
  ASSUME TrackedInv, QuietInv, LookupAction
  PROVE  QuietInv'
<1>0. /\ chain \in Seq(Int) /\ Len(chain) \in 0 .. MaxNumber /\ BatchOf(chain) \in Int
      /\ origins \in [Numbers -> Row] /\ Len(chain) <= MaxNumber
  <2>1. chain \in Seq(Int) /\ origins \in [Numbers -> Row]
    BY Zenon DEF TrackedInv
  <2>2. Len(chain) <= MaxNumber
    BY Zenon DEF QuietInv
  <2>3. Len(chain) \in 0 .. MaxNumber
    BY <2>1, <2>2, BoundsAssumption
  <2>. QED
    BY Zenon, <2>1, <2>2, <2>3, BlockTypes
<1>1. UNCHANGED <<chain, origins>>
  BY DEF LookupAction, LookupCached, LookupHead, LookupSnapshot, ScanStep, tables
<1>2. Len(chain)' = Len(chain) /\ Len(chain') <= MaxNumber /\ BatchOf(chain)' = BatchOf(chain)
  BY Zenon, <1>0, <1>1 DEF BatchOf
<1>3. ASSUME NEW b \in Batches, LookupCached(b)
      PROVE  QuietInv'
  <2>1. scan' = [pc |-> "head", b |-> b]
    BY <1>3, Zenon DEF LookupCached
  <2>2. scan' \in Heading /\ scan'.pc = "head"
    BY Zenon, <2>1 DEF Heading
  <2>. QED
    BY <1>2, <2>2 DEF QuietInv
<1>4. CASE LookupHead
  <2>1. scan.pc = "head" /\ scan' = [pc |-> "snapshot", b |-> scan.b, quiet |-> TRUE,
                                     head |-> Len(chain), batch |-> BatchOf(chain)]
    BY <1>4, Zenon DEF LookupHead
  <2>2. scan.b \in Batches
    BY <2>1, ScanShapes DEF Heading
  <2>3. /\ scan' \in Snapshot /\ scan'.pc = "snapshot"
        /\ scan'.head = Len(chain) /\ scan'.batch = BatchOf(chain)
    BY Zenon, <1>0, <2>1, <2>2 DEF Snapshot
  <2>. QED
    BY Zenon, <1>2, <2>3 DEF QuietInv
<1>5. CASE LookupSnapshot
  <2>. DEFINE rows == [n \in 1 .. scan.head |-> origins[n].l1]
  <2>1. scan.pc = "snapshot" /\ scan' = [pc |-> "scan", b |-> scan.b, quiet |-> scan.quiet,
                                         head |-> scan.head, n |-> scan.head, batch |-> scan.batch,
                                         scanned |-> 0, rows |-> rows]
    BY <1>5, Zenon DEF LookupSnapshot
  <2>2. /\ scan.b \in Batches /\ scan.head \in 0 .. MaxNumber /\ scan.quiet \in BOOLEAN /\ scan.batch \in Int
        /\ scan.quiet => scan.head = Len(chain) /\ scan.batch = BatchOf(chain)
    BY <2>1, ScanShapes DEF Snapshot, QuietInv
  <2>3. \A n \in Numbers : origins[n].l1 \in {None, 0, 1}
    BY <1>0 DEF Row, StoredRow, NoRow
  <2>4. rows \in [1 .. scan.head -> {None, 0, 1}]
    <3>1. \A n \in 1 .. scan.head : n \in Numbers
      BY <2>2, BoundsAssumption DEF Numbers
    <3>. QED
      BY <2>3, <3>1, Zenon
  <2>5. rows \in UNION {[1 .. h -> {None, 0, 1}] : h \in 0 .. MaxNumber}
    BY <2>2, <2>4, Zenon
  <2>6. \A m \in 1 .. scan.head : rows[m] = origins[m].l1
    OBVIOUS
  <2>. HIDE DEF rows
  <2>7. /\ scan'.pc = "scan" /\ scan'.b = scan.b /\ scan'.quiet = scan.quiet /\ scan'.head = scan.head
        /\ scan'.n = scan.head /\ scan'.batch = scan.batch /\ scan'.scanned = 0 /\ scan'.rows = rows
    BY <2>1
  <2>8. scan.head \in Nat
    BY <2>2
  <2>9. scan' \in Scanning
    BY <2>1, <2>2, <2>5, <2>8 DEF Scanning
  <2>10. ASSUME scan.quiet
         PROVE  /\ scan'.head = Len(chain) /\ scan'.n <= Len(chain)
                /\ scan'.scanned = Len(chain) - scan'.n
                /\ scan'.n > 0 => scan'.batch = chain[scan'.n]
                /\ \A m \in 1 .. Len(chain) : scan'.rows[m] = origins[m].l1
                /\ \A m \in 1 .. Len(chain) : ~(m > scan'.n)
    <3>1. BatchOf(chain) = IF Len(chain) > 0 THEN chain[Len(chain)] ELSE 0
      BY <1>0 DEF BatchOf
    <3>2. scan'.n = Len(chain) /\ scan'.batch = BatchOf(chain) /\ scan'.scanned = 0
      BY <2>2, <2>7, <2>10
    <3>3. \A m \in 1 .. Len(chain) : scan'.rows[m] = origins[m].l1
      BY <2>2, <2>6, <2>7, <2>10
    <3>. QED
      BY <1>0, <2>2, <2>7, <2>10, <3>1, <3>2, <3>3
  <2>. QED
    BY <1>1, <1>2, <2>7, <2>9, <2>10 DEF QuietInv
<1>6. CASE ScanStep
  <2>1. scan.pc = "scan" /\ (IF ScanVerdict = GoOn THEN WalkBack ELSE scan' = Idle)
    BY <1>6, Zenon DEF ScanStep
  <2>2. CASE scan' = Idle
    BY <1>2, <2>2, WriterKeepsQuiet, Zenon
  <2>3. CASE ScanVerdict = GoOn /\ scan' # Idle
    <3>. DEFINE n == scan.n - 1
                batch == BatchOf(BlockAt(n))
    <3>1. ~(n > Len(chain)) /\ scan' = [scan EXCEPT !.n = n, !.batch = batch, !.scanned = @ + 1]
      BY <2>1, <2>3, Zenon DEF WalkBack
    <3>2. scan \in Scanning
      BY <2>1, ScanShapes
    <3>3. /\ scan.scanned < ScanLimit /\ scan.n # 0 /\ ~(scan.batch < scan.b)
          /\ scan.batch > scan.b \/ scan.rows[scan.n] = 0
      BY <2>3, <3>2, BoundsAssumption
         DEF ScanVerdict, GoOn, LookbackExceeded, NotFound, UncertainAtHead, FilterBatchLookup, Found, Filtered, Scanning
    <3>4. scan.n \in Nat /\ scan.batch \in Int /\ scan.b \in Int /\ scan.scanned \in Nat /\ scan.quiet \in BOOLEAN
      BY <3>2 DEF Scanning, Batches
    <3>5. n \in 0 .. Len(chain)
      BY <1>0, <3>1, <3>3, <3>4
    <3>6. BlockAt(n) \in Seq(Int) /\ Len(BlockAt(n)) = n
      BY <1>0, <3>5, PrefixTypes
    <3>7. batch \in Int /\ (n > 0 => batch = chain[n])
      <4>1. batch \in Int
        BY <3>6, BlockTypes
      <4>2. ASSUME n > 0 PROVE BlockAt(n) # <<>> /\ BlockAt(n)[n] = chain[n]
        BY <1>0, <3>5, <3>6, <4>2 DEF BlockAt
      <4>3. ASSUME n > 0 PROVE batch = chain[n]
        BY <3>6, <4>2, <4>3, Zenon DEF BatchOf
      <4>. QED
        BY <4>1, <4>3
    <3>. HIDE DEF n, batch
    <3>8. n \in Nat /\ scan.scanned + 1 \in Nat
      BY <1>0, <3>4, <3>5
    <3>9. /\ scan' \in Scanning /\ scan'.pc = "scan" /\ scan'.b = scan.b /\ scan'.quiet = scan.quiet
          /\ scan'.head = scan.head /\ scan'.n = n /\ scan'.batch = batch
          /\ scan'.scanned = scan.scanned + 1 /\ scan'.rows = scan.rows
      <4>1. /\ scan'.pc = "scan" /\ scan'.b = scan.b /\ scan'.quiet = scan.quiet
            /\ scan'.head = scan.head /\ scan'.n = n /\ scan'.batch = batch
            /\ scan'.scanned = scan.scanned + 1 /\ scan'.rows = scan.rows
        BY <3>1, <3>2 DEF Scanning
      <4>2. scan' \in Scanning
        BY <3>1, <3>2, <3>7, <3>8, Zenon DEF Scanning
      <4>. QED
        BY <4>1, <4>2, Zenon
    <3>10. ASSUME scan.quiet
           PROVE  /\ scan'.head = Len(chain) /\ scan'.n <= Len(chain)
                  /\ scan'.scanned = Len(chain) - scan'.n
                  /\ scan'.n > 0 => scan'.batch = chain[scan'.n]
                  /\ \A m \in 1 .. Len(chain) : scan'.rows[m] = origins[m].l1
                  /\ \A m \in 1 .. Len(chain) : m > scan'.n => Passed(m)
      <4>1. /\ scan.head = Len(chain) /\ scan.n <= Len(chain)
            /\ scan.scanned = Len(chain) - scan.n
            /\ scan.n > 0 => scan.batch = chain[scan.n]
            /\ \A m \in 1 .. Len(chain) : scan.rows[m] = origins[m].l1
            /\ \A m \in 1 .. Len(chain) : m > scan.n => Passed(m)
        BY <2>1, <3>10, Zenon DEF QuietInv
      <4>2. scan.n \in 1 .. Len(chain)
        BY <1>0, <3>3, <3>4, <4>1
      <4>3. Passed(scan.n)
        BY <3>3, <3>4, <4>1, <4>2 DEF Passed
      <4>4. \A m \in 1 .. Len(chain) : m > n => m = scan.n \/ m > scan.n
        BY <3>4 DEF n
      <4>5. \A m \in 1 .. Len(chain) : m > scan'.n => Passed(m)
        BY <3>9, <4>1, <4>3, <4>4, Zenon
      <4>6. n <= Len(chain) /\ scan.scanned + 1 = Len(chain) - n
        BY SMT, Z3, <1>0, <3>4, <3>5, <4>1 DEF n
      <4>. QED
        BY <3>7, <3>9, <4>1, <4>5, <4>6, Zenon
    <3>11. \A m : Passed(m)' = Passed(m)
      BY <1>1, <3>9, Zenon DEF Passed
    <3>. QED
      BY <1>1, <1>2, <3>9, <3>10, <3>11 DEF QuietInv
  <2>. QED
    BY <2>1, <2>2, <2>3, Zenon
<1>. QED
  BY <1>3, <1>4, <1>5, <1>6, ZenonT(30) DEF LookupAction

LEMMA QuietStart == L1Init => QuietInv
BY SMT, Z3, BoundsAssumption DEF L1Init, QuietInv, Idle

LEMMA QuietAlways == L1Spec => []QuietInv
<1>1. TrackedInv /\ QuietInv /\ [L1Next]_l1vars => QuietInv'
  BY WritersKeepQuiet, LookupsKeepQuiet, Zenon DEF L1Next
<1>. QED
  BY <1>1, QuietStart, TrackedAlways, PTL DEF L1Spec

(* A nonempty set of naturals has a least element, because < is             *)
(* well-founded, and so one with an upper bound has a greatest.             *)
LEMMA GreatestElement ==
  ASSUME NEW T, NEW n \in Nat, \A m \in T : m \in 0 .. n, T # {}
  PROVE  Max(T) \in T /\ \A m \in T : m <= Max(T)
<1>. DEFINE R == OpToRel(<, Nat)
            U == {n - m : m \in T}
<1>1. IsWellFoundedOn(R, Nat)
  BY NatLessThanWellFounded, Zenon
<1>2. \A x, y \in Nat : <<y, x>> \in R <=> y < x
  BY DEF OpToRel
<1>3. U \subseteq Nat /\ U # {}
  BY SMT, Z3
<1>. HIDE DEF R
<1>4. PICK u \in U : \A y \in U : ~(<<y, u>> \in R)
  BY <1>1, <1>3, WFMin, Zenon
<1>5. u \in Nat /\ \A y \in U : y \in Nat /\ ~(y < u)
  BY <1>2, <1>3, <1>4, Zenon
<1>6. PICK k \in T : u = n - k
  OBVIOUS
<1>7. \A m \in T : n - m \in U
  OBVIOUS
<1>8. \A m \in T : m <= k
  <2>. HIDE DEF U
  <2>. QED
    BY SMT, Z3, <1>5, <1>6, <1>7
<1>9. T \in SUBSET Int
  BY SMT, Z3
<1>. QED
  BY <1>8, <1>9, LastIsMax, Zenon

(* A lookup that ran while neither the head nor the tables moved answers    *)
(* with the last block of the proposal that is not merely preconfirmed, or  *)
(* says why not, for every chain, scan limit and network threshold          *)
(* (find_last_block_number_by_batch_id).                                    *)
THEOREM QuietScansAreExact == L1Spec => []QuietScanIsExact
<1>1. ASSUME TrackedInv, QuietInv, scan.pc = "scan", scan.quiet, ScanVerdict # GoOn
      PROVE  ScanVerdict = LastBlockReference(scan.b)
  <2>. DEFINE N == Len(chain)
              n == scan.n
              b == scan.b
              preconf(m) == origins[m] # NoRow /\ IsPreconf(origins[m])
              match(m) == chain[m] = b /\ ~preconf(m)
              ends == {m \in 1 .. N : chain[m] < b \/ match(m)}
              end == Max({0} \cup ends)
              l1 == IF n = 0 THEN None ELSE scan.rows[n]
  <2>1. /\ chain \in Seq(Int) /\ origins \in [Numbers -> Row] /\ N <= MaxNumber /\ scan \in Scanning
    BY <1>1, ScanShapes, Zenon DEF TrackedInv, QuietInv
  <2>2. n \in Nat /\ scan.batch \in Int /\ b \in Int /\ b > 0 /\ N \in Nat
    BY SMT, Z3, <2>1 DEF Scanning, Batches
  <2>3. /\ scan.head = N /\ n <= N /\ scan.scanned = N - n
        /\ n > 0 => scan.batch = chain[n]
        /\ \A m \in 1 .. N : scan.rows[m] = origins[m].l1
        /\ \A m \in 1 .. N : m > n => chain[m] > b \/ (chain[m] = b /\ origins[m].l1 = 0)
    BY <1>1, Zenon DEF QuietInv, Passed
  <2>4. ASSUME NEW m \in 1 .. N
        PROVE  /\ m \in Numbers /\ chain[m] \in Int
               /\ preconf(m) <=> origins[m].l1 = 0
               /\ origins[m] = NoRow <=> origins[m].l1 = None
    <3>1. m \in Numbers /\ chain[m] \in Int
      BY SMT, Z3, <2>1, <2>2, BoundsAssumption DEF Numbers
    <3>2. origins[m] \in StoredRow \/ origins[m] = NoRow
      BY <2>1, <3>1, Zenon DEF Row
    <3>. QED
      BY SMT, Z3, <3>1, <3>2 DEF StoredRow, NoRow, None, IsPreconf
  <2>. HIDE DEF preconf
  <2>5. \A m \in ends : m <= n
    BY SMT, Z3, <2>2, <2>3, <2>4
  <2>6. end \in {0} \cup ends /\ (\A m \in {0} \cup ends : m <= end) /\ end \in 0 .. n
    <3>1. \A m \in {0} \cup ends : m \in 0 .. n
      BY SMT, Z3, <2>2, <2>5
    <3>. HIDE DEF ends
    <3>. QED
      BY <2>2, <3>1, GreatestElement, Zenon
  <2>7. LastBlockReference(b) =
          IF N - end >= ScanLimit THEN LookbackExceeded
          ELSE IF end = 0 THEN NotFound
          ELSE IF ~match(end) THEN NotFound
          ELSE IF end = N /\ origins[end] = NoRow THEN UncertainAtHead
          ELSE FilterBatchLookup(end)
    BY Zenon DEF LastBlockReference, preconf
  <2>8. n = 0 \/ n \in ends => end = n
    BY SMT, Z3, <2>2, <2>6
  <2>9. n > 0 => (n \in ends <=> chain[n] < b \/ match(n))
    BY SMT, Z3, <2>2, <2>3
  <2>. HIDE DEF ends, end
  <2>10. CASE N - n >= ScanLimit
    <3>1. N - end >= ScanLimit
      BY SMT, Z3, <2>2, <2>6, <2>10, BoundsAssumption
    <3>2. ScanVerdict = LookbackExceeded
      BY <2>3, <2>10, Zenon DEF ScanVerdict
    <3>. QED
      BY <2>7, <3>1, <3>2, Zenon
  <2>11. CASE ~(N - n >= ScanLimit)
    <3>0. ScanVerdict = IF n = 0 \/ scan.batch = 0 \/ scan.batch < b THEN NotFound
                        ELSE IF scan.batch > b \/ l1 = 0 THEN GoOn
                        ELSE IF n = scan.head /\ l1 = None THEN UncertainAtHead
                        ELSE FilterBatchLookup(n)
      BY <2>3, <2>11, Zenon DEF ScanVerdict
    <3>1. CASE n = 0
      BY <2>7, <2>8, <2>11, <3>0, <3>1, Zenon
    <3>2. CASE n > 0 /\ chain[n] < b
      <4>1. end = n /\ ~match(n) /\ n # 0
        BY SMT, Z3, <2>2, <2>4, <2>3, <2>8, <2>9, <3>2
      <4>2. ScanVerdict = NotFound
        BY <2>3, <3>0, <3>2, Zenon
      <4>. QED
        BY <2>7, <2>11, <4>1, <4>2, Zenon
    <3>3. CASE n > 0 /\ ~(chain[n] < b)
      <4>1. n \in 1 .. N /\ scan.batch = chain[n] /\ n # 0 /\ l1 = origins[n].l1
        BY SMT, Z3, <2>2, <2>3, <3>3
      <4>2. ~(scan.batch > b) /\ l1 # 0 /\ scan.batch # 0 /\ ~(scan.batch < b)
        BY <1>1, <2>2, <3>0, <3>3, <4>1
      <4>3. chain[n] = b /\ match(n)
        BY SMT, Z3, <2>2, <2>4, <4>1, <4>2
      <4>4. end = n
        BY <2>8, <2>9, <3>3, <4>3, Zenon
      <4>5. ScanVerdict = IF n = N /\ origins[n] = NoRow THEN UncertainAtHead ELSE FilterBatchLookup(n)
        BY <2>3, <2>4, <3>0, <4>1, <4>2, Zenon
      <4>. QED
        BY <2>7, <2>11, <4>1, <4>3, <4>4, <4>5, Zenon
    <3>. QED
      BY SMT, Z3, <2>2, <3>1, <3>2, <3>3
  <2>. QED
    BY <2>10, <2>11, Zenon
<1>2. TrackedInv /\ QuietInv => QuietScanIsExact
  BY <1>1, Zenon DEF QuietScanIsExact
<1>. QED
  BY <1>2, TrackedAlways, QuietAlways, PTL

(***************************************************************************)
(* The trace, witness and proof requests.                                  *)
(***************************************************************************)
Owners == {"none", "handler", "worker"}
Reported == Errors \cup {"none"}
Places == Running \cup Answers \cup Reported
WorkerStates == {"none", "queued", "running", "finished", "failed"}

(* The requests of kind k that hold a permit. *)
Holders(k) == {r \in Requests : kind[r] = k /\ permit[r] # "none"}

(* What ties the permit p and the worker w of a request of kind k to the    *)
(* place c of its handler.                                                  *)
Tied(k, p, w, c) ==
    /\ w \in {"queued", "running"} => p = "worker"
    /\ w = "finished" /\ k = "trace" => p = "worker"
    /\ c \in {"acquire", "load", "check", "prepare", "final"} => w = "none"
    /\ c \in {"check", "prepare", "final"} => p = "handler"
    /\ c = "load" /\ k # "witness" => p = "handler"

(* WorkBounded is not inductive: that a worker never outlives its permit    *)
(* rests on who owns the permit at each place of the handler, and that the  *)
(* permits are bounded on the semaphore alone.                              *)
PermitInv ==
    /\ kind \in [Requests -> Kinds]
    /\ permit \in [Requests -> Owners]
    /\ worker \in [Requests -> WorkerStates]
    /\ pc \in [Requests -> Places]
    /\ error \in [Requests -> Reported]
    /\ \A r \in Requests : Tied(kind[r], permit[r], worker[r], pc[r])
    /\ \A k \in Kinds : Cardinality(Holders(k)) <= Capacity(k)

LEMMA CapacityIsNat == \A k \in Kinds : Capacity(k) \in Nat \ {0}
BY CapacityAssumption DEF Capacity, Kinds

LEMMA SmallerIsBounded ==
    ASSUME NEW S \in SUBSET Requests, NEW T \in SUBSET Requests, S \subseteq T
    PROVE  Cardinality(S) \in Nat /\ Cardinality(T) \in Nat /\ Cardinality(S) <= Cardinality(T)
<1>1. IsFiniteSet(T)
    BY FS_Subset, CapacityAssumption
<1>2. IsFiniteSet(S) /\ Cardinality(S) <= Cardinality(T)
    BY <1>1, FS_Subset
<1>. QED
    BY <1>1, <1>2, FS_CardinalityType

LEMMA SmallerFits ==
    ASSUME NEW S \in SUBSET Requests, NEW T \in SUBSET Requests, S \subseteq T,
           NEW c \in Nat \ {0}, Cardinality(T) <= c
    PROVE  Cardinality(S) <= c
BY SmallerIsBounded

LEMMA OneMore ==
    ASSUME NEW S \in SUBSET Requests, NEW r \in Requests
    PROVE  Cardinality(S \cup {r}) <= Cardinality(S) + 1
<1>1. IsFiniteSet(S)
    BY FS_Subset, CapacityAssumption
<1>2. Cardinality(S) \in Nat
    BY <1>1, FS_CardinalityType
<1>3. Cardinality(S \cup {r}) = IF r \in S THEN Cardinality(S) ELSE Cardinality(S) + 1
    BY <1>1, FS_AddElement
<1>. QED
    BY SMT, Z3, <1>2, <1>3

(* A step of one request that takes a permit only from a semaphore with a   *)
(* free slot keeps the invariant.                                           *)
LEMMA RequestStep ==
    ASSUME PermitInv, NEW r \in Requests,
           NEW p \in Owners, NEW w \in WorkerStates, NEW c \in Places,
           kind' = kind,
           permit' = [permit EXCEPT ![r] = p],
           worker' = [worker EXCEPT ![r] = w],
           pc' = [pc EXCEPT ![r] = c],
           error' \in [Requests -> Reported],
           Tied(kind[r], p, w, c),
           p # "none" => permit[r] # "none" \/ PermitFree(r)
    PROVE  PermitInv'
<1>1. \A q \in Requests : Tied(kind[q], permit[q], worker[q], pc[q])'
    BY DEF PermitInv, Tied
<1>2. ASSUME NEW k \in Kinds
      PROVE  Cardinality(Holders(k)') <= Capacity(k)
    <2>1. Holders(k) \in SUBSET Requests /\ Holders(k)' \in SUBSET Requests
        BY DEF Holders
    <2>2. CASE Holders(k)' \subseteq Holders(k)
        BY SMT, Z3, <2>1, <2>2, SmallerIsBounded, CapacityIsNat DEF PermitInv
    <2>3. CASE ~(Holders(k)' \subseteq Holders(k))
        <3>1. k = kind[r] /\ permit[r] = "none" /\ p # "none"
            BY <2>3 DEF Holders, PermitInv
        <3>2. Holders(k)' \subseteq Holders(k) \cup {r}
            BY DEF Holders, PermitInv
        <3>3. Holders(k) = {q \in Competing(r) : permit[q] # "none"}
            BY <3>1 DEF Holders, Competing
        <3>4. Cardinality(Holders(k)) < Capacity(k)
            BY <3>1, <3>3 DEF PermitFree
        <3>5. Holders(k) \cup {r} \in SUBSET Requests
            BY <2>1
        <3>6. /\ Cardinality(Holders(k)) \in Nat
              /\ Cardinality(Holders(k)') \in Nat
              /\ Cardinality(Holders(k) \cup {r}) \in Nat
              /\ Cardinality(Holders(k)') <= Cardinality(Holders(k) \cup {r})
            BY <2>1, <3>2, <3>5, SmallerIsBounded
        <3>7. Cardinality(Holders(k) \cup {r}) <= Cardinality(Holders(k)) + 1
            BY <2>1, OneMore
        <3>. QED
            BY SMT, Z3, <3>4, <3>6, <3>7, CapacityIsNat
    <2>. QED
        BY <2>2, <2>3
<1>3. \A k \in Kinds : (Cardinality(Holders(k)) <= Capacity(k))'
    BY <1>2, Zenon DEF Capacity
<1>. QED
    BY <1>1, <1>3, Zenon DEF PermitInv

LEMMA InitPermit == Init => PermitInv
<1>. SUFFICES ASSUME Init PROVE PermitInv
    OBVIOUS
<1>1. ASSUME NEW k \in Kinds PROVE Cardinality(Holders(k)) <= Capacity(k)
    <2>1. Holders(k) = {}
        BY DEF Init, Holders
    <2>. QED
        BY SMT, Z3, <2>1, FS_EmptySet, CapacityIsNat
<1>2. /\ kind \in [Requests -> Kinds]
      /\ permit = [r \in Requests |-> "none"]
      /\ worker = [r \in Requests |-> "none"]
      /\ error = [r \in Requests |-> "none"]
      /\ pc = [r \in Requests |-> IF r \in WitnessRequests THEN "load" ELSE "acquire"]
    BY DEF Init
<1>3. \A r \in Requests : Tied(kind[r], permit[r], worker[r], pc[r])
    BY <1>2 DEF Tied, WitnessRequests
<1>. QED
    BY <1>1, <1>2, <1>3 DEF PermitInv, Owners, WorkerStates, Places, Reported, Running

(* A step of the request r: its permit, its worker and its handler go to    *)
(* p, w and c.                                                              *)
StepTo(r, p, w, c) ==
    /\ permit' = [permit EXCEPT ![r] = p]
    /\ worker' = [worker EXCEPT ![r] = w]
    /\ pc' = [pc EXCEPT ![r] = c]
    /\ error' \in [Requests -> Reported]
    /\ Tied(kind[r], p, w, c)
    /\ p # "none" => permit[r] # "none" \/ PermitFree(r)

Step(r) == \E p \in Owners, w \in WorkerStates, c \in Places : StepTo(r, p, w, c)

LEMMA StepPreserves ==
    ASSUME PermitInv, kind' = kind, NEW r \in Requests, Step(r)
    PROVE  PermitInv'
BY RequestStep, Zenon DEF Step, StepTo

(* A handler that is done with its permit, on its way to c. *)
LEMMA Release ==
    ASSUME PermitInv, NEW r \in Requests, NEW c \in Places,
           c \notin {"acquire", "load", "check", "prepare", "final"},
           permit' = [permit EXCEPT ![r] = DroppedByHandler(r)],
           StopListening(r) \/ (UNCHANGED worker /\ worker[r] # "finished"),
           pc' = [pc EXCEPT ![r] = c],
           error' \in [Requests -> Reported]
    PROVE  Step(r)
<1>1. Tied(kind[r], permit[r], worker[r], pc[r]) /\ worker[r] \in WorkerStates
    BY DEF PermitInv
<1>2. DroppedByHandler(r) \in Owners
    BY DEF PermitInv, DroppedByHandler, Owners
<1>3. DroppedByHandler(r) # "none" => permit[r] # "none"
    BY DEF DroppedByHandler
<1>4. CASE StopListening(r)
    <2>. DEFINE w == IF worker[r] \in {"finished", "failed"} THEN "none" ELSE worker[r]
    <2>1. worker' = [worker EXCEPT ![r] = w] /\ w \in WorkerStates
        BY <1>1, <1>4 DEF StopListening, PermitInv, WorkerStates
    <2>2. Tied(kind[r], DroppedByHandler(r), w, c)
        BY <1>1 DEF Tied, DroppedByHandler
    <2>3. StepTo(r, DroppedByHandler(r), w, c)
        BY Zenon, <1>3, <2>1, <2>2 DEF StepTo
    <2>. QED
        BY <1>2, <2>1, <2>3 DEF Step
<1>5. CASE UNCHANGED worker /\ worker[r] # "finished"
    <2>1. worker' = [worker EXCEPT ![r] = worker[r]]
        BY <1>5 DEF PermitInv
    <2>2. Tied(kind[r], DroppedByHandler(r), worker[r], c)
        BY <1>1, <1>5 DEF Tied, DroppedByHandler
    <2>3. StepTo(r, DroppedByHandler(r), worker[r], c)
        BY <1>3, <2>1, <2>2 DEF StepTo
    <2>. QED
        BY <1>1, <1>2, <2>3 DEF Step
<1>. QED
    BY <1>4, <1>5

(* A handler that moves to c and keeps what it has. *)
LEMMA Moves ==
    ASSUME PermitInv, NEW r \in Requests, NEW c \in Places,
           UNCHANGED <<permit, worker>>, pc' = [pc EXCEPT ![r] = c],
           error' \in [Requests -> Reported],
           Tied(kind[r], permit[r], worker[r], c)
    PROVE  Step(r)
<1>1. StepTo(r, permit[r], worker[r], c)
    BY Zenon DEF StepTo, PermitInv
<1>. QED
    BY <1>1 DEF Step, PermitInv

(* The permit moves into the closure of a new worker. *)
LEMMA Spawns ==
    ASSUME PermitInv, NEW r \in Requests, SpawnWorker(r), UNCHANGED error,
           permit[r] # "none" \/ PermitFree(r)
    PROVE  Step(r)
<1>1. StepTo(r, "worker", "queued", "wait")
    BY DEF StepTo, SpawnWorker, Goto, Tied, PermitInv
<1>2. "worker" \in Owners /\ "queued" \in WorkerStates /\ "wait" \in Places
    BY DEF Owners, WorkerStates, Places, Running
<1>. QED
    BY <1>1, <1>2 DEF Step

(* A permit is granted to the handler, which goes on to load its block. *)
LEMMA Acquires ==
    ASSUME PermitInv, NEW r \in Requests, PermitFree(r), pc[r] = "acquire",
           permit' = [permit EXCEPT ![r] = "handler"], Goto(r, "load"),
           UNCHANGED <<worker, error>>
    PROVE  Step(r)
<1>1. worker[r] = "none" /\ worker' = [worker EXCEPT ![r] = "none"]
    BY DEF PermitInv, Tied
<1>2. StepTo(r, "handler", "none", "load")
    BY <1>1, Zenon DEF StepTo, Goto, Tied, PermitInv
<1>3. "handler" \in Owners /\ "none" \in WorkerStates /\ "load" \in Places
    BY DEF Owners, WorkerStates, Places, Running
<1>. QED
    BY <1>2, <1>3 DEF Step

(* The worker ends: its result is w and leaves the permit with p. *)
LEMMA Delivers ==
    ASSUME PermitInv, NEW r \in Requests, NEW w \in {"finished", "failed"}, NEW p \in Owners,
           Deliver(r, w, p), UNCHANGED <<pc, error>>, worker[r] = "running",
           w = "finished" /\ kind[r] = "trace" => p = "worker"
    PROVE  Step(r)
<1>1. Tied(kind[r], permit[r], worker[r], pc[r]) /\ permit[r] = "worker"
    BY DEF PermitInv, Tied
<1>2. pc' = [pc EXCEPT ![r] = pc[r]] /\ pc[r] \in Places /\ error' \in [Requests -> Reported]
    BY Zenon DEF PermitInv
<1>3. {w, "none"} \subseteq WorkerStates /\ "none" \in Owners
    BY DEF WorkerStates, Owners
<1>4. CASE pc[r] = "wait"
    <2>1. worker' = [worker EXCEPT ![r] = w] /\ permit' = [permit EXCEPT ![r] = p]
        BY <1>4 DEF Deliver
    <2>2. StepTo(r, p, w, pc[r])
        BY <1>1, <1>2, <1>4, <2>1, Zenon DEF StepTo, Tied
    <2>. QED
        BY <1>2, <1>3, <2>2 DEF Step
<1>5. CASE pc[r] # "wait"
    <2>1. worker' = [worker EXCEPT ![r] = "none"] /\ permit' = [permit EXCEPT ![r] = "none"]
        BY <1>5 DEF Deliver
    <2>2. StepTo(r, "none", "none", pc[r])
        BY <1>1, <1>2, <2>1, Zenon DEF StepTo, Tied
    <2>. QED
        BY <1>2, <1>3, <2>2 DEF Step
<1>. QED
    BY <1>4, <1>5

(* The handler of a trace, up to the spawn of its worker. *)
LEMMA BeforeReplay ==
    ASSUME PermitInv, NEW r \in Requests,
           Expire(r) \/ AcquireReplayPermit(r) \/ LoadBlock(r) \/ InitialCheck(r) \/ Prepare(r)
    PROVE  Step(r)
<1>0. /\ Tied(kind[r], permit[r], worker[r], pc[r]) /\ pc[r] \in Places
      /\ pc = [pc EXCEPT ![r] = pc[r]]
    BY DEF PermitInv
<1>. {"check", "prepare", "failing"} \cup Answers \subseteq Places
    BY DEF Places, Running
<1>1. CASE Expire(r)
    BY Zenon, <1>0, <1>1, Moves DEF Expire, PermitInv
<1>2. CASE AcquireReplayPermit(r)
    <2>1. CASE Goto(r, "cancelled") /\ UNCHANGED permit
        <3>1. Tied(kind[r], permit[r], worker[r], "cancelled")
            BY ZenonT(30), <1>0 DEF Tied
        <3>. QED
            BY <1>2, <2>1, <3>1, Moves, Zenon DEF AcquireReplayPermit, Goto, PermitInv, Answers, Errors
    <2>. QED
        BY Zenon, <1>2, <2>1, Acquires DEF AcquireReplayPermit
<1>3. CASE LoadBlock(r)
    <2>1. CASE Goto(r, "check") /\ UNCHANGED <<permit, error>>
        <3>1. Tied(kind[r], permit[r], worker[r], "check")
            BY ZenonT(30), <1>0, <1>3 DEF Tied, LoadBlock, TraceRequests
        <3>. QED
            BY <1>3, <2>1, <3>1, Moves, Zenon DEF LoadBlock, Goto, PermitInv
    <2>2. ASSUME NEW a \in {"unavailable", "cancelled"}, Return(r, a)
          PROVE  Step(r)
        BY <1>0, <1>3, <2>2, Release, Zenon
        DEF LoadBlock, Return, Goto, Tied, PermitInv, Answers, Errors
    <2>. QED
        BY ZenonT(30), <1>3, <2>1, <2>2 DEF LoadBlock
<1>4. CASE InitialCheck(r)
    <2>1. CASE Goto(r, "prepare") /\ UNCHANGED <<permit, error>>
        <3>1. Tied(kind[r], permit[r], worker[r], "prepare")
            BY <1>0, <1>4 DEF Tied, InitialCheck
        <3>. QED
            BY <1>4, <2>1, <3>1, Moves, Zenon DEF InitialCheck, Goto, PermitInv
    <2>2. ASSUME NEW a \in {"unavailable", "reorged"}, Return(r, a)
          PROVE  Step(r)
        BY <1>0, <1>4, <2>2, Release, Zenon
        DEF InitialCheck, Return, Goto, Tied, PermitInv, Answers, Errors
    <2>3. AssertCanonical(r) # "canonical" => AssertCanonical(r) \in {"unavailable", "reorged"}
        BY Zenon DEF AssertCanonical
    <2>. QED
        BY Zenon, <1>4, <2>1, <2>2, <2>3 DEF InitialCheck
<1>5. CASE Prepare(r)
    <2>1. CASE SpawnWorker(r) /\ UNCHANGED error
        BY <1>0, <1>5, <2>1, Spawns DEF Prepare, Tied
    <2>2. ASSUME NEW e \in {"mismatch", "unavailable"}, Fail(r, e), UNCHANGED worker
          PROVE  Step(r)
        BY <1>0, <1>5, <2>2, Release, Zenon
        DEF Prepare, Fail, Goto, Tied, PermitInv, Answers, Errors, Reported
    <2>. QED
        BY <1>5, <2>1, <2>2 DEF Prepare
<1>. QED
    BY <1>1, <1>2, <1>3, <1>4, <1>5

(* The handler of a trace, once its worker runs. *)
LEMMA AfterReplay ==
    ASSUME PermitInv, NEW r \in Requests,
           DeadlineFires(r) \/ ReceiveReplay(r) \/ FinalCheck(r) \/ PreferReorgError(r)
    PROVE  Step(r)
<1>0. Tied(kind[r], permit[r], worker[r], pc[r]) /\ error[r] \in Reported
    BY DEF PermitInv
<1>. Errors = {"cancelled", "unavailable", "mismatch", "reorged"}
    BY DEF Errors
<1>. {"final", "failing", "cancelled", "reorged", "ok", "mismatch", "unavailable"} \subseteq Places
    BY DEF Places, Running, Answers, Errors
<1>1. CASE DeadlineFires(r)
    BY <1>1, Release, Zenon DEF DeadlineFires, Fail, Goto, PermitInv, Reported
<1>2. CASE ReceiveReplay(r)
    <2>1. CASE worker[r] = "finished" /\ permit' = [permit EXCEPT ![r] = "handler"]
               /\ Goto(r, "final") /\ UNCHANGED error
        <3>1. permit[r] = "worker"
            BY Zenon, <1>0, <1>2, <2>1 DEF Tied, ReceiveReplay, TraceRequests
        <3>2. StepTo(r, "handler", "none", "final")
            BY <1>2, <2>1, <3>1 DEF ReceiveReplay, StepTo, Goto, Tied, PermitInv
        <3>. QED
            BY Zenon, <3>2 DEF Step, Owners, WorkerStates
    <2>2. ASSUME NEW e \in {"mismatch", "unavailable"}, worker[r] = "failed", Fail(r, e)
          PROVE  Step(r)
        <3>1. StopListening(r)
            BY ZenonT(30), <1>2, <2>2 DEF ReceiveReplay, StopListening
        <3>. QED
            BY <2>2, <3>1, Release, Zenon DEF Fail, Goto, PermitInv, Reported
    <2>. QED
        BY ZenonT(30), <1>2, <2>1, <2>2 DEF ReceiveReplay
<1>3. CASE FinalCheck(r)
    <2>1. worker[r] # "finished" /\ UNCHANGED worker
        BY ZenonT(30), <1>0, <1>3 DEF FinalCheck, Tied
    <2>2. ASSUME NEW e \in {"cancelled", "unavailable", "reorged"}, Fail(r, e) PROVE Step(r)
        BY <2>1, <2>2, Release, Zenon DEF Fail, Goto, PermitInv, Reported
    <2>3. CASE Return(r, "ok")
        BY <2>1, <2>3, Release, Zenon DEF Return, Goto, PermitInv
    <2>4. AssertCanonical(r) # "canonical" => AssertCanonical(r) \in {"unavailable", "reorged"}
        BY Zenon DEF AssertCanonical
    <2>. QED
        BY ZenonT(30), <1>3, <2>2, <2>3, <2>4 DEF FinalCheck
<1>4. CASE PreferReorgError(r)
    <2>. DEFINE c == IF AssertCanonical(r) = "reorged" THEN "reorged" ELSE error[r]
    <2>1. pc' = [pc EXCEPT ![r] = c] /\ c \in Places /\ UNCHANGED <<permit, worker, error>>
        BY Zenon, <1>0, <1>4 DEF PreferReorgError, Goto, Places, Reported
    <2>2. Tied(kind[r], permit[r], worker[r], c)
        BY Zenon, <1>0, <1>4 DEF Tied, PreferReorgError, Reported, Errors
    <2>. QED
        BY <2>1, <2>2, Moves, Zenon DEF PermitInv
<1>. QED
    BY <1>1, <1>2, <1>3, <1>4

(* The handlers of witnesses and proofs. *)
LEMMA OtherHandlers ==
    ASSUME PermitInv, NEW r \in Requests,
           \/ ResolveWitnessState(r) \/ SpawnWitness(r)
           \/ AcquireProofPermit(r) \/ ResolveProofState(r) \/ ReceiveBlocking(r)
    PROVE  Step(r)
<1>0. Tied(kind[r], permit[r], worker[r], pc[r])
    BY DEF PermitInv
<1>. {"acquire", "ok", "mismatch", "unavailable"} \subseteq Places
    BY DEF Places, Running, Answers, Errors
<1>1. CASE ResolveWitnessState(r)
    <2>1. ASSUME NEW c \in {"acquire", "unavailable"}, Goto(r, c) PROVE Step(r)
        <3>1. Tied(kind[r], permit[r], worker[r], c)
            BY Zenon, <1>0, <1>1 DEF Tied, ResolveWitnessState
        <3>. QED
            BY <1>1, <2>1, <3>1, Moves, ZenonT(30) DEF ResolveWitnessState, Goto, PermitInv
    <2>. QED
        BY <1>1, <2>1 DEF ResolveWitnessState
<1>2. CASE SpawnWitness(r)
    BY <1>2, Spawns DEF SpawnWitness
<1>3. CASE AcquireProofPermit(r)
    BY <1>3, Acquires, Zenon DEF AcquireProofPermit
<1>4. CASE ResolveProofState(r)
    <2>1. CASE SpawnWorker(r) /\ UNCHANGED error
        BY Zenon, <1>0, <1>4, <2>1, Spawns DEF ResolveProofState, ProofRequests, Tied
    <2>2. CASE Return(r, "unavailable") /\ UNCHANGED worker
        BY <1>0, <1>4, <2>2, Release, Zenon DEF ResolveProofState, Return, Goto, Tied, PermitInv
    <2>. QED
        BY Zenon, <1>4, <2>1, <2>2 DEF ResolveProofState
<1>5. CASE ReceiveBlocking(r)
    <2>. DEFINE c == IF worker[r] = "finished" THEN "ok" ELSE "mismatch"
    <2>1. /\ pc' = [pc EXCEPT ![r] = c] /\ c \in Places
          /\ worker' = [worker EXCEPT ![r] = "none"] /\ UNCHANGED <<permit, error>>
        BY <1>5 DEF ReceiveBlocking, Goto
    <2>2. StepTo(r, permit[r], "none", c)
        BY <2>1 DEF StepTo, Tied, PermitInv
    <2>. QED
        BY <2>1, <2>2 DEF Step, PermitInv, WorkerStates
<1>. QED
    BY <1>1, <1>2, <1>3, <1>4, <1>5

(* The workers and the client. *)
LEMMA WorkersAndClient ==
    ASSUME PermitInv, NEW r \in Requests, WorkerStep(r) \/ Disconnect(r)
    PROVE  Step(r)
<1>0. Tied(kind[r], permit[r], worker[r], pc[r]) /\ pc[r] \in Places /\ permit[r] \in Owners
    BY DEF PermitInv
<1>. {"none", "worker"} \subseteq Owners /\ "running" \in WorkerStates /\ "gone" \in Places
    BY DEF Owners, WorkerStates, Places, Answers
<1>1. CASE WorkerStarts(r)
    <2>1. StepTo(r, permit[r], "running", pc[r])
        BY Zenon, <1>0, <1>1 DEF WorkerStarts, StepTo, Tied, PermitInv
    <2>. QED
        BY Zenon, <1>0, <2>1 DEF Step
<1>2. CASE WorkerStage(r)
    <2>1. CASE UNCHANGED <<worker, permit>>
        <3>1. pc' = [pc EXCEPT ![r] = pc[r]] /\ error' \in [Requests -> Reported]
            BY Zenon, <1>2 DEF WorkerStage, PermitInv
        <3>. QED
            BY <1>0, <2>1, <3>1, Moves, Zenon
    <2>2. CASE Deliver(r, "failed", "none")
        BY ZenonT(30), <1>2, <2>2, Delivers DEF WorkerStage
    <2>. QED
        BY Zenon, <1>2, <2>1, <2>2 DEF WorkerStage
<1>3. CASE WorkerFinishes(r)
    <2>1. CASE kind[r] = "trace" /\ Deliver(r, "finished", "worker")
        BY ZenonT(30), <1>3, <2>1, Delivers DEF WorkerFinishes
    <2>2. CASE kind[r] # "trace" /\ Deliver(r, "finished", "none")
        BY ZenonT(30), <1>3, <2>2, Delivers DEF WorkerFinishes
    <2>. QED
        BY ZenonT(30), <1>3, <2>1, <2>2 DEF WorkerFinishes, TraceRequests
<1>4. CASE Disconnect(r)
    BY <1>4, Release, Zenon DEF Disconnect, Goto, PermitInv
<1>. QED
    BY <1>1, <1>2, <1>3, <1>4 DEF WorkerStep

LEMMA NextPermit == PermitInv /\ [Next]_vars => PermitInv'
<1>. SUFFICES ASSUME PermitInv, [Next]_vars PROVE PermitInv'
    OBVIOUS
<1>1. ASSUME NEW r \in Requests, kind' = kind,
             Expire(r) \/ HandlerStep(r) \/ WorkerStep(r) \/ Disconnect(r)
      PROVE  PermitInv'
    <2>1. Step(r)
        BY <1>1, BeforeReplay, AfterReplay, OtherHandlers, WorkersAndClient DEF HandlerStep
    <2>. QED
        BY <1>1, <2>1, StepPreserves
<1>2. CASE ((Reorg \/ LookupChanges) /\ UNCHANGED kind) \/ UNCHANGED vars
    <2>1. UNCHANGED <<kind, permit, worker, pc, error>>
        BY <1>2 DEF Reorg, LookupChanges, vars
    <2>. QED
        BY <2>1, Zenon DEF PermitInv, Holders, Capacity
<1>. QED
    BY <1>1, <1>2 DEF Next

(* The work in progress of each kind, that of abandoned requests included,  *)
(* never exceeds the capacity of its semaphore (DebankTraceExt,             *)
(* execution_witness_for_block, get_proof), for any number of requests and  *)
(* any capacities.                                                          *)
THEOREM WorkIsBounded == Spec => []WorkBounded
<1>1. PermitInv => WorkBounded
    <2>. SUFFICES ASSUME PermitInv, NEW k \in Kinds
                  PROVE  Cardinality({r \in Requests :
                             /\ kind[r] = k
                             /\ \/ worker[r] \in {"queued", "running"}
                                \/ k = "trace" /\ worker[r] = "finished"}) <= Capacity(k)
        BY DEF WorkBounded
    <2>. DEFINE W == {r \in Requests :
                         /\ kind[r] = k
                         /\ \/ worker[r] \in {"queued", "running"}
                            \/ k = "trace" /\ worker[r] = "finished"}
    <2>1. W \subseteq Holders(k) /\ W \in SUBSET Requests /\ Holders(k) \in SUBSET Requests
        BY DEF Holders, PermitInv, Tied
    <2>. QED
        BY ZenonT(30), <2>1, CapacityIsNat, SmallerFits DEF PermitInv
<1>. QED
    BY <1>1, InitPermit, NextPermit, PTL DEF Spec

(* What a step may answer a trace: the two clauses of AnswerKnowsReorg. *)
Knows(r) ==
    /\ pc'[r] = "ok" /\ pc[r] # "ok" => lookup /\ canonical = target[r]
    /\ pc[r] = "failing" /\ pc'[r] \in Answers /\ lookup /\ canonical # target[r]
          => pc'[r] = "reorged"

(* A handler that stays where it is answers nothing. *)
LEMMA SilentKnows ==
    ASSUME NEW r \in Requests, pc'[r] = pc[r]
    PROVE  Knows(r)
BY DEF Knows, Answers, Errors

(* A handler that moves without failing before, and not to Ok. *)
LEMMA MoveKnows ==
    ASSUME PermitInv, NEW r \in Requests, NEW c, Goto(r, c), c # "ok", pc[r] # "failing"
    PROVE  Knows(r)
BY DEF Knows, Goto, PermitInv

(* The steps of the request r itself: only FinalCheck and PreferReorgError, *)
(* which read the canonical hash in the same step, end a resolved trace.    *)
LEMMA OwnStepKnows ==
    ASSUME PermitInv, NEW r \in Requests, r \in TraceRequests,
           Expire(r) \/ HandlerStep(r) \/ WorkerStep(r) \/ Disconnect(r)
    PROVE  Knows(r)
<1>1. kind[r] = "trace" /\ error[r] \in Reported
    BY Zenon DEF TraceRequests, PermitInv
<1>2. CASE Expire(r) \/ WorkerStep(r)
    BY Zenon, <1>2, SilentKnows DEF Expire, WorkerStep, WorkerStarts, WorkerStage, WorkerFinishes
<1>3. CASE AcquireReplayPermit(r)
    BY Zenon, <1>3, MoveKnows DEF AcquireReplayPermit
<1>4. CASE LoadBlock(r)
    BY <1>4, MoveKnows DEF LoadBlock, Return
<1>5. CASE InitialCheck(r)
    <2>1. AssertCanonical(r) # "ok"
        BY Zenon DEF AssertCanonical
    <2>. QED
        BY Zenon, <1>5, <2>1, MoveKnows DEF InitialCheck, Return
<1>6. CASE Prepare(r)
    BY Zenon, <1>6, MoveKnows DEF Prepare, SpawnWorker, Fail
<1>7. CASE DeadlineFires(r)
    BY Zenon, <1>7, MoveKnows DEF DeadlineFires, Fail
<1>8. CASE ReceiveReplay(r)
    BY Zenon, <1>8, MoveKnows DEF ReceiveReplay, Fail
<1>9. CASE FinalCheck(r)
    <2>1. ASSUME NEW e, Fail(r, e) PROVE Knows(r)
        BY Zenon, <1>9, <2>1, MoveKnows DEF FinalCheck, Fail
    <2>2. CASE AssertCanonical(r) = "canonical" /\ Return(r, "ok")
        <3>1. lookup /\ canonical = target[r]
            BY Zenon, <2>2 DEF AssertCanonical
        <3>. QED
            BY Zenon, <1>9, <3>1 DEF FinalCheck, Knows
    <2>. QED
        BY Zenon, <1>9, <2>1, <2>2 DEF FinalCheck
<1>10. CASE PreferReorgError(r)
    <2>1. pc'[r] = IF AssertCanonical(r) = "reorged" THEN "reorged" ELSE error[r]
        BY Zenon, <1>10 DEF PreferReorgError, Goto, PermitInv
    <2>2. pc'[r] # "ok"
        BY Zenon, <1>1, <2>1 DEF Reported, Errors
    <2>. QED
        BY <2>1, <2>2 DEF Knows, AssertCanonical
<1>11. CASE Disconnect(r)
    BY Zenon, <1>11, MoveKnows DEF Disconnect
<1>12. ~(\/ ResolveWitnessState(r) \/ SpawnWitness(r)
         \/ AcquireProofPermit(r) \/ ResolveProofState(r) \/ ReceiveBlocking(r))
    BY Zenon, <1>1 DEF ResolveWitnessState, SpawnWitness, AcquireProofPermit, ResolveProofState,
                ReceiveBlocking, TraceRequests, WitnessRequests, ProofRequests
<1>. QED
    BY Zenon, <1>2, <1>3, <1>4, <1>5, <1>6, <1>7, <1>8, <1>9, <1>10, <1>11, <1>12 DEF HandlerStep

(* A trace is answered Ok only in a step in which the provider says that    *)
(* the block it resolved is canonical, and one that fails while it is not    *)
(* says so, unless the provider fails in that check (assert_canonical,       *)
(* prefer_reorg_error), for any number of requests and reorgs.               *)
THEOREM AnswersKnowReorgs == Spec => AnswerKnowsReorg
<1>. DEFINE A == \A r \in TraceRequests :
        /\ pc'[r] = "ok" /\ pc[r] # "ok" => lookup /\ canonical = target[r]
        /\ pc[r] = "failing" /\ pc'[r] \in Answers /\ lookup /\ canonical # target[r]
              => pc'[r] = "reorged"
<1>1. PermitInv /\ [Next]_vars => [A]_vars
    <2>. SUFFICES ASSUME PermitInv, Next, NEW r \in Requests, r \in TraceRequests
                  PROVE  Knows(r)
        BY DEF Knows, TraceRequests
    <2>1. CASE Reorg \/ LookupChanges
        BY <2>1, SilentKnows DEF Reorg, LookupChanges
    <2>2. ASSUME NEW q \in Requests, q # r,
                 Expire(q) \/ HandlerStep(q) \/ WorkerStep(q) \/ Disconnect(q)
          PROVE  Knows(r)
        <3>1. Step(q)
            BY Zenon, <2>2, BeforeReplay, AfterReplay, OtherHandlers, WorkersAndClient DEF HandlerStep
        <3>2. pc'[r] = pc[r]
            BY <2>2, <3>1 DEF Step, StepTo, PermitInv
        <3>. QED
            BY <3>2, SilentKnows
    <2>. QED
        BY <2>1, <2>2, OwnStepKnows DEF Next
<1>. QED
    BY <1>1, InitPermit, NextPermit, PTL DEF Spec, AnswerKnowsReorg
=============================================================================
