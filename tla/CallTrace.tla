------------------------------- MODULE CallTrace -------------------------------
(***************************************************************************)
(* What the replay worker does with each transaction of a block: two          *)
(* inspectors watch the EVM, and the formatter turns what they saw into the    *)
(* block file (crates/rpc/src/geth_error.rs, crates/rpc/src/debank.rs and the   *)
(* transaction loop of replay_output in crates/rpc/src/trace.rs).              *)
(*                                                                          *)
(* The EVM is the environment.  It opens and closes call and create frames,    *)
(* runs opcodes in them, and journals the logs; a frame that does not succeed   *)
(* takes the logs of its whole subtree with it.  TracingInspector records the   *)
(* frames in an arena; GethErrorInspector is a sidecar that records, by arena   *)
(* index, the error texts REVM does not keep.  Texts are named by what they     *)
(* are about, logs are numbered in emission order.                             *)
(***************************************************************************)
EXTENDS Naturals, Sequences, FiniteSets, SequencesExt

CONSTANTS MaxTxs,      \* transactions of the block
          MaxFrames,   \* bound: frames opened in the block
          MaxOps,      \* bound: LOG and SSTORE opcodes in the block
          MaxExotic,   \* bound: delegate and code calls, creates, precompiles and halts in the block
          None         \* no value

VARIABLES arena,     \* nodes of the current transaction, in callback order
          stack,     \* arena positions of the open frames, outermost first
          journal,   \* logs of the current transaction that are not reverted
          marks,     \* journal length at the start of each open frame
          sidecar,   \* GethErrorInspector
          captured,  \* PrecompileErrorCapture: typed halts awaiting their call_end
          receipts,  \* logs of each committed transaction
          events,    \* events of the formatted transactions, in array order
          file,      \* the arrays of the transaction formatted last, with its arena
          logIndex,  \* log_index: next index of a surviving log
          budget,    \* what is left of each bound
          phase      \* "next", "run", "format", "done" or "failed"

vars == <<arena, stack, journal, marks, sidecar, captured, receipts, events, file, logIndex, budget, phase>>

Init ==
    /\ arena = <<>> /\ stack = <<>> /\ journal = <<>> /\ marks = <<>>
    /\ sidecar = [frames |-> <<>>, errors |-> <<>>, pending |-> None, fault |-> None]
    /\ captured = <<>>
    /\ receipts = <<>> /\ events = <<>> /\ file = None /\ logIndex = 0
    /\ budget = [frames |-> MaxFrames, ops |-> MaxOps, exotic |-> MaxExotic]
    /\ phase = "next"

-----------------------------------------------------------------------------
(* GethErrorInspector, as functions of its state.                           *)

RecordFault(sc, what) == IF sc.fault = None THEN [sc EXCEPT !.fault = what] ELSE sc

\* Mutant: StartFrame that numbers frames by depth and not by callback order.
StartFrameByDepth(sc) ==
    [sc EXCEPT !.errors = Append(@, None),
               !.frames = Append(@, [node |-> Len(sc.frames) + 1, exact |-> None])]

StartFrame(sc) ==
    LET checked == IF sc.pending # None THEN RecordFault(sc, "frame before step_end") ELSE sc IN
    [checked EXCEPT !.errors = Append(@, None),
                    !.frames = Append(@, [node |-> Len(sc.errors) + 1, exact |-> None])]

InspectStep(sc, precheck, dynamic) ==
    CASE sc.frames = <<>> -> RecordFault(sc, "step without a frame")
      [] sc.frames # <<>> /\ sc.pending # None -> RecordFault(sc, "step before step_end")
      [] OTHER -> [sc EXCEPT !.pending = [precheck |-> precheck,
                                          dynamic |-> IF precheck = None THEN dynamic ELSE None]]

\* Puts an exact error on the innermost frame, which may have only one.
Attach(sc, text) ==
    LET n == Len(sc.frames)
        put == [sc EXCEPT !.frames[n].exact = text] IN
    IF sc.frames[n].exact = None THEN put ELSE RecordFault(put, "two terminal errors")

IsHalt(result) == result \notin {"continue", "ok", "selfdestruct", "revert"}
RequiresExactError(result) == result \in {"stack", "precompile"}

InspectStepEnd(sc, result) ==
    LET taken == [sc EXCEPT !.pending = None]
        exact == CASE sc.pending.precheck # None -> sc.pending.precheck
                   [] sc.pending.precheck = None /\ result = "oog" -> sc.pending.dynamic
                   [] OTHER -> None IN
    CASE sc.pending = None -> RecordFault(sc, "step_end without step")
      [] sc.pending # None /\ exact # None /\ ~IsHalt(result) -> RecordFault(taken, "no halt")
      [] sc.pending # None /\ exact # None /\ IsHalt(result) -> Attach(taken, exact)
      [] sc.pending # None /\ exact = None /\ RequiresExactError(result) ->
            RecordFault(taken, "lost context")
      [] OTHER -> taken

\* geth_precompile_error has a text for some typed halts and refuses the others.
GethPrecompileError(halt) == IF halt = "unmapped" THEN None ELSE halt

\* inspect_precompile_error: the oldest captured halt belongs to the ending frame.
InspectPrecompileError(sc, queue) ==
    CASE queue = <<>> -> RecordFault(sc, "no typed halt")
      [] queue # <<>> /\ GethPrecompileError(Head(queue)) = None -> RecordFault(sc, "unmapped halt")
      [] OTHER -> Attach(sc, GethPrecompileError(Head(queue)))

EndFrame(sc, result) ==
    LET n == Len(sc.frames)
        top == sc.frames[n]
        a == IF sc.pending # None
             THEN [RecordFault(sc, "end before step_end") EXCEPT !.pending = None] ELSE sc
        b == IF top.exact # None /\ ~IsHalt(result) THEN RecordFault(a, "error without halt") ELSE a
        c == IF top.exact = None /\ RequiresExactError(result)
             THEN RecordFault(b, "halt without context") ELSE b IN
    [c EXCEPT !.frames = SubSeq(@, 1, n - 1), !.errors[top.node] = top.exact]

\* finish_transaction: the verdict, and the state the next transaction inherits.
FinishVerdict(sc, queue, nodes) ==
    /\ sc.fault = None /\ sc.pending = None /\ sc.frames = <<>>
    /\ Len(sc.errors) = nodes /\ queue = <<>>

FinishTransaction(sc) == [frames |-> <<>>, errors |-> <<>>, pending |-> None, fault |-> None]

-----------------------------------------------------------------------------
(* The EVM and TracingInspector.                                            *)

Top == stack[Len(stack)]

NewNode(kind, parent) ==
    [parent |-> parent, kind |-> kind, status |-> None, cause |-> None, sstore |-> FALSE,
     logs |-> <<>>, children |-> <<>>, ordering |-> <<>>]

\* The arena with a new child of the open frame (or the root), and its position.
WithFrame(kind) ==
    LET n == Len(arena) + 1
        parent == IF stack = <<>> THEN None ELSE Top IN
    IF parent = None THEN <<NewNode(kind, None)>>
    ELSE Append([arena EXCEPT ![parent].children = Append(@, n),
                              ![parent].ordering = Append(@, [of |-> "call",
                                  at |-> Len(arena[parent].children) + 1])],
                NewNode(kind, parent))

\* Spends one frame, and one exotic unless the frame is a plain call.
Spend(frames, ops, exotic) ==
    /\ budget.frames >= frames /\ budget.ops >= ops /\ budget.exotic >= exotic
    /\ budget' = [frames |-> budget.frames - frames, ops |-> budget.ops - ops,
                  exotic |-> budget.exotic - exotic]

Kinds == {"call", "delegatecall", "callcode", "create"}

\* CallKind::is_delegate: the frame runs the code of the account it names on the
\* storage of the account that calls.
IsDelegate(kind) == kind \in {"delegatecall", "callcode"}

\* An opcode that completes: step and step_end with nothing to report.
PlainStep(sc) == InspectStepEnd(InspectStep(sc, None, None), "continue")

\* A frame is opened: the transaction's own, or by a CALL or CREATE opcode,
\* whose step_end precedes the call or create callback.
OpenFrame(kind) ==
    /\ \/ phase = "next" /\ Len(receipts) < MaxTxs /\ ~IsDelegate(kind)
       \/ phase = "run"
    /\ phase' = "run"
    /\ Spend(1, 0, IF kind = "call" THEN 0 ELSE 1)
    /\ arena' = WithFrame(kind)
    /\ stack' = Append(stack, Len(arena) + 1)
    /\ marks' = Append(marks, Len(journal))
    /\ sidecar' = StartFrame(IF phase = "run" THEN PlainStep(sidecar) ELSE sidecar)
    /\ file' = None
    /\ UNCHANGED <<journal, captured, receipts, events, logIndex>>

\* Logs of the whole block are numbered in the order they are emitted.
Emitted == MaxOps - budget.ops

EmitLog ==
    /\ phase = "run"
    /\ Spend(0, 1, 0)
    /\ journal' = Append(journal, Emitted)
    /\ arena' = [arena EXCEPT ![Top].logs = Append(@, Emitted),
                              ![Top].ordering = Append(@, [of |-> "log",
                                                           at |-> Len(arena[Top].logs) + 1])]
    /\ sidecar' = PlainStep(sidecar)
    /\ UNCHANGED <<stack, marks, captured, receipts, events, file, logIndex, phase>>

StoreSlot ==
    /\ phase = "run"
    /\ ~arena[Top].sstore
    /\ Spend(0, 1, 0)
    /\ arena' = [arena EXCEPT ![Top].sstore = TRUE]
    /\ sidecar' = PlainStep(sidecar)
    /\ UNCHANGED <<stack, journal, marks, captured, receipts, events, file, logIndex, phase>>

Succeeds(status) == status \in {"ok", "selfdestruct"}

\* The frame's end in the EVM: a failing frame's logs leave the journal.
CloseTop(status, cause) ==
    /\ arena' = [arena EXCEPT ![Top].status = status, ![Top].cause = cause]
    /\ journal' = IF Succeeds(status) THEN journal ELSE SubSeq(journal, 1, marks[Len(marks)])
    /\ stack' = Front(stack)
    /\ marks' = Front(marks)
    /\ phase' = IF Len(stack) = 1 THEN "format" ELSE "run"

\* geth_precheck_error: an undefined or inactive opcode, or a stack that does
\* not fit the opcode.  geth_dynamic_call_error: an unpaid cold call target.
Prechecks == {None, "bad opcode"}
Dynamics == {None, "cold target"}

\* How an opcode can end its frame.  REVM charges static gas before it looks at
\* the stack, so an opcode that fails the precheck may also run out of gas.
Terminations ==
    {t \in [status : {"ok", "selfdestruct", "revert", "oog", "stack", "halt"},
            precheck : Prechecks, dynamic : Dynamics] :
        /\ t.precheck # None => t.status \in {"oog", "stack"} /\ t.dynamic = None
        /\ t.precheck = None => t.status # "stack"
        /\ t.dynamic # None => t.status = "oog"}

\* The truth about a termination: the exact text Geth reports for it, if any.
CauseOf(t) == IF t.precheck # None THEN t.precheck ELSE t.dynamic

CloseFrame(t) ==
    /\ phase = "run"
    /\ Spend(0, 0, IF t.status \in {"ok", "revert"} THEN 0 ELSE 1)
    /\ CloseTop(t.status, CauseOf(t))
    /\ sidecar' = EndFrame(InspectStepEnd(InspectStep(sidecar, t.precheck, t.dynamic), t.status),
                           t.status)
    /\ UNCHANGED <<captured, receipts, events, file, logIndex>>

\* A create whose initcode returns but whose code deposit cannot be paid.
FailDeposit ==
    /\ phase = "run"
    /\ arena[Top].kind = "create"
    /\ Spend(0, 0, 1)
    /\ CloseTop("deposit", None)
    /\ sidecar' = EndFrame(InspectStepEnd(InspectStep(sidecar, None, None), "ok"), "oog")
    /\ UNCHANGED <<captured, receipts, events, file, logIndex>>

\* A call whose frame runs no opcode: to a precompile, or refused for its depth
\* or balance.  The precompile wrapper captures a typed halt unless it is for gas.
LeafCall(outcome) ==
    /\ phase = "run"
    /\ Spend(1, 0, 1)
    /\ LET halt == outcome \in {"mapped", "unmapped"}
           status == IF halt THEN "precompile" ELSE outcome
           queue == IF halt THEN Append(captured, outcome) ELSE captured
           opened == StartFrame(PlainStep(sidecar))
           n == Len(arena) + 1 IN
       /\ arena' = [WithFrame("call") EXCEPT ![n].status = status,
                                             ![n].cause = IF halt THEN outcome ELSE None]
       /\ sidecar' = EndFrame(IF halt THEN InspectPrecompileError(opened, queue) ELSE opened, status)
       /\ captured' = IF halt THEN Tail(queue) ELSE queue
    /\ UNCHANGED <<stack, journal, marks, receipts, events, file, logIndex, phase>>

LeafOutcomes == {"ok", "oog", "mapped", "unmapped", "depth"}

-----------------------------------------------------------------------------
(* The formatter.                                                           *)

\* The error of trace_from_node: the sidecar's text, the code-deposit text, or
\* format_error of the status; "" is no error.
TraceError(node, exact) ==
    IF exact # None THEN exact ELSE IF Succeeds(node.status) THEN "" ELSE node.status

\* trace_from_node refuses a node whose text only the sidecar could supply.
TraceFormattable(node, exact) ==
    node.status # None /\ (RequiresExactError(node.status) => exact # None)

\* validate_trace_arena: one tree, rooted at the first node, every child and log
\* ordered exactly once.
ReachedFrom(nodes, start) ==
    FoldLeft(LAMBDA reached, i : reached \cup UNION {Range(nodes[n].children) : n \in reached},
             start, nodes)

ValidateTraceArena(nodes) ==
    /\ nodes # <<>> /\ nodes[1].parent = None
    /\ \A n \in DOMAIN nodes :
        /\ nodes[n].status # None
        /\ \A p \in DOMAIN nodes[n].children : nodes[nodes[n].children[p]].parent = n
        /\ \A p \in DOMAIN nodes[n].children :
              Cardinality({i \in DOMAIN nodes[n].ordering :
                              nodes[n].ordering[i] = [of |-> "call", at |-> p]}) = 1
        /\ \A p \in DOMAIN nodes[n].logs :
              Cardinality({i \in DOMAIN nodes[n].ordering :
                              nodes[n].ordering[i] = [of |-> "log", at |-> p]}) = 1
    /\ ReachedFrom(nodes, {1}) = DOMAIN nodes

\* A log member of a frame; only a log that survives takes an index.
LogMember(node, m, id, pos, survives, idx) ==
    [of |-> "log", log |-> node.logs[m.at], id |-> Append(id, pos),
     idx |-> IF survives THEN idx ELSE 0]

\* PARENT_CALL_FAILED_ERROR.
ParentCallFailed == "parent call failed"

\* Mutant of Effective: the frames around it are not asked.
EffectiveAlone(ancestorsOk, ok) == ok

\* A frame takes effect if it and every frame around it succeeded.
Effective(ancestorsOk, ok) == ancestorsOk /\ ok

\* Mutant of FrameError: only its own error is reported.
OwnErrorOnly(own, ok, ancestorsOk) == own

\* A frame that succeeded inside a failed one is reported as failed by it.
FrameError(own, ok, ancestorsOk) ==
    IF ok /\ ~ancestorsOk /\ own = "" THEN ParentCallFailed ELSE own

\* Whether a child's storage change counts for the frame that called it.
ChangeCounts(child) == child.change /\ child.ok

\* build_node: the projected tree of node n, and log_index after it.  debank_id
\* hashes the transaction, the parent's id and the position: the id is that path.
RECURSIVE BuildNode(_, _, _, _, _, _, _, _, _)
BuildNode(nodes, exact, n, parentId, pos, ancestorsOk, address, caller, idx) ==
    LET node == nodes[n]
        ok == Succeeds(node.status)
        effective == Effective(ancestorsOk, ok)
        own == TraceError(node, exact[n])
        error == FrameError(own, ok, ancestorsOk)
        id == Append(parentId, pos)
        executes == IF IsDelegate(node.kind) THEN caller ELSE n
        Add(acc, m) ==
            IF m.of = "log"
            THEN [acc EXCEPT
                    !.members = Append(@, LogMember(node, m, id, Len(acc.members), effective, acc.idx)),
                    !.idx = IF effective THEN @ + 1 ELSE @]
            ELSE LET child == BuildNode(nodes, exact, node.children[m.at], id, Len(acc.members),
                                        effective, Append(address, m.at - 1), executes, acc.idx) IN
                 [members |-> Append(acc.members, child.trace),
                  idx |-> child.idx,
                  change |-> acc.change \/ ChangeCounts(child.trace)]
        body == FoldLeft(Add, [members |-> <<>>, idx |-> idx, change |-> node.sstore], node.ordering)
        suicide ==
            [of |-> "trace", node |-> n, id |-> Append(id, Len(body.members)),
             address |-> Append(address, Len(node.children)), kind |-> "suicide",
             error |-> IF effective THEN "" ELSE ParentCallFailed,
             ok |-> TRUE, effective |-> effective, self |-> FALSE, change |-> FALSE,
             from |-> executes, to |-> 0, members |-> <<>>] IN
    [trace |-> [of |-> "trace", node |-> n, id |-> id, address |-> address, kind |-> node.kind,
                error |-> error, ok |-> ok, effective |-> effective, self |-> node.sstore,
                change |-> body.change, from |-> caller,
                to |-> IF node.kind = "create" /\ own # "" THEN 0 ELSE n,
                members |-> IF node.status = "selfdestruct" THEN Append(body.members, suicide)
                                                            ELSE body.members],
     idx |-> body.idx]

Arrays == [traces |-> <<>>, errorTraces |-> <<>>, events |-> <<>>, errorEvents |-> <<>>]

AppendTrace(arrays, trace) ==
    IF trace.effective THEN [arrays EXCEPT !.traces = Append(@, trace)]
                       ELSE [arrays EXCEPT !.errorTraces = Append(@, trace)]

\* flatten_descendants: the subtrees first, then the frame's logs, then its
\* direct children.
RECURSIVE FlattenDescendants(_, _)
FlattenDescendants(trace, arrays) ==
    LET children == SelectSeq(trace.members, LAMBDA m : m.of = "trace")
        logs == SelectSeq(trace.members, LAMBDA m : m.of = "log")
        below == FoldLeft(LAMBDA acc, c : FlattenDescendants(c, acc), arrays, children)
        withLogs == IF trace.effective THEN [below EXCEPT !.events = @ \o logs]
                                       ELSE [below EXCEPT !.errorEvents = @ \o logs] IN
    FoldLeft(AppendTrace, withLogs, children)

BuildDebankTraces(nodes, exact, idx) ==
    LET root == BuildNode(nodes, exact, 1, <<>>, 0, TRUE, <<>>, 0, idx) IN
    [arrays |-> FlattenDescendants(root.trace, AppendTrace(Arrays, root.trace)), idx |-> root.idx]

\* One turn of replay_output's loop after execute_transaction_without_commit:
\* the sidecar is finished and both inspectors are cleared, the arrays are
\* built, the transaction is committed.
FormatTransaction ==
    /\ phase = "format"
    /\ sidecar' = FinishTransaction(sidecar)
    /\ captured' = <<>>
    /\ arena' = <<>> /\ journal' = <<>>
    /\ IF /\ FinishVerdict(sidecar, captured, Len(arena))
          /\ ValidateTraceArena(arena)
          /\ \A n \in DOMAIN arena : TraceFormattable(arena[n], sidecar.errors[n])
       THEN LET built == BuildDebankTraces(arena, sidecar.errors, logIndex) IN
            /\ events' = events \o [i \in DOMAIN built.arrays.events |->
                                     [idx |-> built.arrays.events[i].idx,
                                      log |-> built.arrays.events[i].log]]
            /\ file' = [arrays |-> built.arrays, nodes |-> arena]
            /\ logIndex' = built.idx
            /\ receipts' = Append(receipts, journal)
            /\ phase' = "next"
       ELSE phase' = "failed" /\ UNCHANGED <<events, file, logIndex, receipts>>
    /\ UNCHANGED <<stack, marks, budget>>

StoredLogs == FlattenSeq(receipts)

\* validate_formatted_events: as many events as stored logs, every index in
\* range and used once, every event equal to the log it names.
ValidateFormattedEvents ==
    /\ Len(events) = Len(StoredLogs)
    /\ \A e, f \in DOMAIN events :
        /\ events[e].idx < Len(StoredLogs)
        /\ events[e].idx = events[f].idx => e = f
        /\ events[e].log = StoredLogs[events[e].idx + 1]

\* The block is complete: the block file is assembled and its events validated.
AssembleBlockFile ==
    /\ phase = "next"
    /\ receipts # <<>>
    /\ phase' = IF ValidateFormattedEvents THEN "done" ELSE "failed"
    /\ UNCHANGED <<arena, stack, journal, marks, sidecar, captured, receipts, events, file, logIndex, budget>>

Next ==
    \/ \E kind \in Kinds : OpenFrame(kind)
    \/ EmitLog
    \/ StoreSlot
    \/ \E t \in Terminations : CloseFrame(t)
    \/ FailDeposit
    \/ \E outcome \in LeafOutcomes : LeafCall(outcome)
    \/ FormatTransaction
    \/ AssembleBlockFile

Spec == Init /\ [][Next]_vars

-----------------------------------------------------------------------------
(* Properties.                                                              *)

TypeOK ==
    /\ phase \in {"next", "run", "format", "done", "failed"}
    /\ (stack # <<>>) = (phase = "run")
    /\ Len(stack) = Len(marks)
    /\ Len(events) = logIndex

\* The sidecar never loses step with the arena: when a transaction ends it has
\* one entry per node, its entry is exactly the text Geth reports for that node
\* and REVM does not keep, and it refuses the transaction only for a precompile
\* halt that has no Geth text.  Nothing of an earlier transaction is left in it
\* (GethErrorInspector::finish_transaction).
SidecarExact ==
    phase = "format" =>
        IF \E n \in DOMAIN arena : arena[n].cause = "unmapped"
        THEN sidecar.fault = "unmapped halt"
        ELSE /\ FinishVerdict(sidecar, captured, Len(arena))
             /\ \A n \in DOMAIN arena : sidecar.errors[n] = arena[n].cause

\* The surviving events of all transactions so far are the logs of the receipts,
\* each under its block-wide index: the ancestor rule of build_node and the
\* journal's rollback agree on every call tree, so that the check the worker
\* makes last (validate_formatted_events) never refuses a block.
EventsAreReceiptLogs ==
    phase = "next" => ValidateFormattedEvents /\ logIndex = Len(StoredLogs)

\* The nodes from n up to the root.
RECURSIVE Lineage(_, _)
Lineage(nodes, n) ==
    IF nodes[n].parent = None THEN {n} ELSE {n} \cup Lineage(nodes, nodes[n].parent)

Survives(nodes, n) == \A a \in Lineage(nodes, n) : Succeeds(nodes[a].status)

\* Every frame of a transaction is in exactly one of the two trace arrays, a
\* selfdestruct once more as its pseudo-frame; it is among the successful ones
\* iff no frame around it failed, and exactly those carry no error; a frame that
\* failed by itself keeps its own error and is not blamed on its parent; ids and
\* trace addresses are unique (append_trace, PARENT_CALL_FAILED_ERROR).
TracesClassified ==
    file # None =>
        LET f == file
            all == f.arrays.traces \o f.arrays.errorTraces
            good == Len(f.arrays.traces) IN
        /\ \A i \in DOMAIN all :
            /\ (i <= good) = Survives(f.nodes, all[i].node)
            /\ (i <= good) = (all[i].error = "")
            /\ (all[i].error = ParentCallFailed) =
                  (Succeeds(f.nodes[all[i].node].status) /\ i > good)
        /\ \A i, j \in DOMAIN all : i # j => all[i].id # all[j].id /\ all[i].address # all[j].address
        /\ {<<all[i].node, all[i].kind = "suicide">> : i \in DOMAIN all}
              = ((DOMAIN f.nodes) \X {FALSE})
                \cup {<<n, TRUE>> : n \in {m \in DOMAIN f.nodes : f.nodes[m].status = "selfdestruct"}}
        /\ Len(all) = Len(f.nodes)
                      + Cardinality({m \in DOMAIN f.nodes : f.nodes[m].status = "selfdestruct"})

\* The account whose storage an opcode of node n reads and writes.
RECURSIVE Executes(_, _)
Executes(nodes, n) ==
    IF IsDelegate(nodes[n].kind) THEN Executes(nodes, nodes[n].parent) ELSE n

\* Mutant of ObservedStorageContracts: every frame is listed under the account
\* it names.
ObservedByName(arrays) ==
    {t.to : t \in {u \in Range(arrays.traces) : u.self}}
    \cup {t.to : t \in {u \in Range(arrays.errorTraces) : u.self /\ u.kind # "create"}}

\* observed_storage_contracts: a DELEGATECALL stands for its caller, every other
\* frame, a CALLCODE too, for the account it names.
ObservedStorageContracts(arrays) ==
    LET owner(t) == IF t.kind = "delegatecall" THEN t.from ELSE t.to IN
    {owner(t) : t \in {u \in Range(arrays.traces) : u.self}}
    \cup {owner(t) : t \in {u \in Range(arrays.errorTraces) : u.self /\ u.kind # "create"}}

\* A frame is marked as changing storage iff it, or a frame below it that
\* succeeded together with everything in between, stored a slot.  The listed
\* contracts are, over all frames that ran an SSTORE: the account whose storage
\* it wrote, delegate calls of any depth resolved, whether or not the write
\* survived; for a create only if it survived; and for a CALLCODE the account
\* whose code ran instead of the one it wrote to.  A delegate call made by
\* initcode is no create: it lists the predicted address also when the create
\* fails (observed_storage_contracts, and its test for the CALLCODE target).
StorageFlagsExact ==
    file # None => LET f == file
                       storing(kinds) == {m \in DOMAIN f.nodes : f.nodes[m].sstore /\ f.nodes[m].kind \in kinds} IN
        /\ \A t \in Range(f.arrays.traces) \cup Range(f.arrays.errorTraces) :
            t.kind # "suicide" =>
                t.change = \E m \in storing(Kinds) :
                              /\ t.node \in Lineage(f.nodes, m)
                              /\ \A a \in Lineage(f.nodes, m) \ Lineage(f.nodes, t.node) :
                                    Succeeds(f.nodes[a].status)
        /\ ObservedStorageContracts(f.arrays) =
              {Executes(f.nodes, n) : n \in storing({"call", "delegatecall"})}
              \cup {n \in storing({"create"}) : Survives(f.nodes, n)}
              \cup storing({"callcode"})
=============================================================================
