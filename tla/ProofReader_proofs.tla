------------------------- MODULE ProofReader_proofs -------------------------
(***************************************************************************)
(* Startup, lag recovery, the live handlers, the sync loop and the pruner   *)
(* keep the window on the branch that the pending notifications lead from   *)
(* (BranchInv), when reorgs are moderate; so a settled store is canonical,  *)
(* every proof served is canonical, and the sidecar implements ProofWindow. *)
(***************************************************************************)
EXTENDS ProofReader, ProofHistorySidecar_proofs

(* Most leaves need no arithmetic: Zenon is tried unless one asks for SMT.  *)
USE Zenon

USE DEF nodeVars, chanVars, durableVars, taskVars, sharedVars

(* unwind_and_store_block_updates, from a block of the window on. *)
LEMMA SpansReplace ==
  ASSUME Sized(store), Spans(store), store.status = "done",
         NEW new \in Seq(Blocks), new # <<>>, IsChain(new),
         IsAncestor(Parent[new[1]], store.latest), UnwindAndStore(new) # NoStore
  PROVE  SpansFromTo(UnwindAndStore(new), store.earliest, Top(new))
<1>. DEFINE e == store.earliest
            p == Parent[new[1]]
            d == SubSeq(store.data, 1, Number[p] - Number[e] + 1)
<1>1. e \in Blocks /\ store.latest \in Blocks /\ Number[p] <= Number[store.latest]
  BY StoreFields DEF Sized, IsAncestor
<1>2. IsAncestor(e, store.latest) /\ store.data = Span(e, store.latest)
  BY DEF Spans
<1>3. /\ new[1] \in Blocks /\ new[1] # Genesis /\ Top(new) \in Blocks
      /\ IsAncestor(new[1], Top(new))
      /\ p \in Blocks
  BY ChainFacts
<1>4. /\ Sized(UnwindAndStore(new)) /\ Number[e] <= Number[p]
      /\ Becomes(UnwindAndStore(new), store, e, Top(new), d \o new)
  BY <1>1, ReplaceSized
<1>5. IsAncestor(e, p)
  BY <1>1, <1>2, <1>3, <1>4, AncestorsAreOnALine
<1>6. d = Span(e, p)
  <2>1. SubSeq(Span(e, store.latest), 1, Number[p] - Number[e] + 1) = Span(e, p)
    BY <1>1, <1>3, <1>5, SpanCut
  <2>. QED
    BY <1>2, <2>1
<1>. HIDE DEF d
<1>7. IsAncestor(e, Top(new)) /\ Span(e, p) \o Span(new[1], Top(new)) = Span(e, Top(new))
  <2>. DEFINE f == new[1]
              t == Top(new)
  <2>1. f \in Blocks /\ f # Genesis /\ t \in Blocks /\ IsAncestor(f, t) /\ Parent[f] = p
    BY <1>3
  <2>. HIDE DEF p, e, f, t
  <2>2. IsAncestor(e, t) /\ Span(e, p) \o Span(f, t) = Span(e, t)
    BY SMTT(30), <1>1, <1>3, <1>5, <2>1, SpanJoin
  <2>. QED
    BY <2>2 DEF f, t
<1>8. new = Span(new[1], Top(new))
  BY DEF IsChain
<1>9. d \o new = Span(e, Top(new))
  BY <1>6, <1>7, <1>8
<1>. QED
  BY <1>4, <1>7, <1>9, SpansBecomes

LEMMA ReadBranch ==
  ASSUME SidecarInv, DiskInv, NEW left \in Blocks, ChainInv(left), StartupRead
  PROVE  ChainInv(left)' /\ TipInv(left)'
<1>1. pc = "reconcile" /\ pc' = "decide"
      /\ UNCHANGED <<nodeVars, chanVars, durableVars, caller, notif, todo, sharedVars, sync>>
  BY DEF StartupRead
<1>2. ChainInv(left)'
  BY <1>1, ChainFrame
<1>3. seen'.earliest = IF store.status = "done" THEN CanonAt(Number[store.earliest]) ELSE NoBlock
  BY SMT DEF StartupRead
<1>4. seen'.earliest # NoBlock => IsAncestor(seen'.earliest, head)
  BY <1>3, InvFacts, CanonIsAncestor
<1>5. workers' => Recovering'
  BY SMT, <1>1 DEF SidecarInv, ControlOK, Recovering
<1>6. TipInv(left)'
  BY SMT, <1>1, <1>4, <1>5 DEF TipInv, On
<1>. QED
  BY <1>2, <1>6

LEMMA WaitBranch ==
  ASSUME SidecarInv, SidecarInv', NEW left \in Blocks, ChainInv(left), Wait,
         pc \in {"decide", "backfill"}
  PROVE  UNCHANGED store /\ \E l \in Blocks : ChainInv(l)' /\ TipInv(l)'
<1>1. CASE caller = "lag"
  BY <1>1, DownBranch DEF Wait, Fail
<1>2. CASE caller # "lag"
  <2>1. /\ pc' = "idle" /\ notif' = NoNotif
        /\ UNCHANGED <<nodeVars, chanVars, durableVars, sharedVars>>
    BY <1>2 DEF Wait
  <2>2. ~workers'
    BY SMT, <1>2, <2>1 DEF SidecarInv, ControlOK, Recovering
  <2>3. \A l : TipInv(l)'
    BY SMTT(30), <2>1, <2>2, TipSilent
  <2>4. head \in Blocks
    BY InvFacts
  <2>5. PICK l \in Blocks : Leads(l, head, chan, NoNotif, lagged)
    BY <2>4, LeadsDrop DEF ChainInv
  <2>6. ChainInv(l)'
    BY <2>1, <2>5 DEF ChainInv
  <2>. QED
    BY <2>1, <2>3, <2>6
<1>. QED
  BY <1>1, <1>2

(* A reconciliation that ends on the canonical chain, or on the branch that *)
(* a queued notification tells to leave.                                    *)
LEMMA ReconciledBranch ==
  ASSUME SidecarInv, NEW left \in Blocks, ChainInv(left), Reconciled \/ SpawnWorkers,
         On(store'.latest, left, head)
  PROVE  ChainInv(left)' /\ TipInv(left)'
<1>1. /\ pc' \in {"idle", "handle", "backfill", "process"} /\ pc' # "process"
      /\ UNCHANGED <<nodeVars, chanVars, notif>>
  <2>1. UNCHANGED <<nodeVars, chanVars, notif>>
    BY DEF Reconciled, SpawnWorkers
  <2>2. pc' \in {"idle", "handle", "backfill"}
    BY SMT DEF Reconciled, SpawnWorkers
  <2>. QED
    BY SMT, <2>1, <2>2
<1>2. ChainInv(left)'
  BY <1>1, ChainFrame
<1>3. On(store'.latest, left, head')
  BY <1>1
<1>4. TipInv(left)'
  BY <1>1, <1>3, TipOn
<1>. QED
  BY <1>2, <1>4

LEMMA DecideBranch ==
  ASSUME SidecarInv, SidecarInv', DiskInv, Spans(store), NEW left \in Blocks, ChainInv(left),
         TipInv(left), Decide
  PROVE  Spans(store') /\ \E l \in Blocks : ChainInv(l)' /\ TipInv(l)'
<1>0. pc = "decide" /\ Number[store.latest] \in Nat /\ Number[store.earliest] \in Nat
  BY InvFacts DEF Decide
<1>1. CASE Wait
  BY <1>0, <1>1, WaitBranch
<1>2. CASE Fail \/ RequestRebuild
  <2>1. LoseMemory /\ UNCHANGED store
    BY <1>2 DEF Fail, RequestRebuild
  <2>. QED
    BY <2>1, DownBranch
<1>3. CASE StartupAction = "ready" /\ Reconciled /\ UNCHANGED store
  <2>1. CanonAt(Number[store.latest]) = store.latest /\ CanonAt(Number[store.latest]) # NoBlock
    BY SMT, <1>3 DEF StartupAction
  <2>2. IsAncestor(store.latest, head)
    BY <1>0, <2>1, CanonIsAncestor
  <2>3. On(store'.latest, left, head)
    BY <1>3, <2>2 DEF On
  <2>. QED
    BY <1>3, <2>3, ReconciledBranch
<1>4. CASE StartupAction = "unwind" /\ Goto("unwind")
  <2>1. seen.earliest # NoBlock /\ seen.earliest = store.earliest
    BY SMT, <1>4 DEF StartupAction
  <2>2. On(store.earliest, left, head)
    BY <1>0, <2>1 DEF TipInv
  <2>3. pc' = "unwind" /\ UNCHANGED <<nodeVars, chanVars, durableVars, caller, notif, sharedVars>>
    BY <1>4 DEF Goto
  <2>4. workers' => Recovering'
    BY SMTT(30), <1>0, <2>3 DEF SidecarInv, ControlOK, Recovering
  <2>5. TipInv(left)'
    BY SMTT(30), <2>2, <2>3, <2>4 DEF TipInv
  <2>6. ChainInv(left)'
    BY <2>3, ChainFrame
  <2>. QED
    BY <2>3, <2>5, <2>6
<1>5. CASE Goto("init") /\ StartupAction = "uninitialized"
  <2>1. pc' = "init" /\ UNCHANGED <<nodeVars, chanVars, durableVars, caller, notif, sharedVars>>
    BY <1>5 DEF Goto
  <2>2. ~workers'
    BY SMTT(30), <1>0, <1>5, <2>1, StartupActionDone DEF SidecarInv, ControlOK
  <2>3. TipInv(left)'
    BY SMTT(30), <2>1, <2>2, TipSilent
  <2>4. ChainInv(left)'
    BY <2>1, ChainFrame
  <2>. QED
    BY <2>1, <2>3, <2>4
<1>. QED
  BY <1>1, <1>2, <1>3, <1>4, <1>5 DEF Decide

LEMMA CopyBranch ==
  ASSUME SidecarInv, DiskInv, NEW left \in Blocks, ChainInv(left), TipInv(left),
         BeginCopy \/ EndCopy
  PROVE  Spans(store') /\ \E l \in Blocks : ChainInv(l)' /\ TipInv(l)'
<1>0. head \in Blocks /\ disk \in Blocks /\ store.latest \in Blocks /\ IsAncestor(disk, head)
  BY InvFacts DEF DiskInv
<1>1. CASE BeginCopy
  <2>1. pc = "init" /\ pc' = "copy"
        /\ store' = [NoStore EXCEPT !.status = "copying", !.earliest = disk, !.latest = disk]
        /\ UNCHANGED <<nodeVars, chanVars, caller, notif, sharedVars>>
    BY <1>1 DEF BeginCopy
  <2>2. store'.status = "copying" /\ store'.latest = disk
    BY SMT, <2>1 DEF NoStore
  <2>3. ~workers
    BY SMT, <2>1 DEF SidecarInv, ControlOK, Recovering
  <2>4. TipInv(left)'
    BY SMTT(30), <1>0, <2>1, <2>2, <2>3, AncestorReflexive DEF TipInv
  <2>5. ChainInv(left)'
    BY <2>1, ChainFrame
  <2>6. Spans(store')
    BY SMTT(30), <2>2 DEF Spans
  <2>. QED
    BY <2>4, <2>5, <2>6
<1>2. CASE EndCopy
  <2>1. pc = "copy" /\ store' = InitializedAt(store.latest) /\ Reconciled
    BY <1>2 DEF EndCopy
  <2>2. Spans(store') /\ store'.latest = store.latest
    BY <1>0, <2>1, SpansInit DEF SpansFromTo
  <2>3. IsAncestor(store.latest, head)
    BY <1>0, <2>1, AncestorTransitive DEF TipInv
  <2>4. On(store'.latest, left, head)
    BY <2>2, <2>3 DEF On
  <2>. QED
    BY <2>1, <2>2, <2>4, ReconciledBranch
<1>. QED
  BY <1>1, <1>2

LEMMA UnwindBranch ==
  ASSUME SidecarInv, SidecarInv', Spans(store), NEW left \in Blocks, ChainInv(left), TipInv(left),
         UnwindToEarliest
  PROVE  Spans(store') /\ \E l \in Blocks : ChainInv(l)' /\ TipInv(l)'
<1>0. /\ store.earliest \in Blocks /\ store.latest \in Blocks
      /\ Number[store.earliest] \in Nat /\ Number[store.latest] \in Nat
  BY InvFacts
<1>1. pc = "unwind" /\ Sized(store) /\ store.status = "done"
  BY SMT DEF UnwindToEarliest, SidecarInv, StoreOK, ControlOK
<1>2. IsAncestor(store.earliest, store.latest) /\ On(store.earliest, left, head)
  BY <1>1 DEF Spans, TipInv
<1>3. CASE Number[store.latest] <= Number[store.earliest] /\ Reconciled /\ UNCHANGED store
  <2>1. Number[store.latest] = Number[store.earliest]
    BY SMTT(30), <1>0, <1>2, <1>3 DEF IsAncestor
  <2>2. store.latest = store.earliest
    BY <1>0, <1>2, <2>1, AncestorReflexive, SameAncestor
  <2>. QED
    BY <1>2, <1>3, <2>2, ReconciledBranch
<1>4. CASE Fail
  BY <1>4, DownBranch DEF Fail
<1>5. CASE store' = UnwindHistory(store, store.earliest) /\ Reconciled
  <2>1. Number[store.earliest] <= Number[store.earliest]
    BY SMTT(30), <1>0
  <2>2. Spans(store') /\ store'.latest = store.earliest
    BY <1>0, <1>1, <1>2, <1>5, <2>1, SpansUnwind DEF SpansFromTo
  <2>. QED
    BY <1>2, <1>5, <2>2, ReconciledBranch
<1>. QED
  BY <1>3, <1>4, <1>5 DEF UnwindToEarliest

LEMMA BackfillBranch ==
  ASSUME SidecarInv, SidecarInv', Spans(store), NEW left \in Blocks, ChainInv(left), TipInv(left),
         Backfill
  PROVE  Spans(store') /\ \E l \in Blocks : ChainInv(l)' /\ TipInv(l)'
<1>1. pc = "backfill" /\ Sized(store) /\ store.status = "done"
  BY SMT DEF Backfill, SidecarInv, StoreOK, ControlOK
<1>2. On(store.latest, left, head)
  BY <1>1 DEF TipInv
<1>3. CASE SpawnWorkers /\ UNCHANGED store
  BY <1>2, <1>3, ReconciledBranch
<1>4. CASE Wait
  BY <1>1, <1>4, WaitBranch
<1>5. CASE Fail \/ RequestRebuild
  <2>1. LoseMemory /\ UNCHANGED store
    BY <1>5 DEF Fail, RequestRebuild
  <2>. QED
    BY <2>1, DownBranch
<1>6. CASE /\ ~(Number[store.earliest] <= BackfillTarget)
           /\ store' = Prepend(store, Parent[store.earliest])
           /\ UNCHANGED <<nodeVars, chanVars, marker, taskVars, sharedVars, sync>>
  <2>1. store.earliest # Genesis
    BY SMTT(30), <1>6, TargetIsNat, BlockTreeAssumption
  <2>2. Spans(store') /\ store'.latest = store.latest
    BY <1>1, <1>6, <2>1, SpansPrepend DEF SpansFromTo
  <2>3. TipInv(left)'
    BY SMTT(30), <1>1, <1>6, <2>2, TipFrame
  <2>4. ChainInv(left)'
    BY <1>6, ChainFrame
  <2>. QED
    BY <2>2, <2>3, <2>4
<1>. QED
  BY <1>3, <1>4, <1>5, <1>6 DEF Backfill

(* The select loop. *)
LEMMA RecvBranch ==
  ASSUME SidecarInv, NEW left \in Blocks, ChainInv(left), TipInv(left),
         RecvLagged \/ LagLock \/ Recv \/ RetryTick
  PROVE  UNCHANGED store /\ \E l \in Blocks : ChainInv(l)' /\ TipInv(l)'
<1>0. head \in Blocks /\ store.latest \in Blocks /\ chan \in Seq(Notification)
  BY InvFacts
<1>1. CASE RecvLagged
  <2>1. /\ pc = "idle" /\ pc' = (IF workers THEN "lagLock" ELSE "reconcile")
        /\ chan' = <<>> /\ lagged' = FALSE
        /\ UNCHANGED <<nodeVars, durableVars, caller, notif, seen, todo, sharedVars, sync>>
    BY <1>1 DEF RecvLagged
  <2>2. notif' = NoNotif
    BY SMTT(30), <2>1 DEF SidecarInv, ControlOK
  <2>3. PICK l \in Blocks : l = head
    BY <1>0
  <2>4. ChainInv(l)'
    BY <2>1, <2>2, <2>3, LeadsEmpty DEF ChainInv
  <2>5. CASE workers
    <3>1. On(store.latest, left, head)
      BY SMTT(30), <2>1, <2>5 DEF TipInv, Recovering
    <3>2. Close(left, head, MaxReorg) /\ MaxReorg \in Nat
      BY SMTT(30), SidecarAssumption DEF ChainInv, Leads
    <3>3. Close(store'.latest, head', MaxReorg)
      BY <1>0, <2>1, <3>1, <3>2, CloseOn
    <3>4. Undisturbed(chan', notif', lagged')
      <4>1. DOMAIN <<>> = {} /\ NoNotif.old = <<>>
        BY SMTT(30), NoNotifType
      <4>. QED
        BY <2>1, <2>2, <4>1 DEF Undisturbed
    <3>5. pc' = "lagLock"
      BY SMTT(30), <2>1, <2>5
    <3>6. TipInv(l)'
      BY SMTT(30), <3>3, <3>4, <3>5 DEF TipInv
    <3>. QED
      BY <2>1, <2>4, <3>6
  <2>6. CASE ~workers
    <3>1. TipInv(l)'
      BY SMTT(30), <2>1, <2>6, TipSilent
    <3>. QED
      BY <2>1, <2>4, <3>1
  <2>. QED
    BY <2>5, <2>6
<1>2. CASE LagLock
  <2>1. pc' = "reconcile" /\ caller' = "lag" /\ UNCHANGED <<nodeVars, chanVars, durableVars, notif>>
    BY <1>2 DEF LagLock
  <2>2. ChainInv(left)'
    BY <2>1, ChainFrame
  <2>3. Recovering'
    BY SMT, <2>1 DEF Recovering
  <2>4. TipInv(left)'
    BY SMTT(30), <2>1, <2>3, TipSilent
  <2>. QED
    BY <2>1, <2>2, <2>4
<1>3. CASE Recv
  <2>1. pc = "idle" /\ chan # <<>> /\ chan' = Tail(chan) /\ notif' = Head(chan)
        /\ pc' = (IF workers THEN "handle" ELSE "reconcile")
        /\ UNCHANGED <<nodeVars, lagged, durableVars, sharedVars>>
    BY <1>3 DEF Recv
  <2>2. notif = NoNotif
    BY SMTT(30), <2>1 DEF SidecarInv, ControlOK
  <2>3. ChainInv(left)'
    BY <1>0, <2>1, <2>2, LeadsTake DEF ChainInv
  <2>4. TipInv(left)'
    <3>1. CASE workers
      <4>1. On(store'.latest, left, head')
        BY SMTT(30), <2>1, <3>1 DEF TipInv, Recovering
      <4>2. pc' = "handle"
        BY SMTT(30), <2>1, <3>1
      <4>. QED
        BY SMTT(30), <4>1, <4>2, TipOn
    <3>2. CASE ~workers
      BY SMTT(30), <2>1, <3>2, TipSilent
    <3>. QED
      BY <3>1, <3>2
  <2>. QED
    BY <2>1, <2>3, <2>4
<1>4. CASE RetryTick
  <2>1. /\ pc' = "reconcile" /\ ~workers
        /\ UNCHANGED <<nodeVars, chanVars, durableVars, notif, sharedVars>>
    BY <1>4 DEF RetryTick, Goto
  <2>2. ChainInv(left)'
    BY <2>1, ChainFrame
  <2>3. TipInv(left)'
    BY SMTT(30), <2>1, TipSilent
  <2>. QED
    BY <2>1, <2>2, <2>3
<1>. QED
  BY <1>1, <1>2, <1>3, <1>4

-----------------------------------------------------------------------------
(* handle_notification. *)

LEMMA HandleOn ==
  ASSUME SidecarInv, NEW left, TipInv(left), pc \in {"handle", "process"}
  PROVE  On(store.latest, left, head)
BY SMT DEF SidecarInv, ControlOK, TipInv, Recovering

(* The notification in hand is dropped, with the tip on the canonical chain *)
(* or after a commit.                                                       *)
LEMMA DoneBranch ==
  ASSUME SidecarInv', head \in Blocks, NEW left \in Blocks, ChainInv(left),
         UNCHANGED <<head, chanVars>>, pc' = "idle", notif' = NoNotif,
         \/ IsAncestor(store'.latest, head)
         \/ notif.old = <<>> /\ On(store'.latest, left, head)
  PROVE  \E l \in Blocks : ChainInv(l)' /\ TipInv(l)'
<1>1. CASE IsAncestor(store'.latest, head)
  <2>1. PICK l \in Blocks : Leads(l, head, chan, NoNotif, lagged)
    BY LeadsDrop DEF ChainInv
  <2>2. ChainInv(l)'
    BY <2>1 DEF ChainInv
  <2>3. pc' \notin {"decide", "unwind", "copy"} /\ IsAncestor(store'.latest, head')
    BY SMT, <1>1
  <2>4. TipInv(l)'
    BY <2>3, TipCanonical
  <2>. QED
    BY <2>2, <2>4
<1>2. CASE notif.old = <<>> /\ On(store'.latest, left, head)
  <2>1. Leads(left, head, chan, NoNotif, lagged)
    BY <1>2, LeadsDrop DEF ChainInv
  <2>2. ChainInv(left)'
    BY <2>1 DEF ChainInv
  <2>3. /\ On(store'.latest, left, head') /\ pc' \in {"idle", "handle", "backfill", "process"}
        /\ pc' # "process"
    BY SMT, <1>2
  <2>4. TipInv(left)'
    BY <2>3, TipOn
  <2>. QED
    BY <2>2, <2>4
<1>. QED
  BY <1>1, <1>2

LEMMA CommittedBranch ==
  ASSUME SidecarInv, SidecarInv', NEW left \in Blocks, ChainInv(left), TipInv(left),
         HandleCommitted
  PROVE  UNCHANGED store /\ \E l \in Blocks : ChainInv(l)' /\ TipInv(l)'
<1>1. pc = "handle" /\ notif.old = <<>> /\ UNCHANGED store /\ head \in Blocks
  BY InvFacts DEF HandleCommitted
<1>2. On(store.latest, left, head)
  BY SMTT(30), <1>1, HandleOn
<1>3. CASE NoteDone
  <2>1. UNCHANGED <<head, chanVars>> /\ pc' = "idle" /\ notif' = NoNotif
    BY <1>3 DEF NoteDone
  <2>. QED
    BY <1>1, <1>2, <2>1, DoneBranch
<1>4. CASE \E hs : ProcessHeights(hs)
  <2>1. UNCHANGED <<head, chanVars, notif>> /\ pc' = "process"
    BY <1>4 DEF ProcessHeights
  <2>2. ChainInv(left)'
    BY <2>1, ChainFrame
  <2>3. On(store'.latest, left, head') /\ notif'.old = <<>>
    BY <1>1, <1>2, <2>1
  <2>4. TipInv(left)'
    BY SMTT(30), <2>1, <2>3, TipOn
  <2>. QED
    BY <1>1, <2>2, <2>4
<1>. QED
  BY <1>3, <1>4 DEF HandleCommitted

LEMMA ReorgedBranch ==
  ASSUME SidecarInv, SidecarInv', Spans(store), NEW left \in Blocks, ChainInv(left), TipInv(left),
         HandleReorged \/ HandleReverted
  PROVE  Spans(store') /\ \E l \in Blocks : ChainInv(l)' /\ TipInv(l)'
<1>. DEFINE p == Parent[notif.old[1]]
<1>0. /\ head \in Blocks /\ store.latest \in Blocks /\ store.earliest \in Blocks
      /\ Number[store.latest] \in Nat
  BY InvFacts
<1>1. pc = "handle" /\ notif.old # <<>>
  BY DEF HandleReorged, HandleReverted
<1>2. /\ notif.old \in Seq(Blocks) /\ IsChain(notif.old)
      /\ notif.new \in Seq(Blocks) /\ IsChain(notif.new) /\ Sized(store) /\ store.status = "done"
      /\ notif.new # <<>> => Parent[notif.new[1]] = p
  BY <1>1, HandledFacts
<1>3. /\ p \in Blocks /\ Number[notif.old[1]] \in Nat /\ Number[notif.old[1]] = Number[p] + 1
  BY <1>1, <1>2, ChainFacts
<1>4. /\ IsAncestor(p, left) /\ IsAncestor(p, head)
      /\ notif.new # <<>> => IsAncestor(Top(notif.new), head)
  BY <1>1 DEF ChainInv, Leads, Follows
<1>5. On(store.latest, left, head)
  BY SMTT(30), <1>1, HandleOn
<1>6. \/ Fail
      \/ AboveStore /\ NoteDone /\ UNCHANGED store
      \/ ~AboveStore /\ ~TouchesEarliest /\ store' = UnwindHistory(store, p) /\ NoteDone
      \/ /\ notif.new # <<>> /\ ~AboveStore /\ ~TouchesEarliest /\ store' = UnwindHistory(store, p)
         /\ \E hs : ProcessHeights(hs)
      \/ /\ notif.new # <<>> /\ ~AboveStore /\ ~TouchesEarliest /\ UnwindAndStore(notif.new) # NoStore
         /\ store' = UnwindAndStore(notif.new) /\ NoteDone
  BY DEF HandleReorged, HandleReverted
<1>7. CASE Fail
  BY <1>7, DownBranch DEF Fail
<1>. HIDE DEF p
<1>8. NoteDone => UNCHANGED <<head, chanVars>> /\ pc' = "idle" /\ notif' = NoNotif
  BY DEF NoteDone
<1>9. CASE AboveStore /\ NoteDone /\ UNCHANGED store
  <2>1. Number[store.latest] <= Number[p]
    <3>1. Number[notif.old[1]] > Number[store.latest] /\ Number[p] \in Nat
      BY <1>3, <1>9, NumberIsNat DEF AboveStore
    <3>. QED
      BY SMTT(30), <1>0, <1>3, <3>1
  <2>2. IsAncestor(store'.latest, head)
    BY <1>0, <1>3, <1>4, <1>5, <1>9, <2>1, BelowFork
  <2>. QED
    BY <1>0, <1>8, <1>9, <2>2, DoneBranch
<1>10. CASE ~AboveStore /\ ~TouchesEarliest
  <2>1. Number[store.earliest] <= Number[p] /\ Number[p] <= Number[store.latest]
    BY <1>1, <1>10, ForkInWindow DEF p
  <2>2. IsAncestor(p, store.latest)
    BY <1>0, <1>3, <1>4, <1>5, <2>1, BelowFork
  <2>3. store' = UnwindHistory(store, p) => Spans(store') /\ store'.latest = p
    <3>1. SpansFromTo(UnwindHistory(store, p), store.earliest, p)
      BY <1>2, <1>3, <2>1, <2>2, SpansUnwind
    <3>. QED
      BY <3>1 DEF SpansFromTo
  <2>4. ASSUME notif.new # <<>>, UnwindAndStore(notif.new) # NoStore,
               store' = UnwindAndStore(notif.new)
        PROVE  Spans(store') /\ store'.latest = Top(notif.new)
    <3>1. IsAncestor(Parent[notif.new[1]], store.latest)
      BY <1>2, <2>2, <2>4
    <3>2. SpansFromTo(UnwindAndStore(notif.new), store.earliest, Top(notif.new))
      BY <1>2, <2>4, <3>1, SpansReplace
    <3>. QED
      BY <2>4, <3>2 DEF SpansFromTo
  <2>5. CASE NoteDone /\ Spans(store') /\ IsAncestor(store'.latest, head)
    BY <1>0, <1>8, <2>5, DoneBranch
  <2>6. CASE store' = UnwindHistory(store, p) /\ \E hs : ProcessHeights(hs)
    <3>1. UNCHANGED <<head, chanVars, notif>> /\ pc' = "process"
      BY <2>6 DEF ProcessHeights
    <3>2. ChainInv(left)'
      BY <3>1, ChainFrame
    <3>3. pc' \notin {"decide", "unwind", "copy"} /\ IsAncestor(store'.latest, head')
      BY SMTT(30), <1>4, <2>3, <2>6, <3>1
    <3>4. TipInv(left)'
      BY <3>3, TipCanonical
    <3>. QED
      BY <2>3, <2>6, <3>2, <3>4
  <2>7. UNCHANGED store => Spans(store')
    OBVIOUS
  <2>. QED
    BY <1>4, <1>6, <1>7, <1>9, <2>3, <2>4, <2>5, <2>6, <2>7
<1>. QED
  BY <1>6, <1>7, <1>9, <1>10

LEMMA ProcessBranch ==
  ASSUME SidecarInv, SidecarInv', DiskInv, Spans(store), NEW left \in Blocks, ChainInv(left),
         TipInv(left), ProcessBlock \/ ProcessDone
  PROVE  Spans(store') /\ \E l \in Blocks : ChainInv(l)' /\ TipInv(l)'
<1>0. head \in Blocks
  BY InvFacts
<1>1. CASE ProcessDone
  <2>1. pc = "process" /\ pc' = "idle" /\ notif' = NoNotif /\ UNCHANGED <<head, chanVars, store>>
    BY <1>1 DEF ProcessDone
  <2>2. On(store.latest, left, head)
    BY SMTT(30), <2>1, HandleOn
  <2>3. notif.old # <<>> => IsAncestor(store.latest, head)
    BY <2>1 DEF TipInv
  <2>. QED
    BY <1>0, <2>1, <2>2, <2>3, DoneBranch
<1>2. CASE Fail
  BY <1>2, DownBranch DEF Fail
<1>3. CASE ProcessBlock /\ ~Fail
  <2>1. pc = "process" /\ todo # <<>>
    BY <1>3 DEF ProcessBlock
  <2>2. PICK b : /\ \/ b = notif.new[Head(todo) - Number[notif.new[1]] + 1]
                    \/ b = CanonAt(Head(todo)) /\ b # NoBlock
                 /\ StoreAccepts(store, b)
                 /\ store' = StoreTrieUpdates(store, b) /\ todo' = Tail(todo)
                 /\ UNCHANGED <<nodeVars, chanVars, marker, pc, caller, notif, seen, sharedVars, sync>>
    BY <1>3 DEF ProcessBlock, Executes
  <2>3. /\ b \in Blocks /\ Head(todo) \in Nat
        /\ Head(todo) - Number[notif.new[1]] + 1 \in 1 .. Len(notif.new)
    BY <2>1, <2>2, ProcessedBlock
  <2>4. Sized(store) /\ store.status = "done"
    BY <2>1, HandledFacts
  <2>5. Spans(store') /\ store'.latest = b
    BY <2>2, <2>3, <2>4, SpansAppend DEF SpansFromTo
  <2>6. ChainInv(left)'
    BY <2>2, ChainFrame
  <2>7. CASE b = CanonAt(Head(todo)) /\ b # NoBlock
    <3>1. IsAncestor(b, head)
      BY <2>3, <2>7, CanonIsAncestor
    <3>2. IsAncestor(store'.latest, head') /\ pc' \notin {"decide", "unwind", "copy"}
      BY SMTT(30), <2>1, <2>2, <2>5, <3>1
    <3>. QED
      BY <2>5, <2>6, <3>2, TipCanonical
  <2>8. CASE b = notif.new[Head(todo) - Number[notif.new[1]] + 1]
    <3>1. notif.new \in Seq(Blocks) /\ IsChain(notif.new) /\ notif.new # <<>>
      BY <2>1, HandledFacts DEF SidecarInv, TodoOK
    <3>2. Top(notif.new) \in Blocks /\ IsAncestor(b, Top(notif.new))
      BY <2>3, <2>8, <3>1, ChainBelowTop, ChainFacts
    <3>3. On(Top(notif.new), left, head) /\ (notif.old # <<>> => IsAncestor(Top(notif.new), head))
      BY <3>1 DEF ChainInv, Leads, Follows
    <3>4. On(b, left, head) /\ (notif.old # <<>> => IsAncestor(b, head))
      BY <1>0, <2>3, <3>2, <3>3, AncestorTransitive DEF On
    <3>5. CASE notif.old = <<>>
      <4>1. /\ On(store'.latest, left, head') /\ pc' \in {"idle", "handle", "backfill", "process"}
            /\ notif'.old = <<>>
        BY SMTT(30), <2>1, <2>2, <2>5, <3>4, <3>5
      <4>. QED
        BY <2>5, <2>6, <4>1, TipOn
    <3>6. CASE notif.old # <<>>
      <4>1. IsAncestor(store'.latest, head') /\ pc' \notin {"decide", "unwind", "copy"}
        BY SMTT(30), <2>1, <2>2, <2>5, <3>4, <3>6
      <4>. QED
        BY <2>5, <2>6, <4>1, TipCanonical
    <3>. QED
      BY <3>5, <3>6
  <2>. QED
    BY <2>2, <2>7, <2>8
<1>. QED
  BY <1>1, <1>2, <1>3

LEMMA SyncBranch ==
  ASSUME SidecarInv, SidecarInv', DiskInv, Spans(store), NEW left \in Blocks, ChainInv(left),
         TipInv(left), SyncStart \/ SyncBlock \/ SyncRelease
  PROVE  Spans(store') /\ \E l \in Blocks : ChainInv(l)' /\ TipInv(l)'
<1>1. UNCHANGED <<nodeVars, chanVars, taskVars, ready, workers>>
  BY DEF SyncStart, SyncBlock, SyncRelease
<1>2. ChainInv(left)'
  BY <1>1, ChainFrame
<1>3. CASE SyncStart \/ SyncRelease
  <2>1. UNCHANGED store
    BY <1>3 DEF SyncStart, SyncRelease
  <2>2. Recovering' <=> Recovering
    BY <1>1 DEF Recovering
  <2>3. TipInv(left)'
    BY <1>1, <2>1, <2>2 DEF TipInv
  <2>. QED
    BY <1>2, <2>1, <2>3
<1>4. CASE SyncBlock
  <2>. DEFINE b == CanonAt(sync.next)
  <2>1. /\ sync.pc = "batch" /\ b # NoBlock /\ StoreAccepts(store, b)
        /\ store' = StoreTrieUpdates(store, b)
    BY <1>4 DEF SyncBlock, Executes
  <2>2. sync.next \in Nat
    BY SMT DEF SidecarInv, SharedOK
  <2>3. b \in Blocks /\ IsAncestor(b, head)
    BY ZenonT(30), <2>1, <2>2, CanonIsAncestor
  <2>. HIDE DEF b
  <2>4. Sized(store) /\ store.status = "done" /\ pc \notin {"decide", "unwind", "copy"}
    BY SMTT(30), <2>1 DEF SidecarInv, StoreOK, ControlOK
  <2>5. Spans(store') /\ store'.latest = b
    BY <2>1, <2>3, <2>4, SpansAppend DEF SpansFromTo
  <2>6. IsAncestor(store'.latest, head') /\ pc' \notin {"decide", "unwind", "copy"}
    BY SMTT(30), <1>1, <2>3, <2>4, <2>5
  <2>7. TipInv(left)'
    BY <2>6, TipCanonical
  <2>. QED
    BY <1>2, <2>5, <2>7
<1>. QED
  BY <1>3, <1>4

(* The canonical hash labels the block the window holds at that height. *)
LEMMA PruneBranch ==
  ASSUME 2 * MaxReorg <= Window, SidecarInv, Spans(store), NEW left \in Blocks, ChainInv(left),
         TipInv(left), Prune
  PROVE  /\ Spans(store') /\ ChainInv(left)' /\ TipInv(left)'
         /\ IsAncestor(CanonAt(Number[store.latest] - Window), store.latest)
<1>. DEFINE n == Number[store.latest] - Window
            p == CanonAt(n)
<1>0. head \in Blocks /\ store.latest \in Blocks /\ Number[store.latest] \in Nat /\ NodeOK
  BY InvFacts DEF SidecarInv
<1>1. /\ n \in Nat /\ p \in Blocks /\ Number[p] = n
      /\ Number[store.earliest] <= Number[p]
      /\ Sized(store) /\ store.status = "done" /\ store' = PruneTo(store, p)
  BY PruneFacts
<1>2. workers /\ lock = "free" /\ UNCHANGED <<nodeVars, chanVars, taskVars, sharedVars>>
  BY DEF Prune
<1>3. ~Recovering /\ pc # "unwind"
  BY SMTT(30), <1>2 DEF SidecarInv, ControlOK, Recovering
<1>4. \E d \in Nat : d <= Window /\ Close(store.latest, head, d)
  <2>0. MaxReorg \in Nat /\ 2 * MaxReorg \in Nat /\ MaxReorg <= Window /\ 2 * MaxReorg <= Window
    BY SMTT(30), SidecarAssumption
  <2>1. CASE pc = "lagLock"
    BY <2>0, <2>1 DEF TipInv
  <2>2. CASE pc # "lagLock"
    <3>1. On(store.latest, left, head) /\ Close(left, head, MaxReorg)
      BY <1>2, <1>3, <2>2 DEF TipInv, ChainInv, Leads
    <3>2. Close(store.latest, head, MaxReorg)
      BY <1>0, <2>0, <3>1, CloseOn
    <3>. QED
      BY <2>0, <3>2
  <2>. QED
    BY <2>1, <2>2
<1>5. PICK d \in Nat : d <= Window /\ Close(store.latest, head, d)
  BY <1>4
<1>6. n + d <= Number[store.latest] /\ d \in Nat
  BY SMTT(30), <1>0, <1>5, SidecarAssumption
<1>. HIDE DEF n
<1>7. /\ n \in 0 .. Number[store.latest] /\ n <= Number[head]
      /\ AncestorAt(store.latest, n) = AncestorAt(head, n)
  <2>1. n \in Nat
    BY <1>1
  <2>. HIDE DEF p
  <2>. QED
    BY SMTT(30), <1>0, <1>5, <1>6, <2>1, CloseAgrees
<1>8. p = AncestorAt(store.latest, n)
  BY <1>0, <1>1, <1>7, CanonIsBlock
<1>9. IsAncestor(p, store.latest)
  BY ZenonT(30), <1>0, <1>7, <1>8, AncestorAtIsAncestor
<1>. HIDE DEF p
<1>10. Spans(store') /\ store'.latest = store.latest
  BY <1>1, <1>9, SpansPrune DEF SpansFromTo
<1>11. ChainInv(left)'
  BY <1>2, ChainFrame
<1>12. TipInv(left)'
  BY <1>2, <1>3, <1>10, TipFrame
<1>. QED
  BY <1>9, <1>10, <1>11, <1>12 DEF p, n

-----------------------------------------------------------------------------
(* Reorgs and reverts spare persisted blocks, the next one comes when the   *)
(* last one has been handled, and two of them fit the retention window.     *)
Moderate == ~DiskReorgs /\ MaxPending <= 1 /\ 2 * MaxReorg <= Window

LEMMA InitBranch == Init => BranchInv
<1>. SUFFICES ASSUME Init PROVE BranchInv
  BY SMT
<1>1. /\ head = Genesis /\ chan = <<>> /\ notif = NoNotif /\ lagged = FALSE
      /\ pc = "down" /\ workers = FALSE
  BY DEF Init
<1>2. Genesis \in Blocks
  BY SMT, BlockTreeAssumption
<1>3. ChainInv(Genesis)
  BY <1>1, <1>2, LeadsEmpty DEF ChainInv
<1>4. TipInv(Genesis)
  BY SMT, <1>1 DEF TipInv
<1>5. Spans(store)
  BY FirstStoreType DEF Spans
<1>. QED
  BY <1>2, <1>3, <1>4, <1>5 DEF BranchInv

LEMMA NextBranch ==
  ASSUME Moderate, SidecarInv, SidecarInv', DiskInv, BranchInv, [Next]_vars
  PROVE  BranchInv'
<1>1. Spans(store)
  BY DEF BranchInv
<1>2. PICK left \in Blocks : ChainInv(left) /\ TipInv(left)
  BY DEF BranchInv
<1>. DEFINE OnBranch == \E l \in Blocks : ChainInv(l)' /\ TipInv(l)'
<1>3. SUFFICES Spans(store') /\ OnBranch
  BY DEF BranchInv, Spans
<1>4. UNCHANGED store => Spans(store')
  BY <1>1
<1>5. CASE UNCHANGED vars
  <2>1. UNCHANGED <<windowOnly, nodeVars, chanVars, durableVars, taskVars, sharedVars, sync>>
    BY <1>5 DEF vars
  <2>2. ChainInv(left)'
    BY <1>2, <2>1, ChainFrame
  <2>3. TipInv(left)'
    BY <1>2, <2>1 DEF TipInv, Recovering
  <2>. QED
    BY <1>4, <2>1, <2>2, <2>3
<1>6. ASSUME NEW b \in Blocks, MoveHead(b) PROVE Spans(store') /\ OnBranch
  <2>1. UNCHANGED store
    BY <1>6 DEF MoveHead
  <2>2. MaxPending <= 1
    BY SMT DEF Moderate
  <2>. QED
    BY <1>2, <1>4, <1>6, <2>1, <2>2, CommitBranch, ReorgBranch
<1>7. ASSUME NEW b \in Blocks, PipelineSync(b) \/ Persist(b) PROVE Spans(store') /\ OnBranch
  <2>1. UNCHANGED store
    BY <1>7 DEF PipelineSync, Persist
  <2>. QED
    BY <1>2, <1>4, <1>7, <2>1, DiskBranch
<1>8. CASE Crash
  BY <1>4, <1>8, DownBranch DEF Crash
<1>9. CASE Restart \/ WipeData \/ WipeMarker \/ Subscribe
  BY <1>1, <1>2, <1>9, OpeningBranch
<1>10. CASE StartupRead
  <2>1. UNCHANGED store
    BY <1>10 DEF StartupRead
  <2>. QED
    BY <1>2, <1>4, <1>10, <2>1, ReadBranch
<1>11. CASE Decide
  BY <1>1, <1>2, <1>11, DecideBranch
<1>12. CASE BeginCopy \/ EndCopy
  BY <1>2, <1>12, CopyBranch
<1>13. CASE UnwindToEarliest
  BY <1>1, <1>2, <1>13, UnwindBranch
<1>14. CASE Backfill
  BY <1>1, <1>2, <1>14, BackfillBranch
<1>15. CASE RecvLagged \/ LagLock \/ Recv \/ RetryTick
  BY <1>2, <1>4, <1>15, RecvBranch
<1>16. CASE HandleCommitted
  BY <1>2, <1>4, <1>16, CommittedBranch
<1>17. CASE HandleReorged \/ HandleReverted
  BY <1>1, <1>2, <1>17, ReorgedBranch
<1>18. CASE ProcessBlock \/ ProcessDone
  BY <1>1, <1>2, <1>18, ProcessBranch
<1>19. CASE SyncLoop
  BY <1>1, <1>2, <1>19, SyncBranch DEF SyncLoop
<1>20. CASE Prune
  <2>1. 2 * MaxReorg <= Window
    BY SMT DEF Moderate
  <2>. QED
    BY <1>1, <1>2, <1>20, <2>1, PruneBranch
<1>. QED
  BY <1>5, <1>6, <1>7, <1>8, <1>9, <1>10, <1>11, <1>12, <1>13, <1>14, <1>15, <1>16, <1>17, <1>18,
     <1>19, <1>20 DEF Next, Task, Node

(* While no reorg is pending the served tip is canonical. *)
LEMMA TipIsCanonical ==
  ASSUME SidecarInv, BranchInv, Undisturbed(chan, notif, lagged), workers, ~Recovering,
         pc # "lagLock"
  PROVE  IsAncestor(store.latest, head)
<1>1. PICK left \in Blocks : ChainInv(left) /\ TipInv(left)
  BY DEF BranchInv
<1>2. left = head
  BY <1>1 DEF ChainInv, Leads
<1>. QED
  BY <1>1, <1>2 DEF TipInv, On

LEMMA BranchSettled == SidecarInv /\ BranchInv => SettledIsCanonical
<1>. SUFFICES ASSUME SidecarInv, BranchInv, Settled
              PROVE  Consistent(store) /\ CanonAt(Number[store.latest]) = store.latest
  BY DEF SettledIsCanonical
<1>1. /\ workers /\ ~Recovering /\ pc # "lagLock" /\ chan = <<>> /\ ~lagged
      /\ notif = NoNotif /\ store.status = "done"
  BY SMT DEF SidecarInv, ControlOK, Recovering, Settled
<1>2. Undisturbed(chan, notif, lagged)
  BY SMT, <1>1 DEF Undisturbed, NoNotif
<1>3. IsAncestor(store.latest, head)
  BY <1>1, <1>2, TipIsCanonical
<1>4. Consistent(store)
  BY <1>1, SpansConsistent DEF SidecarInv, StoreOK, BranchInv
<1>5. head \in Blocks /\ store.latest \in Blocks /\ NodeOK /\ Number[store.latest] \in Nat
  BY InvFacts DEF SidecarInv
<1>6. Number[store.latest] <= Number[head] /\ store.latest = AncestorAt(head, Number[store.latest])
  BY <1>3, <1>5 DEF IsAncestor
<1>7. CanonAt(Number[store.latest]) = store.latest
  BY <1>5, <1>6, CanonIsBlock
<1>. QED
  BY <1>4, <1>7

LEMMA BranchHolds ==
  ASSUME Moderate PROVE Spec => [](SidecarInv /\ DiskInv /\ BranchInv)
<1>1. SidecarInv /\ SidecarInv' /\ DiskInv /\ [Next]_vars => DiskInv'
  BY NextDisk DEF Moderate
<1>2. SidecarInv /\ SidecarInv' /\ DiskInv /\ BranchInv /\ [Next]_vars => BranchInv'
  BY NextBranch
<1>. QED
  BY <1>1, <1>2, InitSidecar, NextSidecar, InitDisk, InitBranch, PTL DEF Spec

(* With moderate reorgs, whenever the sidecar has gone quiet (no message     *)
(* queued or in hand, write lock free), the window is one branch with true  *)
(* labels that ends in a canonical block: for every tree, window, batch     *)
(* size, channel capacity and number of crashes.                            *)
THEOREM QuietStoreIsCanonical == ASSUME Moderate PROVE Spec => []SettledIsCanonical
<1>. QED
  BY BranchHolds, BranchSettled, PTL

-----------------------------------------------------------------------------
(* What the readers of the proof history are promised.                      *)

(* What the window holds at a height is then what the provider returns.     *)
LEMMA HeldIsCanonical ==
  ASSUME SidecarInv, Spans(store), store.status = "done", IsAncestor(store.latest, head),
         NEW n \in Nat, Number[store.earliest] <= n, n <= Number[store.latest]
  PROVE  store.data[n - Number[store.earliest] + 1] = CanonAt(n)
<1>. DEFINE e == store.earliest
            t == store.latest
            i == n - Number[e] + 1
<1>0. /\ head \in Blocks /\ e \in Blocks /\ t \in Blocks /\ Number[e] \in Nat /\ Number[t] \in Nat
      /\ NodeOK
  BY InvFacts DEF SidecarInv
<1>1. IsAncestor(e, t) /\ store.data = Span(e, t)
  BY DEF Spans
<1>2. Number[t] <= Number[head] /\ Number[head] \in Nat
  BY <1>0, NumberIsNat DEF IsAncestor
<1>. HIDE DEF e, t
<1>3. /\ i \in 1 .. Number[t] - Number[e] + 1 /\ Number[e] + i - 1 = n /\ n \in 0 .. Number[t]
      /\ n <= Number[head]
  BY SMTT(30), <1>0, <1>2 DEF e, t
<1>. HIDE DEF i
<1>4. Span(e, t)[i] = AncestorAt(t, n)
  BY <1>0, <1>1, <1>3, SpanAt
<1>5. AncestorAt(t, n) = AncestorAt(head, n)
  BY <1>0, <1>3, AncestorAgrees DEF t
<1>6. CanonAt(n) = AncestorAt(head, n)
  BY <1>0, <1>3, CanonIsBlock
<1>. QED
  BY <1>1, <1>4, <1>5, <1>6 DEF e, i

LEMMA BranchProofs == SidecarInv /\ BranchInv => ProofsAreCanonical
<1>. SUFFICES ASSUME SidecarInv, BranchInv, PendingReorgs = 0, pc # "lagLock",
                     NEW n \in 0 .. Number[head]
              PROVE  ProvenBlock(n) \in {CanonAt(n), Refused}
  BY DEF ProofsAreCanonical
<1>1. n \in Nat
  BY SMTT(30), NumberIsNat DEF SidecarInv, NodeOK
<1>2. Undisturbed(chan, notif, lagged)
  BY NoPendingReorg
<1>3. CASE CanServe(ready, n, store)
  <2>1. /\ ready /\ store.status = "done"
        /\ Number[store.earliest] <= n /\ n <= Number[store.latest]
    BY <1>3 DEF CanServe, Covers
  <2>2. workers /\ ~Recovering
    BY <2>1 DEF SidecarInv, ControlOK
  <2>3. IsAncestor(store.latest, head)
    BY <1>2, <2>2, TipIsCanonical
  <2>4. Spans(store)
    BY DEF BranchInv
  <2>5. store.data[n - Number[store.earliest] + 1] = CanonAt(n)
    BY <1>1, <2>1, <2>3, <2>4, HeldIsCanonical
  <2>. QED
    BY <1>3, <2>5 DEF ProvenBlock, StateProviderAt
<1>4. CASE ~CanServe(ready, n, store)
  BY <1>4 DEF ProvenBlock, StateProviderAt, ResolveBlockState
<1>. QED
  BY <1>3, <1>4

(* With moderate reorgs, eth_getProof proves against the canonical block of  *)
(* the requested height or refuses (state_provider_at), in every state      *)
(* without a pending reorg: for every tree, window and distance of the      *)
(* fallback.                                                                *)
THEOREM ServedProofsAreCanonical == ASSUME Moderate PROVE Spec => []ProofsAreCanonical
<1>. QED
  BY BranchHolds, BranchProofs, PTL

-----------------------------------------------------------------------------
(* The readable blocks. *)
Readable == IF store.status = "done" THEN store.data ELSE <<>>

WindowNext == [ProofWindowOfStore!Next]_(ProofWindowOfStore!windowVars)

LEMMA ReadableWindow ==
  ASSUME SidecarInv, Spans(store), store.status = "done"
  PROVE  /\ Readable = store.data /\ Readable \in Seq(Blocks) /\ Readable # <<>>
         /\ Len(Readable) \in Nat \ {0} /\ Readable[1] = store.earliest
         /\ ProofWindowOfStore!Chained(Readable)
<1>1. Readable = store.data
  BY DEF Readable
<1>2. Sized(store) /\ store \in Store
  BY DEF SidecarInv, StoreOK, Sized
<1>3. Consistent(store)
  BY <1>2, SpansConsistent
<1>4. store.data \in Seq(Blocks)
  BY <1>2, StoreFields
<1>5. store.data # <<>> /\ store.data[1] = store.earliest /\ ProofWindowOfStore!Chained(store.data)
  BY <1>3 DEF Consistent, ProofWindowOfStore!Chained
<1>6. Len(store.data) \in Nat \ {0}
  BY SMTT(30), <1>4, <1>5
<1>. QED
  BY <1>1, <1>4, <1>5, <1>6

(* What the operations of the store leave alone. *)
LEMMA AppendFields ==
  ASSUME NEW s \in Store, NEW b
  PROVE  StoreTrieUpdates(s, b).status = s.status /\ StoreTrieUpdates(s, b).earliest = s.earliest
BY SMT DEF StoreTrieUpdates, Store

LEMMA UnwindFields ==
  ASSUME NEW s \in Store, NEW p
  PROVE  /\ UnwindHistory(s, p).status = s.status /\ UnwindHistory(s, p).earliest = s.earliest
         /\ UnwindHistory(s, p).data = SubSeq(s.data, 1, HeightsUpTo(s, p))
BY DEF UnwindHistory, Store

LEMMA PruneFields ==
  ASSUME NEW s \in Store, NEW p
  PROVE  /\ PruneTo(s, p).status = s.status
         /\ PruneTo(s, p).data = SubSeq(s.data, HeightsUpTo(s, p), Len(s.data))
BY DEF PruneTo, Store

LEMMA PrependFields ==
  ASSUME NEW s \in Store, NEW p
  PROVE  Prepend(s, p).status = s.status /\ Prepend(s, p).data = <<p>> \o s.data
BY SMT DEF Prepend, Store

LEMMA WindowStutters == ASSUME UNCHANGED <<store, ready>> PROVE WindowNext
BY DEF WindowNext, ProofWindowOfStore!windowVars

LEMMA WindowStops ==
  ASSUME SidecarInv, UNCHANGED store, ready' = FALSE
  PROVE  WindowNext
<1>1. CASE ready = FALSE
  BY <1>1, WindowStutters
<1>2. CASE ready = TRUE
  <2>1. ProofWindowOfStore!Stop
    BY <1>2 DEF ProofWindowOfStore!Stop
  <2>. QED
    BY <2>1 DEF WindowNext, ProofWindowOfStore!Next
<1>. QED
  BY <1>1, <1>2 DEF SidecarInv, SharedOK

LEMMA WindowClears ==
  ASSUME ~ready, UNCHANGED ready, store'.status # "done"
  PROVE  WindowNext
<1>1. ProofWindowOfStore!Clear
  BY DEF ProofWindowOfStore!Clear
<1>. QED
  BY <1>1 DEF WindowNext, ProofWindowOfStore!Next

(* Blocks above the first one change while the window is served. *)
LEMMA WindowFollows ==
  ASSUME SidecarInv, SidecarInv', Spans(store), Spans(store'), ready, UNCHANGED ready,
         store.status = "done", store'.status = "done", store'.earliest = store.earliest
  PROVE  WindowNext
<1>1. Readable # <<>> /\ Readable[1] = store.earliest
  BY ReadableWindow
<1>2. /\ Readable' \in Seq(Blocks) /\ Readable' # <<>>
      /\ Readable'[1] = store'.earliest /\ ProofWindowOfStore!Chained(Readable')
  <2>1. Sized(store') /\ store' \in Store
    BY DEF SidecarInv, StoreOK, Sized
  <2>2. Consistent(store')
    BY <2>1, SpansConsistent
  <2>3. Readable' = store'.data /\ store'.data \in Seq(Blocks)
    BY <2>1, StoreFields DEF Readable
  <2>. QED
    BY <2>2, <2>3 DEF Consistent, ProofWindowOfStore!Chained
<1>3. ProofWindowOfStore!Follow
  BY <1>1, <1>2 DEF ProofWindowOfStore!Follow, Readable
<1>. QED
  BY <1>3 DEF WindowNext, ProofWindowOfStore!Next

(* A reconciliation keeps the first k blocks. *)
LEMMA WindowReconciles ==
  ASSUME SidecarInv, Spans(store), store.status = "done", ~ready, ready' \in BOOLEAN,
         store'.status = "done", NEW k \in 1 .. Len(store.data),
         store'.data = SubSeq(store.data, 1, k)
  PROVE  WindowNext
<1>1. Readable # <<>> /\ Readable = store.data /\ Readable' = store'.data
  BY ReadableWindow DEF Readable
<1>2. ProofWindowOfStore!Reconcile
  BY <1>1 DEF ProofWindowOfStore!Reconcile, Readable
<1>. QED
  BY <1>2 DEF WindowNext, ProofWindowOfStore!Next

LEMMA WholeData ==
  ASSUME NEW d \in Seq(Blocks), d # <<>>
  PROVE  Len(d) \in 1 .. Len(d) /\ 1 \in 1 .. Len(d) /\ SubSeq(d, 1, Len(d)) = d
BY SMT

-----------------------------------------------------------------------------
(* What a reconciliation leaves is served now or later. *)
LEMMA ReconciledReady ==
  ASSUME SidecarInv, Reconciled \/ SpawnWorkers, pc \in {"decide", "copy", "unwind", "backfill"}
  PROVE  ~ready /\ ready' \in BOOLEAN
<1>1. ~ready
  BY SMT DEF SidecarInv, ControlOK, Recovering
<1>2. ready' = TRUE \/ ready' = ready
  BY DEF Reconciled, SpawnWorkers
<1>. QED
  BY <1>1, <1>2 DEF SidecarInv, SharedOK

LEMMA ReconciledWindow ==
  ASSUME SidecarInv, Spans(store), store.status = "done", UNCHANGED store,
         Reconciled \/ SpawnWorkers, pc \in {"decide", "unwind", "backfill"}
  PROVE  WindowNext
<1>1. ~ready /\ ready' \in BOOLEAN
  BY ReconciledReady
<1>2. store.data \in Seq(Blocks) /\ store.data # <<>>
  BY ReadableWindow
<1>. QED
  BY <1>1, <1>2, WholeData, WindowReconciles

LEMMA DownWindow ==
  ASSUME SidecarInv, Fail \/ RequestRebuild \/ Crash
  PROVE  WindowNext
<1>1. UNCHANGED store /\ ready' = FALSE
  BY DEF Fail, RequestRebuild, Crash, LoseMemory
<1>. QED
  BY <1>1, WindowStops

LEMMA WaitWindow ==
  ASSUME SidecarInv, Wait
  PROVE  WindowNext
<1>1. Fail \/ UNCHANGED <<store, ready>>
  BY DEF Wait
<1>. QED
  BY <1>1, DownWindow, WindowStutters

LEMMA DecideWindow ==
  ASSUME SidecarInv, Spans(store), Decide
  PROVE  WindowNext
<1>1. pc = "decide"
  BY DEF Decide
<1>2. CASE Wait \/ Fail \/ RequestRebuild
  BY <1>2, DownWindow, WaitWindow
<1>3. CASE Goto("unwind") \/ Goto("init")
  BY <1>3, WindowStutters DEF Goto
<1>4. CASE StartupAction = "ready" /\ Reconciled /\ UNCHANGED store
  <2>1. store.status = "done"
    BY <1>4, StartupActionDone
  <2>. QED
    BY <1>1, <1>4, <2>1, ReconciledWindow
<1>. QED
  BY <1>2, <1>3, <1>4 DEF Decide

LEMMA CopyWindow ==
  ASSUME SidecarInv, BeginCopy \/ EndCopy
  PROVE  WindowNext
<1>1. CASE BeginCopy
  <2>1. pc = "init" /\ UNCHANGED ready /\ store'.status = "copying"
    BY SMTT(30), <1>1 DEF BeginCopy, NoStore
  <2>2. ~ready
    BY SMTT(30), <2>1 DEF SidecarInv, ControlOK, Recovering
  <2>. QED
    BY SMTT(30), <2>1, <2>2, WindowClears
<1>2. CASE EndCopy
  <2>1. pc = "copy" /\ Reconciled /\ store' = InitializedAt(store.latest)
    BY <1>2 DEF EndCopy
  <2>2. ~ready /\ ready' \in BOOLEAN
    BY <2>1, ReconciledReady
  <2>3. store.status # "done" /\ store.latest \in Blocks
    <3>1. store.status = "copying"
      BY <2>1 DEF SidecarInv, ControlOK
    <3>. QED
      BY SMTT(30), <3>1, InvFacts
  <2>4. store'.status = "done" /\ store'.data = <<store.latest>>
    BY SMTT(30), <2>1 DEF InitializedAt
  <2>5. ProofWindowOfStore!Open
    BY <2>2, <2>3, <2>4 DEF ProofWindowOfStore!Open
  <2>. QED
    BY <2>5 DEF WindowNext, ProofWindowOfStore!Next
<1>. QED
  BY <1>1, <1>2

LEMMA UnwindWindow ==
  ASSUME SidecarInv, Spans(store), UnwindToEarliest
  PROVE  WindowNext
<1>1. pc = "unwind" /\ store.status = "done"
  BY SMT DEF UnwindToEarliest, SidecarInv, ControlOK
<1>2. CASE Fail
  BY <1>2, DownWindow
<1>3. CASE Reconciled /\ UNCHANGED store
  BY <1>1, <1>3, ReconciledWindow
<1>4. CASE Reconciled /\ store' = UnwindHistory(store, store.earliest)
  <2>1. ~ready /\ ready' \in BOOLEAN
    BY <1>1, <1>4, ReconciledReady
  <2>2. store.data \in Seq(Blocks) /\ store.data # <<>>
    BY <1>1, ReadableWindow
  <2>3. HeightsUpTo(store, store.earliest) = 1
    BY SMTT(30), InvFacts DEF HeightsUpTo
  <2>4. store'.status = "done" /\ store'.data = SubSeq(store.data, 1, 1)
    BY <1>1, <1>4, <2>3, InvFacts, UnwindFields
  <2>. QED
    BY <1>1, <2>1, <2>2, <2>4, WholeData, WindowReconciles
<1>. QED
  BY ZenonT(30), <1>2, <1>3, <1>4 DEF UnwindToEarliest

LEMMA BackfillWindow ==
  ASSUME SidecarInv, Spans(store), Backfill
  PROVE  WindowNext
<1>. DEFINE e == store.earliest
<1>1. pc = "backfill" /\ store.status = "done"
  BY SMT DEF Backfill, SidecarInv, ControlOK
<1>2. CASE Fail \/ RequestRebuild \/ Wait
  BY <1>2, DownWindow, WaitWindow
<1>3. CASE SpawnWorkers /\ UNCHANGED store
  BY <1>1, <1>3, ReconciledWindow
<1>4. CASE store' = Prepend(store, Parent[e]) /\ UNCHANGED ready /\ ~(Number[e] <= BackfillTarget)
  <2>1. ~ready
    BY SMTT(30), <1>1 DEF SidecarInv, ControlOK, Recovering
  <2>2. e # Genesis
    <3>1. BackfillTarget \in Nat
      BY TargetIsNat DEF SidecarInv, NodeOK, StoreOK
    <3>2. Number[Genesis] = 0
      BY SMTT(30), BlockTreeAssumption
    <3>3. \A i \in Nat : 0 <= i
      BY SMT
    <3>. QED
      BY <1>4, <3>1, <3>2, <3>3
  <2>3. Readable # <<>> /\ Readable = store.data /\ Readable[1] = e
    BY <1>1, ReadableWindow
  <2>4. store'.status = "done" /\ store'.data = <<Parent[e]>> \o store.data
    BY <1>1, <1>4, InvFacts, PrependFields
  <2>5. Readable' = <<Parent[e]>> \o store.data
    BY <2>4 DEF Readable
  <2>6. ProofWindowOfStore!Deepen
    BY <1>4, <2>1, <2>2, <2>3, <2>5 DEF ProofWindowOfStore!Deepen, Readable
  <2>. QED
    BY <2>6 DEF WindowNext, ProofWindowOfStore!Next
<1>. QED
  BY ZenonT(30), <1>2, <1>3, <1>4 DEF Backfill

LEMMA HandleWindow ==
  ASSUME SidecarInv, SidecarInv', Spans(store), Spans(store'),
         HandleCommitted \/ HandleReorged \/ HandleReverted \/ ProcessBlock \/ ProcessDone
  PROVE  WindowNext
<1>1. pc \in {"handle", "process"}
  BY DEF HandleCommitted, HandleReorged, HandleReverted, ProcessBlock, ProcessDone
<1>2. ready /\ store.status = "done"
  BY SMTT(30), <1>1 DEF SidecarInv, ControlOK, Recovering
<1>3. CASE Fail
  BY <1>3, DownWindow
<1>4. CASE UNCHANGED <<store, ready>>
  BY <1>4, WindowStutters
<1>5. CASE UNCHANGED ready /\ store'.status = "done" /\ store'.earliest = store.earliest
  BY <1>2, <1>5, WindowFollows
<1>6. store \in Store
  BY InvFacts
<1>7. CASE HandleCommitted \/ ProcessDone
  BY <1>4, <1>7 DEF HandleCommitted, ProcessDone, NoteDone, ProcessHeights
<1>8. CASE ProcessBlock
  <2>1. Fail \/ (UNCHANGED ready /\ \E b : store' = StoreTrieUpdates(store, b))
    BY <1>8 DEF ProcessBlock
  <2>. QED
    BY <1>2, <1>3, <1>5, <1>6, <2>1, AppendFields
<1>9. CASE HandleReorged \/ HandleReverted
  <2>1. \/ Fail
        \/ UNCHANGED <<store, ready>>
        \/ UNCHANGED ready /\ \E p : store' = UnwindHistory(store, p)
        \/ /\ UNCHANGED ready
           /\ store' = UnwindAndStore(notif.new) /\ UnwindAndStore(notif.new) # NoStore
    BY <1>9 DEF HandleReorged, HandleReverted, NoteDone, ProcessHeights
  <2>2. UnwindAndStore(notif.new) # NoStore
          => /\ UnwindAndStore(notif.new).status = "done"
             /\ UnwindAndStore(notif.new).earliest = store.earliest
    BY SMTT(30), <1>2, <1>6 DEF UnwindAndStore, UnwindHistory, ReplaceUpdates, Store
  <2>. QED
    <3>1. ASSUME NEW p, store' = UnwindHistory(store, p)
          PROVE  store'.status = "done" /\ store'.earliest = store.earliest
      BY <1>2, <1>6, <3>1, UnwindFields
    <3>2. ASSUME store' = UnwindAndStore(notif.new), UnwindAndStore(notif.new) # NoStore
          PROVE  store'.status = "done" /\ store'.earliest = store.earliest
      BY <2>2, <3>2
    <3>. QED
      BY <1>3, <1>4, <1>5, <2>1, <3>1, <3>2
<1>. QED
  BY <1>7, <1>8, <1>9

LEMMA SyncWindow ==
  ASSUME SidecarInv, SidecarInv', Spans(store), Spans(store'), SyncLoop
  PROVE  WindowNext
<1>1. CASE SyncStart \/ SyncRelease
  BY <1>1, WindowStutters DEF SyncStart, SyncRelease
<1>2. CASE SyncBlock
  <2>1. sync.pc = "batch" /\ store' = StoreTrieUpdates(store, CanonAt(sync.next)) /\ UNCHANGED ready
    BY <1>2 DEF SyncBlock
  <2>2. ready /\ store.status = "done"
    BY SMTT(30), <2>1 DEF SidecarInv, ControlOK, Recovering
  <2>3. store \in Store
    BY InvFacts
  <2>. QED
    BY <2>1, <2>2, <2>3, AppendFields, WindowFollows
<1>. QED
  BY <1>1, <1>2 DEF SyncLoop

LEMMA PruneWindow ==
  ASSUME SidecarInv, Spans(store), Prune
  PROVE  WindowNext
<1>. DEFINE p == CanonAt(Number[store.latest] - Window)
            k == HeightsUpTo(store, p)
<1>1. workers /\ lock = "free" /\ UNCHANGED ready
  BY DEF Prune
<1>2. ready
  BY SMTT(30), <1>1 DEF SidecarInv, ControlOK, Recovering
<1>3. /\ p \in Blocks /\ Sized(store) /\ store.status = "done" /\ store' = PruneTo(store, p)
      /\ Number[store.earliest] <= Number[p] /\ Number[p] <= Number[store.latest]
      /\ Number[p] # Number[store.earliest]
  BY PruneFacts
<1>. HIDE DEF p
<1>4. store'.status = "done" /\ store'.data = SubSeq(store.data, k, Len(store.data))
  BY <1>3, InvFacts, PruneFields
<1>5. Len(store.data) = Number[store.latest] - Number[store.earliest] + 1
  BY <1>3 DEF Sized, HeightsUpTo
<1>6. k \in 2 .. Len(store.data)
  <2>1. Number[store.earliest] \in Nat /\ Number[store.latest] \in Nat /\ Number[p] \in Nat
    BY <1>3, InvFacts, NumberIsNat
  <2>. QED
    BY SMTT(30), <1>3, <1>5, <2>1 DEF HeightsUpTo
<1>. HIDE DEF k
<1>7. Readable = store.data /\ Readable' = SubSeq(store.data, k, Len(store.data))
  BY <1>3, <1>4 DEF Readable
<1>8. ProofWindowOfStore!Slide
  BY <1>1, <1>2, <1>6, <1>7 DEF ProofWindowOfStore!Slide, Readable
<1>. QED
  BY <1>8 DEF WindowNext, ProofWindowOfStore!Next

-----------------------------------------------------------------------------
LEMMA InitWindow == Init => ProofWindowOfStore!Init
<1>. SUFFICES ASSUME Init PROVE ProofWindowOfStore!Init
  BY SMT
<1>1. ready = FALSE
  BY DEF Init
<1>2. store.status # "done"
  BY FirstStoreType
<1>. QED
  BY <1>1, <1>2 DEF ProofWindowOfStore!Init

LEMMA NextWindow ==
  ASSUME SidecarInv, SidecarInv', BranchInv, BranchInv', [Next]_vars
  PROVE  WindowNext
<1>1. Spans(store) /\ Spans(store')
  BY DEF BranchInv, Spans
<1>2. CASE UNCHANGED vars
  BY <1>2, WindowStutters DEF vars
<1>3. ASSUME NEW b \in Blocks, MoveHead(b) \/ PipelineSync(b) \/ Persist(b) PROVE WindowNext
  BY <1>3, WindowStutters DEF MoveHead, PipelineSync, Persist
<1>4. CASE Crash
  BY <1>4, DownWindow
<1>5. CASE Restart \/ WipeMarker \/ Subscribe \/ StartupRead \/ RecvLagged \/ Recv \/ RetryTick
  BY <1>5, WindowStutters DEF Restart, Goto, WipeMarker, Subscribe, StartupRead, RecvLagged, Recv,
     RetryTick
<1>6. CASE WipeData
  <2>1. pc = "wipe" /\ store' = NoStore /\ UNCHANGED ready
    BY <1>6 DEF WipeData
  <2>2. ~ready
    BY SMTT(30), <2>1 DEF SidecarInv, ControlOK, Recovering
  <2>. QED
    BY <2>1, <2>2, NoStoreType, WindowClears
<1>7. CASE LagLock
  BY <1>7, WindowStops DEF LagLock
<1>8. CASE Decide \/ BeginCopy \/ EndCopy \/ UnwindToEarliest \/ Backfill
  BY <1>1, <1>8, DecideWindow, CopyWindow, UnwindWindow, BackfillWindow
<1>9. CASE HandleCommitted \/ HandleReorged \/ HandleReverted \/ ProcessBlock \/ ProcessDone
  BY <1>1, <1>9, HandleWindow
<1>10. CASE SyncLoop
  BY <1>1, <1>10, SyncWindow
<1>11. CASE Prune
  BY <1>1, <1>11, PruneWindow
<1>. QED
  BY <1>2, <1>3, <1>4, <1>5, <1>6, <1>7, <1>8, <1>9, <1>10, <1>11 DEF Next, Task, Node

(* The refinement, for every instance with moderate reorgs: every step of    *)
(* the node, the sidecar task, the sync loop and the pruner is a step of    *)
(* ProofWindow or leaves the readable blocks and readiness alone.           *)
THEOREM SidecarImplementsWindow == ASSUME Moderate PROVE Spec => ImplementsWindow
<1>1. SidecarInv /\ SidecarInv' /\ BranchInv /\ BranchInv' /\ [Next]_vars
        => [ProofWindowOfStore!Next]_(ProofWindowOfStore!windowVars)
  BY NextWindow DEF WindowNext
<1>. QED
  BY <1>1, InitWindow, BranchHolds, PTL DEF Spec, ImplementsWindow, ProofWindowOfStore!Spec
=============================================================================
