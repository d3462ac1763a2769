---------------------------- MODULE StateCommitment ----------------------------
(***************************************************************************)
(* The state a block leaves behind, in the three forms the node gives it:     *)
(* the root it seals or checks, the hashed state it persists, and the diff it  *)
(* ships to the consumers of trace_debankBlock.                               *)
(*                                                                          *)
(*   crates/rpc/src/engine/state_root.rs   which root computation a block gets *)
(*   crates/payload/src/builder/mod.rs     the root of a block being built      *)
(*   crates/rpc/src/debank.rs, trace.rs    the diff, its decoding and its check *)
(*                                                                          *)
(* Before Unzen SELFDESTRUCT deletes a contract that already holds storage,    *)
(* possibly to be created again in the same block; from Unzen on it deletes    *)
(* only what the same transaction created.  What reth does with the slots of    *)
(* a destroyed account differs from path to path; those paths are external and  *)
(* are modelled as state_root.rs describes them.                               *)
(*                                                                          *)
(* A root is the state it commits to, a hash of a key is the key.              *)
(***************************************************************************)
EXTENDS Naturals, FiniteSets

CONSTANTS Accounts,
          Slots,
          Codes,       \* code hashes of contracts
          EmptyCode,   \* KECCAK_EMPTY
          None,        \* no account, no entry
          MaxOps       \* bound: state-changing operations of a chain

Words == 0..1                                  \* balances and slot values
Infos == [balance : Words, code : Codes \cup {EmptyCode}]
EmptyInfo == [balance |-> 0, code |-> EmptyCode]
NoSlots == [s \in Slots |-> 0]
SlotEntries == [original : Words, present : Words]
Entries == [original : Infos \cup {None}, info : Infos \cup {None}, destroyed : BOOLEAN,
            slots : [Slots -> SlotEntries \cup {None}]]

\* None is none of the things it stands in for, and no contract has empty code.
ASSUME StateAssumption ==
    /\ None \notin Infos /\ None \notin SlotEntries /\ None \notin Entries
    /\ EmptyCode \notin Codes

VARIABLES
    world,    \* the state the EVM sees: account info and storage
    fresh,    \* accounts created by the running transaction
    bundle,   \* BundleState of the block: per account, or None if untouched
    hashed,   \* the persisted hashed state: info of live accounts, and slots
    mirror,   \* a consumer's copy: infos, slots and the codes it knows
    unzen,    \* whether Unzen is active for the block, and for its parent
    config,   \* tree config: use_state_root_task, share-sparse-trie flag
    sealed,   \* the root in the header of the sealed block
    step,     \* "idle", "execute", "sealed", "valid", "traced" or "rejected"
    ops       \* operations left (bound)

stateVars == <<world, fresh, bundle, hashed, mirror, unzen, config, sealed, step, ops>>

States == [info : [Accounts -> Infos \cup {None}], slots : [Accounts -> [Slots -> Words]]]

StateTypeOK ==
    /\ world \in States
    /\ fresh \subseteq Accounts
    /\ bundle \in [Accounts -> Entries \cup {None}]
    /\ hashed \in States
    /\ mirror.codes \subseteq Codes
    /\ unzen \in [parent : BOOLEAN, block : BOOLEAN]
    /\ step \in {"idle", "execute", "sealed", "valid", "traced", "rejected"}
    /\ ops \in 0..MaxOps

-----------------------------------------------------------------------------
(* The EVM: transactions that create, fund, write and destroy accounts.      *)

Untouched == [a \in Accounts |-> None]

\* The bundle entry of an account the block has not touched before.
Entry(a) ==
    IF bundle[a] # None THEN bundle[a]
    ELSE [original |-> world.info[a], info |-> world.info[a], destroyed |-> FALSE,
          slots |-> [s \in Slots |-> None]]

CodeAt(a) == IF world.info[a] = None THEN EmptyCode ELSE world.info[a].code

\* An operation of the running transaction.
Operate ==
    /\ step = "execute"
    /\ ops > 0
    /\ ops' = ops - 1
    /\ UNCHANGED <<hashed, mirror, unzen, config, sealed, step>>

\* A block starts on the persisted state of its parent.
OpenBlock(active) ==
    /\ step = "idle"
    /\ step' = "execute"
    /\ unzen' = [parent |-> unzen.block, block |-> active]
    /\ UNCHANGED <<world, fresh, bundle, hashed, mirror, config, sealed, ops>>

\* A transfer or a nonce bump.
Fund(a) ==
    /\ Operate
    /\ \E b \in Words :
        LET old == IF world.info[a] = None THEN EmptyInfo ELSE world.info[a]
            info == [old EXCEPT !.balance = b] IN
        /\ info # world.info[a] /\ info # EmptyInfo
        /\ world' = [world EXCEPT !.info[a] = info]
        /\ bundle' = [bundle EXCEPT ![a] = [Entry(a) EXCEPT !.info = info]]
    /\ UNCHANGED fresh

\* CREATE or CREATE2 at an address without code.
Create(a) ==
    /\ Operate
    /\ CodeAt(a) = EmptyCode
    /\ \E c \in Codes :
        LET info == [balance |-> 1, code |-> c] IN
        /\ world' = [world EXCEPT !.info[a] = info]
        /\ bundle' = [bundle EXCEPT ![a] = [Entry(a) EXCEPT !.info = info]]
    /\ fresh' = fresh \cup {a}

\* SSTORE.  Behind a destruction the original value of every slot is zero.
Store(a, s) ==
    /\ Operate
    /\ CodeAt(a) # EmptyCode
    /\ LET v == 1 - world.slots[a][s]
           entry == Entry(a)
           original == IF entry.slots[s] # None THEN entry.slots[s].original
                       ELSE IF entry.destroyed THEN 0 ELSE world.slots[a][s] IN
       /\ world' = [world EXCEPT !.slots[a][s] = v]
       /\ bundle' = [bundle EXCEPT ![a] = [entry EXCEPT
                        !.slots[s] = [original |-> original, present |-> v]]]
    /\ UNCHANGED fresh

\* SELFDESTRUCT: EIP-6780 limits it to accounts of the same transaction.
Destroy(a) ==
    /\ Operate
    /\ CodeAt(a) # EmptyCode
    /\ unzen.block => a \in fresh
    /\ world' = [info |-> [world.info EXCEPT ![a] = None], slots |-> [world.slots EXCEPT ![a] = NoSlots]]
    /\ bundle' = [bundle EXCEPT ![a] = [original |-> Entry(a).original, info |-> None,
                                        destroyed |-> TRUE, slots |-> [s \in Slots |-> None]]]
    /\ UNCHANGED fresh

\* The next transaction of the block starts.
NextTransaction ==
    /\ step = "execute"
    /\ fresh # {}
    /\ fresh' = {}
    /\ UNCHANGED <<world, bundle, hashed, mirror, unzen, config, sealed, step, ops>>

-----------------------------------------------------------------------------
(* Roots.                                                                   *)

\* A root commits to the accounts that exist, and to their storage only.
Root(state) ==
    [a \in {x \in Accounts : state.info[x] # None} |-> <<state.info[a], state.slots[a]>>]

\* A bundle applied to a hashed state.  `zeroes` is the set of accounts all of
\* whose earlier slots are written as explicit zeroes.
Apply(state, entries, zeroes) ==
    LET touched == {a \in Accounts : entries[a] # None} IN
    [info |-> [a \in Accounts |-> IF a \in touched THEN entries[a].info ELSE state.info[a]],
     slots |-> [a \in Accounts |-> [s \in Slots |->
        CASE a \in touched /\ entries[a].slots[s] # None -> entries[a].slots[s].present
          [] a \in zeroes /\ ~(a \in touched /\ entries[a].slots[s] # None) -> 0
          [] OTHER -> state.slots[a][s]]]]

Destroyed == {a \in Accounts : bundle[a] # None /\ bundle[a].destroyed}

\* HashedPostStateProvider::hashed_post_state, and HashedPostState::from_bundle_state.
HashedPostState == Apply(hashed, bundle, Destroyed)
RawPostState == Apply(hashed, bundle, {})

\* reth's sparse trie keeps a destroyed account's storage root, and with it a
\* leaf of a zero account.
SparsePostState ==
    [RawPostState EXCEPT !.info = [a \in Accounts |->
        IF a \in Destroyed /\ @[a] = None /\ RawPostState.slots[a] # NoSlots
        THEN EmptyInfo ELSE @[a]]]

\* TaikoStateRootStrategy: which blocks root through the provider, and which
\* builds may take the sparse trie's root.
RootsThroughProvider == ~config.task \/ ~unzen.block

PayloadBuilderMayShareSparseTrie == unzen.parent

\* Mutant of StateRootWithParentStorage: wiped slots are not looked up.
StateRootRaw == RawPostState

\* state_root_with_parent_storage: the post state that is rooted and persisted.
StateRootWithParentStorage == HashedPostState

\* The root the payload builder seals: of the shared sparse trie if it was given
\* one and the task succeeds, else through the provider in `finish`.
BuiltRoots ==
    {Root(HashedPostState)}
    \cup (IF config.share /\ PayloadBuilderMayShareSparseTrie THEN {Root(SparsePostState)} ELSE {})

\* The post states validation can settle on for a block whose header commits to
\* `root`: the synchronous job's, or the task's with reth's serial fallback.
ValidatedPostStates(root) ==
    IF RootsThroughProvider THEN {s \in {StateRootWithParentStorage} : Root(s) = root}
    ELSE IF Root(SparsePostState) = root THEN {RawPostState}
    ELSE {s \in {HashedPostState} : Root(s) = root}

\* The block is sealed with one of the roots its builder can come up with.
SealBlock ==
    /\ step = "execute"
    /\ step' = "sealed"
    /\ sealed' \in BuiltRoots
    /\ UNCHANGED <<world, fresh, bundle, hashed, mirror, unzen, config, ops>>

\* Engine-tree validation of the state root.
ValidateRoot ==
    /\ step = "sealed"
    /\ step' = IF ValidatedPostStates(sealed) = {} THEN "rejected" ELSE "valid"
    /\ UNCHANGED <<world, fresh, bundle, hashed, mirror, unzen, config, sealed, ops>>

-----------------------------------------------------------------------------
(* The storage diff.  A diff holds the rows of BlockStorageDiff as functions  *)
(* on the accounts they name; the roots of its metadata are left out.         *)

Changed(slot) == slot # None /\ slot.original # slot.present

\* The slots a diff lists for an account: what the block changed, or, behind a
\* destruction, every non-zero slot of the recreated account.
DiffSlots(entry) ==
    IF entry.info = None THEN {}
    ELSE {s \in Slots : IF entry.destroyed THEN entry.slots[s] # None /\ entry.slots[s].present # 0
                                           ELSE Changed(entry.slots[s])}

\* build_storage_diff.
StorageDiff(entries) ==
    LET skipped(e) == e = None \/ (e.destroyed /\ e.original = None /\ e.info = None)
        rows == {a \in Accounts : ~skipped(entries[a])}
        live == {a \in rows : entries[a].info # None}
        parentProvesCode(e) == ~e.destroyed /\ e.original # None /\ e.original.code = e.info.code
        named == {a \in live : \/ entries[a].info # entries[a].original
                               \/ entries[a].destroyed
                               \/ DiffSlots(entries[a]) # {}}
        stored == {a \in live : \/ DiffSlots(entries[a]) # {}
                                \/ entries[a].destroyed} IN
    [accounts |-> [a \in named |-> entries[a].info],
     deleted  |-> {a \in rows : entries[a].destroyed},
     storage  |-> [a \in stored |-> [s \in DiffSlots(entries[a]) |-> entries[a].slots[s].present]],
     codes    |-> {entries[a].info.code : a \in {x \in live : ~parentProvesCode(entries[x])}}
                  \ {EmptyCode}]

\* Mutant: a diff that ships code only with accounts that are new.
DiffOfNewCode(entries) ==
    [StorageDiff(entries) EXCEPT !.codes =
        {entries[a].info.code : a \in {x \in DOMAIN StorageDiff(entries).accounts : entries[x].original = None}}
        \ {EmptyCode}]
BuildStorageDiff(entries) == StorageDiff(entries)

\* build_genesis_storage_diff: one account and one storage row for every allocation.
BuildGenesisStorageDiff(state) ==
    LET alloc == {a \in Accounts : state.info[a] # None} IN
    [accounts |-> [a \in alloc |-> state.info[a]],
     deleted  |-> {},
     storage  |-> [a \in alloc |-> [s \in {x \in Slots : state.slots[a][x] # 0} |-> state.slots[a][s]]],
     codes    |-> {state.info[a].code : a \in alloc} \ {EmptyCode}]

\* The checks of decode_storage_diff_exact that functions do not already make.
DecodesExactly(diff) ==
    /\ DOMAIN diff.storage \subseteq DOMAIN diff.accounts
    /\ diff.codes \subseteq {diff.accounts[a].code : a \in DOMAIN diff.accounts}

\* The hashed update a decoded diff stands for, as bundle entries, with storage
\* wipes made explicit by materialize_storage_wipes, applied to `state`.
ApplyDiff(state, diff) ==
    [info |-> [a \in Accounts |->
        CASE a \in DOMAIN diff.accounts -> diff.accounts[a]
          [] a \in diff.deleted \ DOMAIN diff.accounts -> None
          [] OTHER -> state.info[a]],
     slots |-> [a \in Accounts |-> [s \in Slots |->
        IF a \in DOMAIN diff.storage /\ s \in DOMAIN diff.storage[a] THEN diff.storage[a][s]
        ELSE IF a \in diff.deleted THEN 0
        ELSE state.slots[a][s]]]]

\* Replay a sealed block on its parent's state and ship its diff.  If roots are
\* verified, the replayed root must be the header's, and the decoded diff must
\* lead to the same root.
\* `contracts` are the codes revm (external) has put into the bundle, and any: if
\* one the diff needs is missing the request fails, and the consumer, which can
\* only ask again, has no diff of this block and stays where it is.
\* The empty encoding of a block that keeps its parent's root needs no case: an
\* anchor transaction bumps the nonce of its sender, and a block without
\* transactions has an empty diff.
TraceBlock ==
    /\ step = "valid"
    /\ LET diff == BuildStorageDiff(bundle)
           after == ApplyDiff(hashed, diff)
           copy == ApplyDiff(mirror, diff) IN
       \E verify \in BOOLEAN, contracts \in SUBSET Codes :
       IF ~(diff.codes \subseteq contracts) THEN UNCHANGED <<step, mirror>>
       ELSE IF DecodesExactly(diff) /\ (verify => Root(HashedPostState) = sealed /\ Root(after) = sealed)
       THEN /\ step' = "traced"
            /\ mirror' = [info |-> copy.info, slots |-> copy.slots, codes |-> mirror.codes \cup diff.codes]
       ELSE step' = "rejected" /\ UNCHANGED mirror
    /\ UNCHANGED <<world, fresh, bundle, hashed, unzen, config, sealed, ops>>

\* The bundle lives as long as its block is processed.
ForgetBlock == bundle' = Untouched /\ fresh' = {}

\* The engine persists the post state its validation settled on.
PersistBlock ==
    /\ step = "traced"
    /\ step' = "idle"
    /\ hashed' \in ValidatedPostStates(sealed)
    /\ ForgetBlock
    /\ UNCHANGED <<world, mirror, unzen, config, sealed, ops>>

\* A refused block is forgotten: the head is still its parent.
AbandonBlock ==
    /\ step = "rejected"
    /\ step' = "idle"
    /\ world' = hashed
    /\ sealed' = Root(hashed)
    /\ unzen' = [unzen EXCEPT !.block = unzen.parent]
    /\ ForgetBlock
    /\ UNCHANGED <<hashed, mirror, config, ops>>

StateInit ==
    /\ \E alloc \in SUBSET Accounts, c \in Codes :
        world = [info |-> [a \in Accounts |-> IF a \in alloc THEN [balance |-> 1, code |-> c] ELSE None],
                 slots |-> [a \in Accounts |-> [s \in Slots |-> IF a \in alloc THEN 1 ELSE 0]]]
    /\ hashed = world
    /\ LET genesis == BuildGenesisStorageDiff(world)
           nothing == [info |-> [a \in Accounts |-> None], slots |-> [a \in Accounts |-> NoSlots]]
           copy == ApplyDiff(nothing, genesis) IN
       mirror = [info |-> copy.info, slots |-> copy.slots, codes |-> genesis.codes]
    /\ fresh = {}
    /\ bundle = Untouched
    /\ unzen \in [parent : {FALSE}, block : BOOLEAN]
    /\ config \in [task : BOOLEAN, share : BOOLEAN]
    /\ sealed = Root(world)
    /\ step = "idle"
    /\ ops = MaxOps

\* What a transaction of the block does.
ExecuteStep ==
    \/ \E a \in Accounts : Fund(a)
    \/ \E a \in Accounts : Create(a)
    \/ \E a \in Accounts, s \in Slots : Store(a, s)
    \/ \E a \in Accounts : Destroy(a)
    \/ NextTransaction

-----------------------------------------------------------------------------
(* Properties.                                                              *)

\* The hashed state the node persists is the state the EVM left, slot by slot,
\* after every sequence of creations, destructions and recreations and across
\* Unzen, whichever root computation the configuration selects
\* (TaikoStateRootStrategy).
HashedStateIsExact == step = "idle" => hashed = world

\* A consumer that starts from the genesis diff and applies every block's diff
\* holds the chain's accounts, storage and code, with no slot of a destroyed
\* account left over (build_storage_diff).
MirrorFollowsChain ==
    step \in {"traced", "idle"} =>
        /\ [info |-> mirror.info, slots |-> mirror.slots] = world
        /\ \A a \in Accounts : CodeAt(a) \in mirror.codes \cup {EmptyCode}
=============================================================================
